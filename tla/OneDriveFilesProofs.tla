------------------------- MODULE OneDriveFilesProofs -------------------------
(***************************************************************************)
(* Proofs about OneDriveFiles, for any number of names, any size of a page *)
(* and any number of changes of the drive.                                 *)
(***************************************************************************)
EXTENDS OneDriveFiles, FiniteSetTheorems, SequenceTheorems, TLAPS

-----------------------------------------------------------------------------
(* The inductive invariant.  One page at most is alive, the one list_files *)
(* holds; next_url points nowhere else; and only a loop that is running    *)
(* holds one.  Between two requests the handle has no header left.         *)

PageInv ==
    /\ ~memfault
    /\ json \in 0..2
    /\ next \in {0, json}
    /\ live = {json} \ {0}
    /\ pc # "page" => json = 0

HeaderInv ==
    /\ hdr = {}
    /\ "Authorization" \in sent.hdr <=> sent.host = "graph"

ResultInv == pc # "idle" => result = "none"

IInv == PageInv /\ HeaderInv /\ ResultInv

LEMMA InitInv == Init => IInv
  BY DEF Init, IInv, PageInv, HeaderInv, ResultInv

(* A Graph request carries the bearer token.                               *)
LEMMA GraphHeader ==
  ASSUME NEW S, Send("graph", Bearer \cup S)
  PROVE  "Authorization" \in sent'.hdr <=> sent'.host = "graph"
  BY DEF Send, Bearer

LEMMA GraphHeaderAlone ==
  ASSUME Send("graph", Bearer)
  PROVE  "Authorization" \in sent'.hdr <=> sent'.host = "graph"
  BY DEF Send, Bearer

(* What an operation that returns leaves of the handle and the page.       *)
LEMMA Returned ==
  ASSUME NEW r, Return(r)
  PROVE  pc' = "idle" /\ result' = r /\ hdr' = {} /\ json' = 0 /\ next' = 0
  BY DEF Return

LEMMA BearerHas == "Authorization" \in Bearer
  BY DEF Bearer

(* A failed Graph request of an operation that holds no page any more.     *)
LEMMA GraphFailsInv ==
  ASSUME IInv, NEW h, NEW fs, "Authorization" \in h,
         GraphFails(h, fs), live' = {}, ~memfault'
  PROVE  IInv'
<1>1. PICK r : Return(r) /\ sent' = [host |-> "graph", hdr |-> h]
  <2>1. CASE Unauthorized(h)
    BY <2>1 DEF Unauthorized, Send
  <2>2. CASE Send("graph", h) /\ \E r \in fs : Return(r)
    BY <2>2 DEF Send
  <2>3. QED
    BY <2>1, <2>2 DEF GraphFails
<1>2. pc' = "idle" /\ result' = r /\ hdr' = {} /\ json' = 0 /\ next' = 0
  BY <1>1, Returned
<1>3. PageInv'
  BY <1>2 DEF PageInv
<1>4. HeaderInv'
  BY <1>1, <1>2 DEF HeaderInv
<1>5. ResultInv'
  BY <1>2 DEF ResultInv
<1>6. QED
  BY <1>3, <1>4, <1>5 DEF IInv

(* So does an operation that returns an outcome of its own.                *)
LEMMA ReturnInv ==
  ASSUME IInv, NEW r, Return(r), live' = {}, ~memfault', HeaderInv'
  PROVE  IInv'
  BY Returned DEF IInv, PageInv, ResultInv

LEMMA CheckExpireInv ==
  ASSUME IInv, CheckExpire
  PROVE  IInv'
<1>1. json = 0 /\ next = 0 /\ live = {} /\ ~memfault /\ result = "none"
  BY DEF CheckExpire, IInv, PageInv, ResultInv
<1>2. UNCHANGED sent
  BY DEF CheckExpire
<1>3. CASE pc' = FirstRequest[op] /\ UNCHANGED <<listing, result, hdr>>
  BY <1>1, <1>2, <1>3 DEF listing, IInv, PageInv, HeaderInv, ResultInv
<1>4. CASE Return("failed") /\ UNCHANGED <<live, memfault>>
  <2>1. HeaderInv'
    BY <1>2, <1>4, Returned DEF IInv, HeaderInv
  <2>2. QED
    BY <1>1, <1>4, <2>1, ReturnInv
<1>5. QED
  BY <1>3, <1>4 DEF CheckExpire

(* The pages of a listing.                                                 *)
LEMMA PageInvPreserved ==
  ASSUME IInv, PageFails \/ PageFollows \/ LastPage
  PROVE  IInv'
<1>1. pc = "page" /\ ~memfault' /\ result = "none"
  BY DEF PageFails, PageFollows, LastPage, PageRequest, IInv, PageInv, ResultInv
<1>2. live \ {json} = {}
  BY DEF IInv, PageInv
<1>3. CASE PageFails
  <2>1. GraphFails(Bearer, Failures(TRUE)) /\ live' = {}
    BY <1>2, <1>3 DEF PageFails
  <2>2. "Authorization" \in Bearer
    BY DEF Bearer
  <2>3. QED
    BY <1>1, <2>1, <2>2, GraphFailsInv
<1>4. CASE PageFollows
  <2>1. NewPage \in {1, 2}
    BY DEF NewPage
  <2>2. json' = NewPage /\ next' = NewPage /\ live' = {NewPage}
    BY <1>2, <1>4 DEF PageFollows
  <2>3. UNCHANGED <<pc, hdr, result, expired>>
    BY <1>4 DEF PageFollows, token, outcome
  <2>4. HeaderInv'
    BY <1>4, <2>3, GraphHeaderAlone DEF PageFollows, IInv, HeaderInv
  <2>5. QED
    BY <1>1, <2>1, <2>2, <2>3, <2>4 DEF IInv, PageInv, ResultInv
<1>5. CASE LastPage
  <2>1. Return("ok") /\ live' = {} /\ Send("graph", Bearer)
    BY <1>2, <1>5 DEF LastPage
  <2>2. HeaderInv'
    BY <2>1, Returned, GraphHeaderAlone DEF HeaderInv
  <2>3. QED
    BY <1>1, <2>1, <2>2, ReturnInv
<1>6. QED
  BY <1>3, <1>4, <1>5

-----------------------------------------------------------------------------
(* The other operations hold no page, so only the headers and the outcome  *)
(* are at stake.                                                           *)

LEMMA NoPage ==
  ASSUME IInv, pc # "page", UNCHANGED <<live, memfault>>
  PROVE  json = 0 /\ next = 0 /\ live' = {} /\ ~memfault'
  BY DEF IInv, PageInv

(* A request of theirs that does not return leads to the next one, with    *)
(* the handle reset.                                                       *)
LEMMA NextRequestInv ==
  ASSUME IInv, pc # "page", pc # "idle", pc' # "page", UNCHANGED <<live, memfault>>,
         hdr' = {}, UNCHANGED <<result, array, json, next, cursor>>,
         "Authorization" \in sent'.hdr <=> sent'.host = "graph"
  PROVE  IInv'
  BY NoPage DEF IInv, PageInv, HeaderInv, ResultInv

(* A request of theirs that returns an outcome of its own.                 *)
LEMMA LastRequestInv ==
  ASSUME IInv, pc # "page", UNCHANGED <<live, memfault>>,
         NEW r, Return(r),
         "Authorization" \in sent'.hdr <=> sent'.host = "graph"
  PROVE  IInv'
<1>1. HeaderInv'
  BY Returned DEF HeaderInv
<1>2. QED
  BY <1>1, NoPage, ReturnInv

LEMMA UploadFileInv ==
  ASSUME IInv, UploadFile
  PROVE  IInv'
<1>1. pc # "page" /\ UNCHANGED <<live, memfault>>
  BY DEF UploadFile
<1>2. CASE GraphFails(Bearer, Failures(FALSE))
  BY <1>1, <1>2, NoPage, BearerHas, GraphFailsInv
<1>3. CASE Send("graph", Bearer) /\ (Return("ok") \/ Return("failed"))
  BY <1>1, <1>3, GraphHeaderAlone, LastRequestInv
<1>4. QED
  BY <1>2, <1>3 DEF UploadFile

LEMMA CreateFolderInv ==
  ASSUME IInv, CreateFolder
  PROVE  IInv'
<1>1. pc = "folder" /\ UNCHANGED <<live, memfault>>
  BY DEF CreateFolder
<1>2. CASE GraphFails(Bearer \cup {"Content-Type"}, Failures(FALSE))
  <2>1. "Authorization" \in Bearer \cup {"Content-Type"}
    BY DEF Bearer
  <2>2. QED
    BY <1>1, <1>2, <2>1, NoPage, GraphFailsInv
<1>3. CASE /\ Send("graph", Bearer \cup {"Content-Type"})
           /\ \/ /\ pc' = "session"
                 /\ hdr' = {}
                 /\ UNCHANGED <<result, array, json, next, cursor>>
              \/ Return("failed")
  <2>1. "Authorization" \in sent'.hdr <=> sent'.host = "graph"
    BY <1>3, GraphHeader
  <2>2. CASE Return("failed")
    BY <1>1, <2>1, <2>2, LastRequestInv
  <2>3. CASE pc' = "session" /\ hdr' = {} /\ UNCHANGED <<result, array, json, next, cursor>>
    BY <1>1, <2>1, <2>3, NextRequestInv
  <2>4. QED
    BY <1>3, <2>2, <2>3
<1>4. QED
  BY <1>2, <1>3 DEF CreateFolder

LEMMA CreateUploadSessionInv ==
  ASSUME IInv, CreateUploadSession
  PROVE  IInv'
<1>1. pc = "session" /\ UNCHANGED <<live, memfault>> /\ hdr = {}
  BY DEF CreateUploadSession, IInv, HeaderInv
<1>2. CASE GraphFails(hdr \cup Bearer, Failures(TRUE))
  <2>1. "Authorization" \in hdr \cup Bearer
    BY DEF Bearer
  <2>2. QED
    BY <1>1, <1>2, <2>1, NoPage, GraphFailsInv
<1>3. CASE /\ Send("graph", hdr \cup Bearer)
           /\ pc' = "session_upload"
           /\ hdr' = {}
           /\ UNCHANGED <<result, array, json, next, cursor>>
  <2>1. Send("graph", Bearer)
    BY <1>1, <1>3 DEF Send
  <2>2. QED
    BY <1>1, <1>3, <2>1, GraphHeaderAlone, NextRequestInv
<1>4. QED
  BY <1>2, <1>3 DEF CreateUploadSession

(* The upload session is the first request that must not carry the token:  *)
(* hdr is empty because the handle was reset.                              *)
LEMMA UploadToSessionInv ==
  ASSUME IInv, UploadToSession
  PROVE  IInv'
<1>1. pc # "page" /\ UNCHANGED <<live, memfault>> /\ hdr = {}
  BY DEF UploadToSession, IInv, HeaderInv
<1>2. "Authorization" \in sent'.hdr <=> sent'.host = "graph"
  BY <1>1 DEF UploadToSession, Send
<1>3. Return("ok") \/ Return("failed")
  BY DEF UploadToSession
<1>4. QED
  BY <1>1, <1>2, <1>3, LastRequestInv

LEMMA GetFileInfoInv ==
  ASSUME IInv, GetFileInfo
  PROVE  IInv'
<1>1. pc = "info" /\ UNCHANGED <<live, memfault>>
  BY DEF GetFileInfo
<1>2. CASE GraphFails(Bearer, Failures(TRUE))
  BY <1>1, <1>2, NoPage, BearerHas, GraphFailsInv
<1>3. CASE Send("graph", Bearer) /\ (Return("ok") \/ Return("too_small"))
  BY <1>1, <1>3, GraphHeaderAlone, LastRequestInv
<1>4. CASE /\ Send("graph", Bearer)
           /\ pc' = "download"
           /\ hdr' = {}
           /\ UNCHANGED <<result, array, json, next, cursor>>
  BY <1>1, <1>4, GraphHeaderAlone, NextRequestInv
<1>5. QED
  BY <1>2, <1>3, <1>4 DEF GetFileInfo

LEMMA DownloadFileInv ==
  ASSUME IInv, DownloadFile
  PROVE  IInv'
<1>1. pc # "page" /\ UNCHANGED <<live, memfault>> /\ hdr = {}
  BY DEF DownloadFile, IInv, HeaderInv
<1>2. "Authorization" \in sent'.hdr <=> sent'.host = "graph"
  BY <1>1 DEF DownloadFile, Send
<1>3. Return("ok") \/ Return("failed")
  BY DEF DownloadFile
<1>4. QED
  BY <1>1, <1>2, <1>3, LastRequestInv

LEMMA DeleteFileInv ==
  ASSUME IInv, DeleteFile
  PROVE  IInv'
<1>1. pc # "page" /\ UNCHANGED <<live, memfault>>
  BY DEF DeleteFile
<1>2. CASE GraphFails(Bearer, Failures(FALSE))
  BY <1>1, <1>2, NoPage, BearerHas, GraphFailsInv
<1>3. CASE Send("graph", Bearer) /\ (Return("ok") \/ Return("failed"))
  BY <1>1, <1>3, GraphHeaderAlone, LastRequestInv
<1>4. QED
  BY <1>2, <1>3 DEF DeleteFile

(* The environment leaves the connection alone, except that the token may  *)
(* expire while the call runs or after it.                                 *)
LEMMA EnvironmentInv ==
  ASSUME IInv, OtherClient \/ Lapse \/ Revoke \/ UNCHANGED vars
  PROVE  IInv'
<1>1. UNCHANGED <<pc, hdr, sent, listing, outcome>>
  BY DEF OtherClient, Lapse, Revoke, vars
<1>3. UNCHANGED <<json, next, live, memfault, result>>
  BY <1>1 DEF listing, outcome
<1>4. PageInv'
  BY <1>1, <1>3 DEF IInv, PageInv
<1>5. HeaderInv'
  BY <1>1 DEF IInv, HeaderInv
<1>6. ResultInv'
  BY <1>1, <1>3 DEF IInv, ResultInv
<1>7. QED
  BY <1>4, <1>5, <1>6 DEF IInv

LEMMA CallInv ==
  ASSUME IInv, Call
  PROVE  IInv'
<1>1. UNCHANGED <<hdr, sent, json, next, live, memfault>>
  BY DEF Call, listing
<1>2. pc = "idle" /\ pc' = "check" /\ result' = "none"
  BY DEF Call
<1>3. QED
  BY <1>1, <1>2 DEF IInv, PageInv, HeaderInv, ResultInv

(* Whatever the drive, the token and the application do, the inductive     *)
(* invariant holds.                                                        *)
THEOREM Invariant == Spec => []IInv
<1>1. IInv /\ [Next]_vars => IInv'
  <2> SUFFICES ASSUME IInv, [Next]_vars PROVE IInv'
    OBVIOUS
  <2>1. CASE Call
    BY <2>1, CallInv
  <2>2. CASE CheckExpire
    BY <2>2, CheckExpireInv
  <2>3. CASE PageFails \/ PageFollows \/ LastPage
    BY <2>3, PageInvPreserved
  <2>4. CASE UploadFile
    BY <2>4, UploadFileInv
  <2>5. CASE CreateFolder
    BY <2>5, CreateFolderInv
  <2>6. CASE CreateUploadSession
    BY <2>6, CreateUploadSessionInv
  <2>7. CASE UploadToSession
    BY <2>7, UploadToSessionInv
  <2>8. CASE GetFileInfo
    BY <2>8, GetFileInfoInv
  <2>9. CASE DownloadFile
    BY <2>9, DownloadFileInv
  <2>10. CASE DeleteFile
    BY <2>10, DeleteFileInv
  <2>11. CASE OtherClient \/ Lapse \/ Revoke \/ UNCHANGED vars
    BY <2>11, EnvironmentInv
  <2>12. QED
    BY <2>1, <2>2, <2>3, <2>4, <2>5, <2>6, <2>7, <2>8, <2>9, <2>10, <2>11 DEF Next, Step
<1>2. QED
  BY InitInv, <1>1, PTL DEF Spec

(* list_files deletes every page once, after the request for the link      *)
(* inside it, whichever way it returns.                                    *)
THEOREM PagesAreDeletedOnce == Spec => []PagesDeletedOnce
<1>1. IInv => PagesDeletedOnce
  BY DEF IInv, PageInv, PagesDeletedOnce
<1>2. QED
  BY Invariant, <1>1, PTL

(* The bearer token goes to Graph and never to the hosts of upload         *)
(* sessions and downloads.                                                 *)
THEOREM TokenGoesToGraphOnly == Spec => []BearerOnlyToGraph
<1>1. IInv => BearerOnlyToGraph
  BY DEF IInv, HeaderInv, BearerOnlyToGraph
<1>2. QED
  BY Invariant, <1>1, PTL

-----------------------------------------------------------------------------
(* What a result says of the drive.  While a call runs, the drive has done *)
(* nothing for it: the request that stores or removes the file is the last *)
(* one of its operation.  The requests that read belong to operations that *)
(* write nothing.                                                          *)

EffectInv ==
    /\ effect \in BOOLEAN
    /\ pc # "idle" => ~effect
    /\ pc \in {"page", "info", "download"} => op \notin Writes
    /\ EffectKnown

(* A call that returns r.                                                  *)
LEMMA ReturnEffect ==
  ASSUME EffectInv, NEW r, Return(r), UNCHANGED op, effect' \in BOOLEAN,
         r = "try_again" => ~effect',
         r = "ok" => effect' \/ op \notin Writes
  PROVE  EffectInv'
  BY Returned DEF EffectInv, EffectKnown

(* A Graph request that fails: a refused one was not carried out, and no   *)
(* failure is reported as success.                                         *)
LEMMA GraphFailsEffect ==
  ASSUME EffectInv, pc # "idle", NEW h, NEW b \in BOOLEAN, GraphFails(h, Failures(b)),
         UNCHANGED <<op, effect>>
  PROVE  EffectInv'
<1>1. ~effect /\ effect' = FALSE /\ op' = op
  BY DEF EffectInv
<1>2. PICK r : Return(r) /\ r # "ok"
  BY DEF GraphFails, Unauthorized, Failures
<1>3. QED
  BY <1>1, <1>2, ReturnEffect

(* The request that writes, carried out: the answer comes or is lost.      *)
LEMMA WriteEffect ==
  ASSUME EffectInv, UNCHANGED op, effect' = TRUE, Return("ok") \/ Return("failed")
  PROVE  EffectInv'
<1>1. CASE Return("ok")
  BY <1>1, ReturnEffect
<1>2. CASE Return("failed")
  BY <1>2, ReturnEffect
<1>3. QED
  BY <1>1, <1>2

(* A request in the middle of an operation.                                *)
LEMMA GoesOnEffect ==
  ASSUME EffectInv, pc # "idle", UNCHANGED <<op, effect>>,
         pc' # "idle", pc' \in {"page", "info", "download"} => op \notin Writes
  PROVE  EffectInv'
  BY DEF EffectInv, EffectKnown

LEMMA StepEffect ==
  ASSUME EffectInv, Step, op \in {"none"} \cup DOMAIN FirstRequest,
         pc = "check" => op \in DOMAIN FirstRequest
  PROVE  EffectInv'
<1>1. /\ effect \in BOOLEAN /\ (pc # "idle" => ~effect)
      /\ pc \in {"page", "info", "download"} => op \notin Writes
  BY DEF EffectInv
<1>2. CASE CheckExpire
  <2>1. pc = "check" /\ UNCHANGED <<op, effect>>
    BY <1>2 DEF CheckExpire
  <2>2. CASE Return("failed")
    BY <1>1, <2>1, <2>2, ReturnEffect
  <2>3. CASE pc' = FirstRequest[op]
    BY <2>1, <2>3, GoesOnEffect DEF FirstRequest, Writes
  <2>4. QED
    BY <1>2, <2>2, <2>3 DEF CheckExpire
<1>3. CASE PageFails
  BY <1>3, GraphFailsEffect DEF PageFails, PageRequest
<1>4. CASE PageFollows
  BY <1>1, <1>4, GoesOnEffect DEF PageFollows, PageRequest
<1>5. CASE LastPage
  BY <1>1, <1>5, ReturnEffect DEF LastPage, PageRequest
<1>6. CASE UploadFile
  <2>1. CASE GraphFails(Bearer, Failures(FALSE)) /\ Unchanged
    BY <1>6, <2>1, GraphFailsEffect DEF UploadFile, Unchanged
  <2>2. CASE Store /\ (Return("ok") \/ Return("failed"))
    BY <1>6, <2>2, WriteEffect DEF UploadFile, Store
  <2>3. QED
    BY <1>6, <2>1, <2>2 DEF UploadFile
<1>7. CASE CreateFolder
  <2>1. pc = "folder" /\ UNCHANGED <<op, effect>>
    BY <1>7 DEF CreateFolder
  <2>2. CASE GraphFails(Bearer \cup {"Content-Type"}, Failures(FALSE))
    BY <2>1, <2>2, GraphFailsEffect
  <2>3. CASE pc' = "session"
    BY <2>1, <2>3, GoesOnEffect
  <2>4. CASE Return("failed")
    BY <1>1, <2>1, <2>4, ReturnEffect
  <2>5. QED
    BY <1>7, <2>2, <2>3, <2>4 DEF CreateFolder
<1>8. CASE CreateUploadSession
  <2>1. pc = "session" /\ UNCHANGED <<op, effect>>
    BY <1>8 DEF CreateUploadSession
  <2>2. CASE GraphFails(hdr \cup Bearer, Failures(TRUE))
    BY <2>1, <2>2, GraphFailsEffect
  <2>3. CASE pc' = "session_upload"
    BY <2>1, <2>3, GoesOnEffect
  <2>4. QED
    BY <1>8, <2>2, <2>3 DEF CreateUploadSession
<1>9. CASE UploadToSession
  <2>1. CASE Unchanged /\ Return("failed")
    BY <1>1, <1>9, <2>1, ReturnEffect DEF UploadToSession, Unchanged
  <2>2. CASE Store /\ (Return("ok") \/ Return("failed"))
    BY <1>9, <2>2, WriteEffect DEF UploadToSession, Store
  <2>3. QED
    BY <1>9, <2>1, <2>2 DEF UploadToSession
<1>10. CASE GetFileInfo
  <2>1. pc = "info" /\ UNCHANGED <<op, effect>>
    BY <1>10 DEF GetFileInfo, Unchanged
  <2>2. CASE GraphFails(Bearer, Failures(TRUE))
    BY <2>1, <2>2, GraphFailsEffect
  <2>3. CASE pc' = "download"
    BY <1>1, <2>1, <2>3, GoesOnEffect
  <2>4. CASE Return("ok")
    BY <1>1, <2>1, <2>4, ReturnEffect
  <2>5. CASE Return("too_small")
    BY <1>1, <2>1, <2>5, ReturnEffect
  <2>6. QED
    BY <1>10, <2>2, <2>3, <2>4, <2>5 DEF GetFileInfo
<1>11. CASE DownloadFile
  <2>1. pc = "download" /\ UNCHANGED <<op, effect>>
    BY <1>11 DEF DownloadFile, Unchanged
  <2>2. CASE Return("ok")
    BY <1>1, <2>1, <2>2, ReturnEffect
  <2>3. CASE Return("failed")
    BY <1>1, <2>1, <2>3, ReturnEffect
  <2>4. QED
    BY <1>11, <2>2, <2>3 DEF DownloadFile
<1>12. CASE DeleteFile
  <2>1. CASE GraphFails(Bearer, Failures(FALSE)) /\ Unchanged
    BY <1>12, <2>1, GraphFailsEffect DEF DeleteFile, Unchanged
  <2>2. CASE Remove /\ (Return("ok") \/ Return("failed"))
    BY <1>12, <2>2, WriteEffect DEF DeleteFile, Remove
  <2>3. QED
    BY <1>12, <2>1, <2>2 DEF DeleteFile
<1>13. QED
  BY <1>2, <1>3, <1>4, <1>5, <1>6, <1>7, <1>8, <1>9, <1>10, <1>11, <1>12 DEF Step

-----------------------------------------------------------------------------
(* Sorted.  The rank of a name in a set is how many names of the set come  *)
(* up to it; ranks tell names apart, so they run through 1 to the size of  *)
(* the set, and listing the names by rank sorts them.                      *)

Rank(S, n) == Cardinality({m \in S : m <= n})

(* What a list of names says: it is increasing, and has these names.       *)
Increasing(s) == \A i, j \in 1..Len(s) : i < j => s[i] < s[j]
Names(s) == {s[i] : i \in 1..Len(s)}

LEMMA NameType == MaxName \in Nat /\ Name \in SUBSET Nat /\ \A n \in Name : n >= 1 /\ n <= MaxName
  BY SizeAssumption DEF Name

LEMMA NamesFinite ==
  ASSUME NEW S \in SUBSET Name
  PROVE  IsFiniteSet(S) /\ Cardinality(S) \in Nat
<1>1. IsFiniteSet(Name)
  BY FS_Interval, SizeAssumption DEF Name
<1>2. QED
  BY <1>1, FS_Subset, FS_CardinalityType

LEMMA RankOrder ==
  ASSUME NEW S \in SUBSET Name, NEW m \in S, NEW n \in S
  PROVE  /\ Rank(S, n) \in 1..Cardinality(S)
         /\ m <= n => Rank(S, m) <= Rank(S, n)
         /\ m < n => Rank(S, m) < Rank(S, n)
<1> DEFINE L(k) == {x \in S : x <= k}
<1>1. m \in Nat /\ n \in Nat /\ \A x \in S : x \in Nat
  BY NameType
<1>2. IsFiniteSet(S) /\ Cardinality(S) \in Nat
  BY NamesFinite
<1>3. /\ IsFiniteSet(L(m)) /\ IsFiniteSet(L(n))
      /\ Cardinality(L(m)) \in Nat /\ Cardinality(L(n)) \in Nat
  <2>1. L(m) \in SUBSET Name /\ L(n) \in SUBSET Name
    OBVIOUS
  <2>2. QED
    BY <2>1, NamesFinite
<1>4. Cardinality(L(n)) <= Cardinality(S)
  <2>1. L(n) \in SUBSET S
    OBVIOUS
  <2>2. QED
    BY <1>2, <2>1, FS_Subset
<1>5. Cardinality(L(n)) >= 1
  <2>1. n \in L(n)
    BY <1>1
  <2>2. Cardinality(L(n)) # 0
    BY <1>3, <2>1, FS_EmptySet
  <2>3. QED
    BY <1>3, <2>2
<1>6. ASSUME m <= n PROVE L(m) \in SUBSET L(n)
  <2>1. ASSUME NEW x \in S, x <= m PROVE x <= n
    <3>1. x \in Nat
      BY <1>1
    <3>2. QED
      BY <1>1, <1>6, <2>1, <3>1
  <2>2. QED
    BY <2>1
<1>7. ASSUME m <= n PROVE Cardinality(L(m)) <= Cardinality(L(n))
  <2>1. L(m) \in SUBSET L(n)
    BY <1>6, <1>7
  <2>2. QED
    BY <1>3, <2>1, FS_Subset
<1>8. ASSUME m < n PROVE Cardinality(L(m)) < Cardinality(L(n))
  <2>1. L(m) \in SUBSET L(n)
    <3>1. m <= n
      BY <1>1, <1>8
    <3>2. QED
      BY <1>6, <3>1
  <2>2. n \in L(n) /\ n \notin L(m)
    BY <1>1, <1>8
  <2>3. Cardinality(L(n)) # Cardinality(L(m)) /\ Cardinality(L(m)) <= Cardinality(L(n))
    BY <1>3, <2>1, <2>2, FS_Subset
  <2>4. QED
    BY <1>3, <2>3
<1>9. QED
  BY <1>2, <1>3, <1>4, <1>5, <1>7, <1>8 DEF Rank

LEMMA SortedExists ==
  ASSUME NEW S \in SUBSET Name
  PROVE  \E s \in [1..Cardinality(S) -> S] :
            \A i, j \in 1..Cardinality(S) : i < j => s[i] < s[j]
<1> DEFINE N == Cardinality(S)
           r == [n \in S |-> Rank(S, n)]
<1>1. IsFiniteSet(S) /\ N \in Nat /\ \A n \in S : n \in Nat
  BY NamesFinite, NameType
<1>2. \A n \in S : Rank(S, n) \in 1..N
  BY RankOrder
<1>3. \A m, n \in S : /\ m <= n => Rank(S, m) <= Rank(S, n)
                      /\ m < n => Rank(S, m) < Rank(S, n)
  BY RankOrder
<1>4. r \in Injection(S, 1..N)
  <2>1. r \in [S -> 1..N]
    BY <1>2
  <2>2. ASSUME NEW m \in S, NEW n \in S, r[m] = r[n] PROVE m = n
    <3>1. Rank(S, m) = Rank(S, n) /\ Rank(S, m) \in Nat
      BY <1>2, <2>2
    <3>2. ~ (m < n) /\ ~ (n < m)
      BY <1>3, <3>1
    <3>3. QED
      BY <1>1, <3>2
  <2> HIDE DEF r
  <2>3. QED
    BY <2>1, <2>2 DEF Injection, IsInjective
<1>5. IsFiniteSet(1..N) /\ Cardinality(1..N) = N
  BY <1>1, FS_Interval
<1>6. r \in Surjection(S, 1..N)
  <2> HIDE DEF r, N
  <2>1. Cardinality(S) = Cardinality(1..N)
    BY <1>5 DEF N
  <2>2. QED
    BY <1>4, <1>5, <2>1, FS_Injection
<1>7. \A i \in 1..N : \E n \in S : Rank(S, n) = i
  BY <1>6 DEF Surjection
<1> DEFINE s == [i \in 1..N |-> CHOOSE n \in S : Rank(S, n) = i]
<1>8. \A i \in 1..N : s[i] \in S /\ Rank(S, s[i]) = i
  BY <1>7
<1>9. s \in [1..N -> S]
  BY <1>7
<1>10. ASSUME NEW i \in 1..N, NEW j \in 1..N, i < j PROVE s[i] < s[j]
  <2> HIDE DEF s
  <2>1. s[i] \in S /\ s[j] \in S /\ Rank(S, s[i]) = i /\ Rank(S, s[j]) = j
    BY <1>8
  <2>2. ~ (s[j] <= s[i])
    <3>1. ~ (j <= i)
      BY <1>1, <1>10
    <3>2. QED
      BY <1>3, <2>1, <3>1
  <2>3. s[i] \in Nat /\ s[j] \in Nat
    BY <1>1, <2>1
  <2>4. QED
    BY <2>2, <2>3
<1> HIDE DEF s, N
<1>11. \E t \in [1..N -> S] : \A i, j \in 1..N : i < j => t[i] < t[j]
  BY <1>9, <1>10
<1>12. QED
  BY <1>11 DEF N

(* Sorted lists the names of a set, each once, in their order.             *)
LEMMA SortedIs ==
  ASSUME NEW S \in SUBSET Name
  PROVE  /\ Sorted(S) \in Seq(Name)
         /\ Increasing(Sorted(S))
         /\ Names(Sorted(S)) = S
<1> DEFINE N == Cardinality(S)
           s == Sorted(S)
<1>1. s \in [1..N -> S] /\ \A i, j \in 1..N : i < j => s[i] < s[j]
  BY SortedExists DEF Sorted
<1> HIDE DEF s
<1>2. IsFiniteSet(S) /\ N \in Nat /\ \A n \in S : n \in Nat
  BY NamesFinite, NameType
<1> HIDE DEF N
<1>3. s \in Seq(Name) /\ Len(s) = N
  BY <1>1, <1>2
<1>4. Increasing(s)
  BY <1>1, <1>3 DEF Increasing
<1>5. s \in Injection(1..N, S)
  <2>1. ASSUME NEW i \in 1..N, NEW j \in 1..N, s[i] = s[j] PROVE i = j
    <3>1. s[i] \in Nat
      BY <1>1, <1>2
    <3>2. ~ (i < j) /\ ~ (j < i)
      BY <1>1, <2>1, <3>1
    <3>3. QED
      BY <1>2, <3>2
  <2>2. QED
    BY <1>1, <2>1 DEF Injection, IsInjective
<1>6. IsFiniteSet(1..N) /\ Cardinality(1..N) = N
  BY <1>2, FS_Interval
<1>7. s \in Surjection(1..N, S)
  <2>1. Cardinality(1..N) = Cardinality(S)
    BY <1>6 DEF N
  <2>2. QED
    BY <1>2, <1>5, <2>1, FS_Injection
<1>8. Names(s) = S
  BY <1>1, <1>3, <1>7 DEF Names, Surjection
<1>9. QED
  BY <1>3, <1>4, <1>8 DEF s

-----------------------------------------------------------------------------
(* The listing.  While the loop runs, the array holds in order names up to *)
(* the cursor, of files the folder had at some time of the call, and every *)
(* one of those it had all the time.                                       *)

ListInv ==
    /\ files \in SUBSET Name /\ always \in SUBSET Name /\ ever \in SUBSET Name
    /\ array \in Seq(Name) /\ reported \in Seq(Name) /\ cursor \in 0..MaxName
    /\ ended \in BOOLEAN
    /\ pc # "idle" => /\ always \subseteq files /\ files \subseteq ever
                      /\ reported = <<>> /\ ~ ended
    /\ pc # "page" => array = <<>> /\ cursor = 0
    /\ Increasing(array)
    /\ \A n \in Names(array) : n <= cursor /\ n \in ever
    /\ \A n \in always : n <= cursor => n \in Names(array)
    /\ Increasing(reported)
    /\ op = "list" /\ pc = "idle" =>
          /\ Names(reported) \subseteq ever
          /\ ended => always \subseteq Names(reported)

LEMMA NothingListed ==
  /\ <<>> \in Seq(Name) /\ Increasing(<<>>) /\ Names(<<>>) = {}
  BY DEF Increasing, Names

LEMMA Beginning ==
  ASSUME NEW s \in Seq(Name), Increasing(s), NEW k \in 0..Len(s)
  PROVE  /\ SubSeq(s, 1, k) \in Seq(Name) /\ Len(SubSeq(s, 1, k)) = k
         /\ \A i \in 1..k : SubSeq(s, 1, k)[i] = s[i] /\ i \in 1..Len(s)
         /\ Increasing(SubSeq(s, 1, k))
         /\ Names(SubSeq(s, 1, k)) \subseteq Names(s)
<1> DEFINE t == SubSeq(s, 1, k)
<1>1. t \in Seq(Name) /\ Len(t) = k /\ \A i \in 1..k : t[i] = s[i] /\ i \in 1..Len(s)
  OBVIOUS
<1> HIDE DEF t
<1>2. Increasing(t)
  BY <1>1 DEF Increasing
<1>3. Names(t) \subseteq Names(s)
  BY <1>1 DEF Names
<1>4. QED
  BY <1>1, <1>2, <1>3 DEF t

LEMMA Joined ==
  ASSUME NEW s \in Seq(Name), NEW t \in Seq(Name), Increasing(s), Increasing(t),
         NEW c \in Nat,
         \A n \in Names(s) : n <= c, \A n \in Names(t) : n > c
  PROVE  /\ s \o t \in Seq(Name)
         /\ Increasing(s \o t)
         /\ Names(s \o t) = Names(s) \cup Names(t)
<1> DEFINE a == s \o t
<1>1. /\ a \in Seq(Name) /\ Len(a) = Len(s) + Len(t)
      /\ Len(s) \in Nat /\ Len(t) \in Nat
      /\ \A i \in 1..Len(s) + Len(t) : a[i] = IF i <= Len(s) THEN s[i] ELSE t[i - Len(s)]
  BY ConcatProperties
<1> HIDE DEF a
<1>2. \A i \in 1..Len(s) : i \in 1..Len(s) + Len(t) /\ a[i] = s[i] /\ s[i] \in Names(s)
                           /\ s[i] \in Nat
  <2>1. ASSUME NEW i \in 1..Len(s) PROVE i \in 1..Len(s) + Len(t) /\ i <= Len(s)
    BY <1>1
  <2>2. \A i \in 1..Len(s) : s[i] \in Nat
    <3>1. \A i \in 1..Len(s) : s[i] \in Name
      OBVIOUS
    <3>2. QED
      BY <3>1, NameType
  <2>3. QED
    BY <1>1, <2>1, <2>2 DEF Names
<1>3. \A i \in 1..Len(t) : i + Len(s) \in 1..Len(s) + Len(t) /\ a[i + Len(s)] = t[i]
                           /\ t[i] \in Names(t) /\ t[i] \in Nat
  <2>1. ASSUME NEW i \in 1..Len(t)
        PROVE i + Len(s) \in 1..Len(s) + Len(t) /\ ~ (i + Len(s) <= Len(s))
              /\ (i + Len(s)) - Len(s) = i
    BY <1>1
  <2>2. \A i \in 1..Len(t) : t[i] \in Nat
    <3>1. \A i \in 1..Len(t) : t[i] \in Name
      OBVIOUS
    <3>2. QED
      BY <3>1, NameType
  <2>3. QED
    BY <1>1, <2>1, <2>2 DEF Names
<1>4. \A i \in 1..Len(a) : i \in 1..Len(s) \/ \E j \in 1..Len(t) : i = j + Len(s)
  <2>1. ASSUME NEW i \in 1..Len(a), i \notin 1..Len(s)
        PROVE  i - Len(s) \in 1..Len(t) /\ i = (i - Len(s)) + Len(s)
    BY <1>1, <2>1
  <2>2. QED
    BY <2>1
<1>5. ASSUME NEW i \in 1..Len(a), NEW j \in 1..Len(a), i < j PROVE a[i] < a[j]
  <2>1. CASE i \in 1..Len(s) /\ j \in 1..Len(s)
    BY <1>2, <1>5, <2>1 DEF Increasing
  <2>2. CASE i \in 1..Len(s) /\ \E k \in 1..Len(t) : j = k + Len(s)
    <3>1. PICK k \in 1..Len(t) : j = k + Len(s)
      BY <2>2
    <3>2. a[i] = s[i] /\ s[i] <= c /\ s[i] \in Nat
      BY <1>2, <2>2
    <3>3. a[j] = t[k] /\ t[k] > c /\ t[k] \in Nat
      BY <1>3, <3>1
    <3>4. QED
      BY <3>2, <3>3
  <2>3. CASE \E k \in 1..Len(t) : i = k + Len(s)
    <3>1. PICK k \in 1..Len(t) : i = k + Len(s)
      BY <2>3
    <3>2. j \notin 1..Len(s)
      BY <1>1, <1>5, <3>1
    <3>3. PICK l \in 1..Len(t) : j = l + Len(s)
      BY <1>4, <3>2
    <3>4. k < l
      BY <1>1, <1>5, <3>1, <3>3
    <3>5. QED
      BY <1>3, <3>1, <3>3, <3>4 DEF Increasing
  <2>4. QED
    BY <1>4, <2>1, <2>2, <2>3
<1>6. Names(a) = Names(s) \cup Names(t)
  <2>1. ASSUME NEW n \in Names(a) PROVE n \in Names(s) \cup Names(t)
    <3>1. PICK i \in 1..Len(a) : n = a[i]
      BY DEF Names
    <3>2. QED
      BY <1>2, <1>3, <1>4, <3>1
  <2>2. ASSUME NEW n \in Names(s) PROVE n \in Names(a)
    <3>1. PICK i \in 1..Len(s) : n = s[i]
      BY DEF Names
    <3>2. QED
      BY <1>1, <1>2, <3>1 DEF Names
  <2>3. ASSUME NEW n \in Names(t) PROVE n \in Names(a)
    <3>1. PICK i \in 1..Len(t) : n = t[i]
      BY DEF Names
    <3>2. QED
      BY <1>1, <1>3, <3>1 DEF Names
  <2>4. QED
    BY <2>1, <2>2, <2>3
<1>7. QED
  BY <1>1, <1>5, <1>6 DEF Increasing, a

(* A page holds the first names after k, up to its last one; without a     *)
(* link to another it holds all of them.                                   *)
LEMMA PageIs ==
  ASSUME files \in SUBSET Name, NEW k \in 0..MaxName
  PROVE  /\ Page(k) \in Seq(Name) /\ Increasing(Page(k))
         /\ \A n \in Names(Page(k)) : n \in files /\ n > k
         /\ ~ HasNextLink(k) => Names(Page(k)) = {n \in files : n > k}
         /\ HasNextLink(k) =>
               /\ Page(k)[PageSize] \in Name
               /\ Page(k)[PageSize] > k
               /\ \A n \in Names(Page(k)) : n <= Page(k)[PageSize]
               /\ \A n \in files : n > k /\ n <= Page(k)[PageSize] => n \in Names(Page(k))
<1> DEFINE S == {n \in files : n > k}
           r == Rest(k)
           p == Page(k)
           l == p[PageSize]
<1>1. r \in Seq(Name) /\ Increasing(r) /\ Names(r) = S
  <2>1. S \in SUBSET Name
    OBVIOUS
  <2>2. QED
    BY <2>1, SortedIs DEF Rest
<1> HIDE DEF r
<1>2. CASE ~ HasNextLink(k)
  <2>1. p = r
    BY <1>2 DEF Page, r
  <2>2. QED
    BY <1>1, <1>2, <2>1
<1>3. CASE HasNextLink(k)
  <2>1. p = SubSeq(r, 1, PageSize) /\ Len(r) > PageSize
    BY <1>3 DEF Page, HasNextLink, r
  <2>2. PageSize \in 1..Len(r) /\ PageSize \in 0..Len(r) /\ PageSize \in 1..PageSize
    BY <1>1, <2>1, SizeAssumption
  <2>3. /\ p \in Seq(Name) /\ Len(p) = PageSize /\ Increasing(p)
        /\ Names(p) \subseteq S
        /\ \A i \in 1..PageSize : p[i] = r[i]
    BY <1>1, <2>1, <2>2, Beginning
  <2> HIDE DEF p
  <2>4. l \in Name /\ l \in Names(p)
    BY <2>2, <2>3 DEF Names
  <2>5. l \in S
    BY <2>3, <2>4
  <2>6. ASSUME NEW n \in Names(p) PROVE n <= l
    <3>1. PICK i \in 1..PageSize : n = p[i]
      BY <2>3 DEF Names
    <3>2. n \in Nat
      BY <2>3, NameType
    <3>3. CASE i = PageSize
      BY <3>1, <3>2, <3>3
    <3>4. CASE i < PageSize
      <4>1. p[i] < p[PageSize]
        BY <2>2, <2>3, <3>4 DEF Increasing
      <4>2. l \in Nat
        BY <2>4, NameType
      <4>3. QED
        BY <3>1, <3>2, <4>1, <4>2
    <3>5. i = PageSize \/ i < PageSize
      BY SizeAssumption
    <3>6. QED
      BY <3>3, <3>4, <3>5
  <2>7. ASSUME NEW n \in S, n <= l PROVE n \in Names(p)
    <3>1. PICK i \in 1..Len(r) : n = r[i]
      BY <1>1 DEF Names
    <3>2. ~ (PageSize < i)
      <4>1. ASSUME PageSize < i PROVE FALSE
        <5>1. r[PageSize] < r[i]
          BY <1>1, <2>2, <4>1 DEF Increasing
        <5>2. r[PageSize] = l /\ l \in Nat /\ n \in Nat
          BY <2>2, <2>3, <2>4, NameType
        <5>3. QED
          BY <2>7, <3>1, <5>1, <5>2
      <4>2. QED
        BY <4>1
    <3>3. i \in 1..PageSize
      BY <1>1, <3>2, SizeAssumption
    <3>4. QED
      BY <2>3, <3>1, <3>3 DEF Names
  <2>8. QED
    BY <1>3, <2>3, <2>4, <2>5, <2>6, <2>7 DEF p
<1>4. QED
  BY <1>2, <1>3

LEMMA ListInit ==
  ASSUME Init
  PROVE  ListInv
<1>1. /\ pc = "idle" /\ array = <<>> /\ reported = <<>> /\ cursor = 0
      /\ files \in SUBSET Name /\ always = {} /\ ever = {}
  BY DEF Init
<1>2. ended = FALSE
  BY DEF Init
<1>3. 0 \in 0..MaxName
  BY NameType
<1>4. always \in SUBSET Name /\ ever \in SUBSET Name
  BY <1>1
<1>5. Names(reported) \subseteq ever /\ \A n \in Names(array) : n <= cursor /\ n \in ever
  BY <1>1, NothingListed
<1>6. QED
  BY <1>1, <1>2, <1>3, <1>4, <1>5, NothingListed DEF ListInv

(* An operation that returns without a listing.                            *)
LEMMA ReturnList ==
  ASSUME ListInv, pc # "idle", NEW r, Return(r), UNCHANGED <<reported, ended>>,
         files' \in SUBSET Name, always' \in SUBSET Name, ever' \in SUBSET Name
  PROVE  ListInv'
<1>1. pc' = "idle" /\ array' = <<>> /\ cursor' = 0
  BY DEF Return
<1>2. reported' = <<>> /\ ~ ended' /\ ended' \in BOOLEAN
  BY DEF ListInv
<1>3. 0 \in 0..MaxName /\ \A n \in always' : ~ (n <= 0)
  BY NameType
<1>4. QED
  BY <1>1, <1>2, <1>3, NothingListed DEF ListInv

(* A step of one that goes on, or of the environment, when the drive is    *)
(* left alone or what is observed of it follows.                           *)
LEMMA ListKept ==
  ASSUME ListInv, UNCHANGED <<array, cursor, reported, ended, op>>,
         pc' = pc \/ (pc \notin {"idle", "page"} /\ pc' # "idle"),
         files' \in SUBSET Name,
         UNCHANGED <<files, always, ever>> \/ Observed
  PROVE  ListInv'
<1>1. always' \subseteq always /\ ever \subseteq ever'
  BY DEF Observed
<1>2. always' \in SUBSET Name /\ ever' \in SUBSET Name
  BY DEF ListInv, Observed
<1>3. pc' # "idle" => always' \subseteq files' /\ files' \subseteq ever'
  BY DEF ListInv, Observed
<1>4. QED
  BY <1>1, <1>2, <1>3 DEF ListInv

LEMMA PageFollowsList ==
  ASSUME ListInv, PageFollows
  PROVE  ListInv'
<1> DEFINE p == Page(cursor)
<1>1. /\ pc = "page" /\ HasNextLink(cursor)
      /\ array' = array \o p /\ cursor' = p[PageSize]
      /\ UNCHANGED <<pc, op, reported, ended, files, always, ever>>
  BY DEF PageFollows, PageRequest, drive, outcome
<1>2. /\ files \in SUBSET Name /\ cursor \in 0..MaxName /\ array \in Seq(Name)
      /\ always \subseteq files /\ files \subseteq ever /\ Increasing(array)
      /\ \A n \in Names(array) : n <= cursor /\ n \in ever
      /\ \A n \in always : n <= cursor => n \in Names(array)
  BY <1>1 DEF ListInv
<1>3. /\ p \in Seq(Name) /\ Increasing(p)
      /\ \A n \in Names(p) : n \in files /\ n > cursor
      /\ p[PageSize] \in Name /\ p[PageSize] > cursor
      /\ \A n \in Names(p) : n <= p[PageSize]
      /\ \A n \in files : n > cursor /\ n <= p[PageSize] => n \in Names(p)
  BY <1>1, <1>2, PageIs
<1> HIDE DEF p
<1>4. cursor \in Nat /\ cursor' \in Nat /\ cursor' \in 0..MaxName /\ cursor < cursor'
  <2>1. cursor' \in Name /\ cursor' > cursor
    BY <1>1, <1>3
  <2>2. cursor' \in Nat /\ cursor' <= MaxName
    BY <2>1, NameType
  <2>3. cursor \in Nat
    BY <1>2, NameType
  <2>4. QED
    BY <2>1, <2>2, <2>3, NameType
<1>5. /\ array' \in Seq(Name) /\ Increasing(array')
      /\ Names(array') = Names(array) \cup Names(p)
  BY <1>1, <1>2, <1>3, <1>4, Joined
<1>6. ASSUME NEW n \in Names(array') PROVE n <= cursor' /\ n \in ever
  <2>1. CASE n \in Names(array)
    <3>1. n \in Nat
      BY <1>2, <2>1, NameType DEF ListInv
    <3>2. QED
      BY <1>2, <1>4, <2>1, <3>1
  <2>2. CASE n \in Names(p)
    BY <1>1, <1>2, <1>3, <2>2
  <2>3. QED
    BY <1>5, <2>1, <2>2
<1>7. ASSUME NEW n \in always, n <= cursor' PROVE n \in Names(array')
  <2>1. n \in files /\ n \in Nat
    BY <1>2, NameType
  <2>2. CASE n <= cursor
    BY <1>2, <1>5, <2>2
  <2>3. CASE n > cursor
    BY <1>1, <1>3, <1>5, <1>7, <2>1, <2>3
  <2>4. n <= cursor \/ n > cursor
    BY <1>4, <2>1
  <2>5. QED
    BY <2>2, <2>3, <2>4
<1>8. QED
  BY <1>1, <1>4, <1>5, <1>6, <1>7 DEF ListInv

LEMMA LastPageList ==
  ASSUME ListInv, LastPage
  PROVE  ListInv'
<1> DEFINE p == Page(cursor)
           names == array \o p
<1>1. /\ pc = "page" /\ ~ HasNextLink(cursor) /\ Return("ok")
      /\ UNCHANGED <<op, files, always, ever>>
      /\ \/ reported' = names /\ ended' = TRUE
         \/ /\ \E k \in 1..Len(names) : reported' = SubSeq(names, 1, k)
            /\ ended' = FALSE
  BY DEF LastPage, PageRequest, drive
<1>2. /\ files \in SUBSET Name /\ cursor \in 0..MaxName /\ array \in Seq(Name)
      /\ always \subseteq files /\ files \subseteq ever /\ Increasing(array)
      /\ \A n \in Names(array) : n <= cursor /\ n \in ever
      /\ \A n \in always : n <= cursor => n \in Names(array)
      /\ always \in SUBSET Name /\ ever \in SUBSET Name
  BY <1>1 DEF ListInv
<1>3. /\ p \in Seq(Name) /\ Increasing(p)
      /\ \A n \in Names(p) : n \in files /\ n > cursor
      /\ Names(p) = {n \in files : n > cursor}
  BY <1>1, <1>2, PageIs
<1> HIDE DEF p
<1>4. cursor \in Nat
  BY <1>2, NameType
<1>5. names \in Seq(Name) /\ Increasing(names) /\ Names(names) = Names(array) \cup Names(p)
  BY <1>2, <1>3, <1>4, Joined
<1> HIDE DEF names
<1>6. Names(names) \subseteq ever
  BY <1>2, <1>3, <1>5
<1>7. always \subseteq Names(names)
  <2> SUFFICES ASSUME NEW n \in always PROVE n \in Names(names)
    OBVIOUS
  <2>1. n \in files /\ n \in Nat
    BY <1>2, NameType
  <2>2. n <= cursor \/ n > cursor
    BY <1>4, <2>1
  <2>3. QED
    BY <1>2, <1>3, <1>5, <2>1, <2>2
<1>8. /\ reported' \in Seq(Name) /\ Increasing(reported')
      /\ Names(reported') \subseteq ever /\ ended' \in BOOLEAN
      /\ ended' => always \subseteq Names(reported')
  <2>1. CASE reported' = names /\ ended' = TRUE
    BY <1>5, <1>6, <1>7, <2>1
  <2>2. CASE (\E k \in 1..Len(names) : reported' = SubSeq(names, 1, k)) /\ ended' = FALSE
    <3>1. PICK k \in 1..Len(names) : reported' = SubSeq(names, 1, k)
      BY <2>2
    <3>2. k \in 0..Len(names)
      BY <1>5
    <3>3. QED
      BY <1>5, <1>6, <2>2, <3>1, <3>2, Beginning
  <2>3. QED
    BY <1>1, <2>1, <2>2
<1>9. pc' = "idle" /\ array' = <<>> /\ cursor' = 0
  BY <1>1 DEF Return
<1>10. 0 \in 0..MaxName /\ \A n \in always' : ~ (n <= 0)
  BY <1>1, <1>2, NameType
<1>11. QED
  BY <1>1, <1>2, <1>8, <1>9, <1>10, NothingListed DEF ListInv

LEMMA CallList ==
  ASSUME ListInv, Call
  PROVE  ListInv'
<1>1. /\ pc = "idle" /\ pc' = "check" /\ reported' = <<>> /\ ended' = FALSE
      /\ always' = files /\ ever' = files
      /\ UNCHANGED <<files, array, cursor>>
  BY DEF Call, drive, listing
<1>2. array' = <<>> /\ cursor' = 0
  BY <1>1 DEF ListInv
<1>3. 0 \in 0..MaxName /\ \A n \in files : ~ (n <= 0)
  BY NameType DEF ListInv
<1>4. QED
  BY <1>1, <1>2, <1>3, NothingListed DEF ListInv

-----------------------------------------------------------------------------
(* The rest of the state: the drive's folder, the token, where the         *)
(* operation is and what it sent and returned.                             *)

Result == {"none", "ok", "failed", "try_again", "too_small", "died"}
Request == [host : {"none", "graph", "session", "download"}, hdr : SUBSET HeaderName]

RestInv ==
    /\ folder \in BOOLEAN /\ version \in 0..MaxVersion
    /\ expired \in BOOLEAN /\ refused \in BOOLEAN
    /\ pc \in Pc /\ result \in Result
    /\ op \in {"none"} \cup DOMAIN FirstRequest
    /\ pc # "idle" => op \in DOMAIN FirstRequest
    /\ name \in Name
    /\ sent \in Request

LEMMA Operations ==
  /\ DOMAIN FirstRequest = {"list", "put_small", "put_large", "length", "download", "delete"}
  /\ \A o \in DOMAIN FirstRequest : FirstRequest[o] \in Pc \ {"idle"}
  BY DEF FirstRequest, Pc

LEMMA SendType ==
  ASSUME NEW host \in {"graph", "session", "download"}, NEW h \in SUBSET HeaderName,
         Send(host, h)
  PROVE  sent' \in Request
  BY DEF Send, Request

LEMMA ReturnType ==
  ASSUME NEW r \in Result, Return(r)
  PROVE  pc' = "idle" /\ pc' \in Pc /\ result' \in Result
  BY DEF Return, Pc

(* A step that leaves the drive's folder and the operation's name alone,   *)
(* or takes those of a write.                                              *)
LEMMA RestFollows ==
  ASSUME RestInv, UNCHANGED <<op, name>>,
         folder' \in BOOLEAN, version' \in 0..MaxVersion,
         expired' \in BOOLEAN, refused' \in BOOLEAN,
         pc' \in Pc, pc' # "idle" => pc # "idle", result' \in Result, sent' \in Request
  PROVE  RestInv'
  BY DEF RestInv

LEMMA FailuresType ==
  ASSUME NEW b \in BOOLEAN
  PROVE  Failures(b) \subseteq Result
  BY DEF Failures, Result

(* What a failed Graph request leaves.                                     *)
LEMMA GraphFailsRest ==
  ASSUME RestInv, NEW h \in SUBSET HeaderName, NEW b \in BOOLEAN, GraphFails(h, Failures(b))
  PROVE  /\ expired' \in BOOLEAN /\ refused' \in BOOLEAN
         /\ pc' \in Pc /\ pc' = "idle" /\ result' \in Result /\ sent' \in Request
         /\ \E r \in Result : Return(r)
<1>1. expired \in BOOLEAN /\ refused \in BOOLEAN
  BY DEF RestInv
<1>2. CASE Unauthorized(h)
  <2>1. Send("graph", h) /\ Return("try_again") /\ expired' = TRUE /\ refused' = refused
    BY <1>2 DEF Unauthorized
  <2>2. "try_again" \in Result
    BY DEF Result
  <2>3. QED
    BY <1>1, <2>1, <2>2, SendType, ReturnType
<1>3. CASE Send("graph", h) /\ (\E r \in Failures(b) : Return(r)) /\ UNCHANGED token
  <2>1. PICK r \in Failures(b) : Return(r)
    BY <1>3
  <2>2. r \in Result
    BY <2>1, FailuresType
  <2>3. expired' = expired /\ refused' = refused
    BY <1>3 DEF token
  <2>4. QED
    BY <1>1, <1>3, <2>1, <2>2, <2>3, SendType, ReturnType
<1>4. QED
  BY <1>2, <1>3 DEF GraphFails

LEMMA Headers ==
  /\ Bearer \in SUBSET HeaderName
  /\ Bearer \cup {"Content-Type"} \in SUBSET HeaderName
  /\ {"Content-Range"} \in SUBSET HeaderName /\ {} \in SUBSET HeaderName
  BY DEF Bearer, HeaderName

LEMMA InitRest ==
  ASSUME Init
  PROVE  RestInv
<1>1. 0 \in 0..MaxVersion /\ 1 \in Name
  BY VersionAssumption, SizeAssumption DEF Name
<1>2. sent \in Request
  BY DEF Init, Request
<1>3. "idle" \in Pc /\ "none" \in Result
  BY DEF Pc, Result
<1>4. QED
  BY <1>1, <1>2, <1>3 DEF Init, RestInv

LEMMA CallRest ==
  ASSUME RestInv, Call
  PROVE  RestInv'
<1>1. "check" \in Pc /\ "none" \in Result
  BY DEF Pc, Result
<1>2. /\ pc' = "check" /\ op' \in DOMAIN FirstRequest /\ name' \in Name /\ result' = "none"
      /\ UNCHANGED <<folder, version, expired, refused, sent>>
  BY DEF Call, drive, token
<1>3. QED
  BY <1>1, <1>2 DEF RestInv

LEMMA CheckExpireRest ==
  ASSUME RestInv, CheckExpire
  PROVE  RestInv'
<1>1. /\ pc = "check" /\ UNCHANGED <<op, name, folder, version, sent>>
      /\ folder \in BOOLEAN /\ version \in 0..MaxVersion /\ sent \in Request
      /\ expired \in BOOLEAN /\ refused \in BOOLEAN /\ result \in Result
      /\ op \in DOMAIN FirstRequest
  BY DEF CheckExpire, RestInv, drive
<1>2. CASE expired' = FALSE /\ refused' = (refused /\ ~expired) /\ pc' = FirstRequest[op]
           /\ result' = result
  <2>1. pc' \in Pc
    BY <1>1, <1>2, Operations
  <2>2. expired' \in BOOLEAN /\ refused' \in BOOLEAN
    BY <1>2
  <2>3. QED
    BY <1>1, <1>2, <2>1, <2>2, RestFollows
<1>3. CASE Return("failed") /\ expired' \in {expired, FALSE}
           /\ refused' = (refused /\ expired' = expired)
  <2>1. expired' \in BOOLEAN /\ refused' \in BOOLEAN
    BY <1>1, <1>3
  <2>2. "failed" \in Result
    BY DEF Result
  <2>3. QED
    BY <1>1, <1>3, <2>1, <2>2, ReturnType, RestFollows
<1>4. QED
  BY <1>2, <1>3 DEF CheckExpire

(* What a step may leave of the drive.                                     *)
DriveType ==
    /\ files \in SUBSET Name /\ always \in SUBSET Name /\ ever \in SUBSET Name
    /\ folder \in BOOLEAN /\ version \in 0..MaxVersion

TokenType == expired \in BOOLEAN /\ refused \in BOOLEAN

LEMMA DriveAndToken ==
  ASSUME ListInv, RestInv
  PROVE  /\ DriveType /\ TokenType
         /\ Unchanged => DriveType'
         /\ UNCHANGED token => TokenType'
  BY DEF ListInv, RestInv, DriveType, TokenType, Unchanged, drive, token

LEMMA Counted ==
  ASSUME RestInv, version < MaxVersion
  PROVE  version + 1 \in 0..MaxVersion
  BY VersionAssumption DEF RestInv

LEMMA StoreType ==
  ASSUME ListInv, RestInv, Store \/ Remove
  PROVE  DriveType'
<1>1. /\ files \in SUBSET Name /\ always \in SUBSET Name /\ ever \in SUBSET Name
      /\ name \in Name /\ folder \in BOOLEAN
  BY DEF ListInv, RestInv
<1>2. version' \in 0..MaxVersion
  BY Counted DEF Store, Remove
<1>3. folder' \in BOOLEAN
  BY <1>1 DEF Store, Remove
<1>4. files' \in SUBSET Name
  BY <1>1 DEF Store, Remove
<1>5. always' \in SUBSET Name /\ ever' \in SUBSET Name
  BY <1>1, <1>4 DEF Store, Remove, Observed
<1>6. QED
  BY <1>2, <1>3, <1>4, <1>5 DEF DriveType

(* The two ways a request of an operation without a page ends.             *)
LEMMA ReturnKeeps ==
  ASSUME ListInv, RestInv, pc # "idle", NEW r \in Result, Return(r),
         UNCHANGED <<op, name, reported, ended>>,
         DriveType', TokenType', sent' \in Request
  PROVE  ListInv' /\ RestInv'
<1>1. ListInv'
  BY ReturnList DEF DriveType
<1>2. RestInv'
  BY ReturnType, RestFollows DEF DriveType, TokenType
<1>3. QED
  BY <1>1, <1>2

LEMMA GoesOnKeeps ==
  ASSUME ListInv, RestInv, pc \notin {"idle", "page"}, pc' \in Pc, pc' # "idle",
         UNCHANGED <<array, cursor, op, name, reported, ended, result, files, always, ever>>,
         DriveType', TokenType', sent' \in Request
  PROVE  ListInv' /\ RestInv'
<1>1. ListInv'
  BY ListKept DEF DriveType
<1>2. result' \in Result
  BY DEF RestInv
<1>3. RestInv'
  BY <1>2, RestFollows DEF DriveType, TokenType
<1>4. QED
  BY <1>1, <1>3

LEMMA GraphFailsKeeps ==
  ASSUME ListInv, RestInv, pc # "idle", NEW h \in SUBSET HeaderName, NEW b \in BOOLEAN,
         GraphFails(h, Failures(b)),
         UNCHANGED <<op, name, reported, ended>>, DriveType'
  PROVE  ListInv' /\ RestInv'
<1>1. TokenType' /\ sent' \in Request /\ \E r \in Result : Return(r)
  BY GraphFailsRest DEF TokenType
<1>2. QED
  BY <1>1, ReturnKeeps

(* A request of a write, answered or not.                                  *)
LEMMA WriteKeeps ==
  ASSUME ListInv, RestInv, pc # "idle", Return("ok") \/ Return("failed"),
         UNCHANGED <<token, op, name, reported, ended>>, DriveType', sent' \in Request
  PROVE  ListInv' /\ RestInv'
<1>1. "ok" \in Result /\ "failed" \in Result
  BY DEF Result
<1>2. TokenType'
  BY DriveAndToken
<1>3. QED
  BY <1>1, <1>2, ReturnKeeps

LEMMA CheckExpireKeeps ==
  ASSUME ListInv, RestInv, CheckExpire
  PROVE  ListInv' /\ RestInv'
<1>1. RestInv'
  BY CheckExpireRest
<1>2. /\ pc = "check" /\ op \in DOMAIN FirstRequest
      /\ UNCHANGED <<op, reported, ended, files, always, ever>>
  BY DEF CheckExpire, drive, RestInv
<1>3. files' \in SUBSET Name /\ always' \in SUBSET Name /\ ever' \in SUBSET Name
  BY <1>2 DEF ListInv
<1>4. CASE Return("failed")
  BY <1>1, <1>2, <1>3, <1>4, ReturnList
<1>5. CASE pc' = FirstRequest[op] /\ UNCHANGED listing
  <2>1. pc' # "idle"
    BY <1>2, <1>5, Operations
  <2>2. UNCHANGED <<array, cursor>>
    BY <1>5 DEF listing
  <2>3. QED
    BY <1>1, <1>2, <1>3, <2>1, <2>2, ListKept
<1>6. QED
  BY <1>4, <1>5 DEF CheckExpire

LEMMA PageFailsKeeps ==
  ASSUME ListInv, RestInv, PageFails
  PROVE  ListInv' /\ RestInv'
<1>1. pc # "idle" /\ GraphFails(Bearer, Failures(TRUE)) /\ Unchanged
      /\ UNCHANGED <<op, name, reported, ended>>
  BY DEF PageFails, PageRequest, Unchanged
<1>2. DriveType' /\ Bearer \in SUBSET HeaderName /\ TRUE \in BOOLEAN
  BY <1>1, DriveAndToken, Headers
<1>3. QED
  BY <1>1, <1>2, GraphFailsKeeps

LEMMA PageFollowsKeeps ==
  ASSUME ListInv, RestInv, PageFollows
  PROVE  ListInv' /\ RestInv'
<1>1. Send("graph", Bearer) /\ UNCHANGED <<pc, op, name, token, result, folder, version>>
  BY DEF PageFollows, drive, outcome
<1>2. sent' \in Request
  BY <1>1, Headers, SendType
<1>3. UNCHANGED <<expired, refused>>
  BY <1>1 DEF token
<1>4. RestInv'
  BY <1>1, <1>2, <1>3 DEF RestInv
<1>5. QED
  BY <1>4, PageFollowsList

LEMMA LastPageKeeps ==
  ASSUME ListInv, RestInv, LastPage
  PROVE  ListInv' /\ RestInv'
<1>1. /\ Send("graph", Bearer) /\ Return("ok")
      /\ UNCHANGED <<op, name, token, folder, version>>
  BY DEF LastPage, drive
<1>2. sent' \in Request /\ "ok" \in Result
  BY <1>1, Headers, SendType DEF Result
<1>3. UNCHANGED <<expired, refused>>
  BY <1>1 DEF token
<1>4. pc' = "idle" /\ pc' \in Pc /\ result' \in Result
  BY <1>1, <1>2, ReturnType
<1>5. RestInv'
  BY <1>1, <1>2, <1>3, <1>4 DEF RestInv
<1>6. QED
  BY <1>5, LastPageList

LEMMA UploadFileKeeps ==
  ASSUME ListInv, RestInv, UploadFile
  PROVE  ListInv' /\ RestInv'
<1>1. pc # "idle" /\ UNCHANGED <<op, name, reported, ended>>
  BY DEF UploadFile
<1>2. CASE GraphFails(Bearer, Failures(FALSE)) /\ Unchanged
  BY <1>1, <1>2, Headers, DriveAndToken, GraphFailsKeeps
<1>3. CASE Store /\ Send("graph", Bearer) /\ (Return("ok") \/ Return("failed"))
           /\ UNCHANGED token
  <2>1. DriveType' /\ sent' \in Request
    BY <1>3, StoreType, Headers, SendType
  <2>2. QED
    BY <1>1, <1>3, <2>1, WriteKeeps
<1>4. QED
  BY <1>2, <1>3 DEF UploadFile

LEMMA CreateFolderKeeps ==
  ASSUME ListInv, RestInv, CreateFolder
  PROVE  ListInv' /\ RestInv'
<1> DEFINE h == Bearer \cup {"Content-Type"}
<1>1. /\ pc = "folder"
      /\ UNCHANGED <<op, name, reported, ended, files, version, always, ever>>
      /\ folder' = folder \/ folder' = TRUE
  BY DEF CreateFolder
<1>2. DriveType'
  BY <1>1, DriveAndToken DEF DriveType
<1>3. CASE GraphFails(h, Failures(FALSE))
  BY <1>1, <1>2, <1>3, Headers, GraphFailsKeeps
<1>4. CASE Send("graph", h) /\ UNCHANGED token
           /\ \/ pc' = "session" /\ UNCHANGED <<result, array, cursor>>
              \/ Return("failed")
  <2>1. sent' \in Request
    BY <1>4, Headers, SendType
  <2>2. CASE Return("failed")
    BY <1>1, <1>2, <1>4, <2>1, <2>2, WriteKeeps
  <2>3. CASE pc' = "session" /\ UNCHANGED <<result, array, cursor>>
    <3>1. TokenType' /\ pc' \in Pc
      BY <1>4, <2>3, DriveAndToken DEF Pc
    <3>2. QED
      BY <1>1, <1>2, <2>1, <2>3, <3>1, GoesOnKeeps
  <2>4. QED
    BY <1>4, <2>2, <2>3
<1>5. QED
  BY <1>3, <1>4 DEF CreateFolder

LEMMA CreateUploadSessionKeeps ==
  ASSUME IInv, ListInv, RestInv, CreateUploadSession
  PROVE  ListInv' /\ RestInv'
<1> DEFINE h == hdr \cup Bearer
<1>1. /\ pc = "session" /\ Unchanged /\ UNCHANGED <<op, name, reported, ended>>
      /\ UNCHANGED <<files, always, ever>>
  BY DEF CreateUploadSession, Unchanged, drive
<1>2. h \in SUBSET HeaderName
  BY Headers DEF IInv, HeaderInv
<1> HIDE DEF h
<1>3. DriveType'
  BY <1>1, DriveAndToken
<1>4. CASE GraphFails(h, Failures(TRUE))
  BY <1>1, <1>2, <1>3, <1>4, GraphFailsKeeps
<1>5. CASE Send("graph", h) /\ UNCHANGED token /\ pc' = "session_upload"
           /\ UNCHANGED <<result, array, cursor>>
  <2>1. sent' \in Request /\ TokenType' /\ pc' \in Pc
    BY <1>2, <1>5, SendType, DriveAndToken DEF Pc
  <2>2. QED
    BY <1>1, <1>3, <1>5, <2>1, GoesOnKeeps
<1>6. QED
  BY <1>4, <1>5 DEF CreateUploadSession, h

LEMMA UploadToSessionKeeps ==
  ASSUME IInv, ListInv, RestInv, UploadToSession
  PROVE  ListInv' /\ RestInv'
<1> DEFINE h == hdr \cup {"Content-Range"}
<1>1. /\ pc # "idle" /\ Send("session", h)
      /\ UNCHANGED <<token, op, name, reported, ended>>
      /\ Return("ok") \/ Return("failed")
      /\ Unchanged \/ Store
  BY DEF UploadToSession
<1>2. h \in SUBSET HeaderName
  BY Headers DEF IInv, HeaderInv
<1> HIDE DEF h
<1>3. DriveType' /\ sent' \in Request
  BY <1>1, <1>2, DriveAndToken, StoreType, SendType
<1>4. QED
  BY <1>1, <1>3, WriteKeeps

LEMMA GetFileInfoKeeps ==
  ASSUME ListInv, RestInv, GetFileInfo
  PROVE  ListInv' /\ RestInv'
<1>1. /\ pc = "info" /\ Unchanged /\ UNCHANGED <<op, name, reported, ended>>
      /\ UNCHANGED <<files, always, ever>>
  BY DEF GetFileInfo, Unchanged, drive
<1>2. DriveType'
  BY <1>1, DriveAndToken
<1>3. CASE GraphFails(Bearer, Failures(TRUE))
  BY <1>1, <1>2, <1>3, Headers, GraphFailsKeeps
<1>4. CASE Send("graph", Bearer) /\ UNCHANGED token
           /\ \/ pc' = "download" /\ UNCHANGED <<result, array, cursor>>
              \/ Return("ok") \/ Return("too_small")
  <2>1. sent' \in Request /\ TokenType'
    BY <1>4, Headers, SendType, DriveAndToken
  <2>2. CASE Return("ok") \/ Return("too_small")
    <3>1. "ok" \in Result /\ "too_small" \in Result
      BY DEF Result
    <3>2. QED
      BY <1>1, <1>2, <2>1, <2>2, <3>1, ReturnKeeps
  <2>3. CASE pc' = "download" /\ UNCHANGED <<result, array, cursor>>
    <3>1. pc' \in Pc
      BY <2>3 DEF Pc
    <3>2. QED
      BY <1>1, <1>2, <2>1, <2>3, <3>1, GoesOnKeeps
  <2>4. QED
    BY <1>4, <2>2, <2>3
<1>5. QED
  BY <1>3, <1>4 DEF GetFileInfo

LEMMA DownloadFileKeeps ==
  ASSUME IInv, ListInv, RestInv, DownloadFile
  PROVE  ListInv' /\ RestInv'
<1>1. /\ pc # "idle" /\ Send("download", hdr) /\ Unchanged
      /\ UNCHANGED <<token, op, name, reported, ended>>
      /\ Return("ok") \/ Return("failed")
  BY DEF DownloadFile
<1>2. hdr \in SUBSET HeaderName
  BY Headers DEF IInv, HeaderInv
<1>3. DriveType' /\ sent' \in Request
  BY <1>1, <1>2, DriveAndToken, SendType
<1>4. QED
  BY <1>1, <1>3, WriteKeeps

LEMMA DeleteFileKeeps ==
  ASSUME ListInv, RestInv, DeleteFile
  PROVE  ListInv' /\ RestInv'
<1>1. pc # "idle" /\ UNCHANGED <<op, name, reported, ended>>
  BY DEF DeleteFile
<1>2. CASE GraphFails(Bearer, Failures(FALSE)) /\ Unchanged
  BY <1>1, <1>2, Headers, DriveAndToken, GraphFailsKeeps
<1>3. CASE Remove /\ Send("graph", Bearer) /\ (Return("ok") \/ Return("failed"))
           /\ UNCHANGED token
  <2>1. DriveType' /\ sent' \in Request
    BY <1>3, StoreType, Headers, SendType
  <2>2. QED
    BY <1>1, <1>3, <2>1, WriteKeeps
<1>4. QED
  BY <1>2, <1>3 DEF DeleteFile

(* Other clients change the drive while a call runs, and after it.         *)
LEMMA EnvironmentKeeps ==
  ASSUME ListInv, RestInv, OtherClient \/ Lapse \/ Revoke \/ UNCHANGED vars
  PROVE  ListInv' /\ RestInv'
<1>1. /\ UNCHANGED <<pc, op, name, sent, listing, outcome>>
      /\ OtherClient \/ UNCHANGED <<drive, always, ever>>
  BY DEF OtherClient, Lapse, Revoke, vars
<1>2. UNCHANGED <<array, cursor, reported, ended, result>>
  BY <1>1 DEF listing, outcome
<1>3. TokenType'
  <2>1. expired \in BOOLEAN /\ refused \in BOOLEAN
    BY DEF RestInv
  <2>2. expired' \in BOOLEAN /\ refused' \in BOOLEAN
    BY <2>1 DEF OtherClient, Lapse, Revoke, vars, token
  <2>3. QED
    BY <2>2 DEF TokenType
<1>4. DriveType'
  <2>1. CASE UNCHANGED <<drive, always, ever>>
    BY <2>1, DriveAndToken DEF DriveType, drive
  <2>2. CASE OtherClient
    <3>1. version' \in 0..MaxVersion
      BY <2>2, Counted DEF OtherClient
    <3>2. files \in SUBSET Name /\ always \in SUBSET Name /\ ever \in SUBSET Name
          /\ folder \in BOOLEAN
      BY DEF ListInv, RestInv
    <3>3. files' \in SUBSET Name
      BY <2>2, <3>2 DEF OtherClient
    <3>4. folder' \in BOOLEAN
      BY <2>2, <3>2 DEF OtherClient
    <3>5. always' \in SUBSET Name /\ ever' \in SUBSET Name
      BY <2>2, <3>2, <3>3 DEF OtherClient, Observed
    <3>6. QED
      BY <3>1, <3>3, <3>4, <3>5 DEF DriveType
  <2>3. QED
    BY <1>1, <2>1, <2>2
<1>5. UNCHANGED <<files, always, ever>> \/ Observed
  BY <1>1 DEF OtherClient, drive
<1>6. ListInv'
  BY <1>1, <1>2, <1>4, <1>5, ListKept DEF DriveType
<1>7. RestInv'
  BY <1>1, <1>2, <1>3, <1>4 DEF RestInv, DriveType, TokenType
<1>8. QED
  BY <1>6, <1>7

(* The observer of the pages is a truth value: PageInv says it is not      *)
(* true.                                                                   *)
LEMMA FaultType ==
  ASSUME memfault \in BOOLEAN, [Next]_vars
  PROVE  memfault' \in BOOLEAN
<1>1. CASE PageFails \/ PageFollows \/ LastPage
  BY <1>1 DEF PageFails, PageFollows, LastPage, PageRequest
<1>2. CASE Call \/ OtherClient \/ Lapse \/ Revoke \/ UNCHANGED vars
  BY <1>2 DEF Call, OtherClient, Lapse, Revoke, vars, listing
<1>3. CASE CheckExpire
  BY <1>3 DEF CheckExpire, listing
<1>4. CASE \/ UploadFile \/ CreateFolder \/ CreateUploadSession \/ UploadToSession
           \/ GetFileInfo \/ DownloadFile \/ DeleteFile
  BY <1>4 DEF UploadFile, CreateFolder, CreateUploadSession, UploadToSession,
     GetFileInfo, DownloadFile, DeleteFile
<1>5. QED
  BY <1>1, <1>2, <1>3, <1>4 DEF Next, Step

FullInv == IInv /\ ListInv /\ RestInv /\ memfault \in BOOLEAN

(* The listing and the types together, on every step of the connection     *)
(* and of what surrounds it.                                               *)
THEOREM FullInvariant == Spec => []FullInv
<1>1. Init => FullInv
  <2>1. Init => memfault \in BOOLEAN
    BY DEF Init
  <2>2. QED
    BY <2>1, InitInv, ListInit, InitRest DEF FullInv
<1>2. FullInv /\ [Next]_vars /\ IInv' => FullInv'
  <2> SUFFICES ASSUME IInv, ListInv, RestInv, [Next]_vars
               PROVE  ListInv' /\ RestInv'
    BY FaultType DEF FullInv
  <2>1. CASE Call
    BY <2>1, CallList, CallRest
  <2>2. CASE CheckExpire
    BY <2>2, CheckExpireKeeps
  <2>3. CASE PageFails \/ PageFollows \/ LastPage
    BY <2>3, PageFailsKeeps, PageFollowsKeeps, LastPageKeeps
  <2>4. CASE UploadFile \/ CreateFolder \/ CreateUploadSession \/ UploadToSession
    BY <2>4, UploadFileKeeps, CreateFolderKeeps, CreateUploadSessionKeeps, UploadToSessionKeeps
  <2>5. CASE GetFileInfo \/ DownloadFile \/ DeleteFile
    BY <2>5, GetFileInfoKeeps, DownloadFileKeeps, DeleteFileKeeps
  <2>6. CASE OtherClient \/ Lapse \/ Revoke \/ UNCHANGED vars
    BY <2>6, EnvironmentKeeps
  <2>7. QED
    BY <2>1, <2>2, <2>3, <2>4, <2>5, <2>6 DEF Next, Step
<1>3. QED
  BY Invariant, <1>1, <1>2, PTL DEF Spec

(* An increasing list names nothing twice.                                 *)
LEMMA NoneTwice ==
  ASSUME NEW s \in Seq(Name), Increasing(s)
  PROVE  Cardinality(Names(s)) = Len(s)
<1> DEFINE N == Len(s)
<1>1. N \in Nat /\ \A i \in 1..N : s[i] \in Name
  OBVIOUS
<1>2. \A i \in 1..N : s[i] \in Nat
  BY <1>1, NameType
<1>3. IsFiniteSet(1..N) /\ Cardinality(1..N) = N
  <2>1. N \in Nat /\ 1 \in Int /\ N \in Int
    BY <1>1
  <2> HIDE DEF N
  <2>2. IsFiniteSet(1..N)
    BY <2>1, FS_Interval
  <2>3. Cardinality(1..N) = IF 1 > N THEN 0 ELSE N - 1 + 1
    BY <2>1, FS_Interval
  <2>4. QED
    BY <2>1, <2>2, <2>3
<1>4. ASSUME NEW i \in 1..N, NEW j \in 1..N, s[i] = s[j] PROVE i = j
  <2>1. ~ (i < j) /\ ~ (j < i)
    BY <1>2, <1>4 DEF Increasing
  <2>2. QED
    BY <1>1, <2>1
<1> DEFINE f == [i \in 1..N |-> s[i]]
<1>5. f \in Surjection(1..N, Names(s))
  BY DEF Surjection, Names
<1>6. f \in Injection(1..N, Names(s))
  <2>1. f \in [1..N -> Names(s)]
    BY DEF Names
  <2>2. \A i, j \in 1..N : f[i] = f[j] => i = j
    BY <1>4
  <2>3. DOMAIN f = 1..N
    OBVIOUS
  <2> HIDE DEF f
  <2>4. QED
    BY <2>1, <2>2, <2>3 DEF Injection, IsInjective
<1>7. f \in Bijection(1..N, Names(s))
  BY <1>5, <1>6 DEF Bijection
<1>8. ExistsBijection(1..N, Names(s))
  BY <1>7 DEF ExistsBijection
<1> HIDE DEF N, f
<1>9. Cardinality(1..N) = Cardinality(Names(s))
  BY <1>3, <1>8, FS_Bijection
<1>10. QED
  BY <1>3, <1>9 DEF N

(* A listing whose pages were fetched while other clients changed the      *)
(* folder reports no name twice and none that was never there, and when it *)
(* runs to its end every name that was there all the time.                 *)
THEOREM ListingsAreSound == Spec => []ListingSound
<1>1. FullInv => ListingSound
  <2> SUFFICES ASSUME ListInv PROVE ListingSound
    BY DEF FullInv
  <2>1. reported \in Seq(Name) /\ Increasing(reported)
    BY DEF ListInv
  <2>2. Reported = Names(reported)
    BY <2>1 DEF Reported, Names
  <2>3. Cardinality(Names(reported)) = Len(reported)
    BY <2>1, NoneTwice
  <2>4. QED
    BY <2>2, <2>3 DEF ListingSound, ListInv
<1>2. QED
  BY FullInvariant, <1>1, PTL

(* The loop of list_files cannot ask for one page for ever: a page that is *)
(* followed moves the link beyond the names sent so far, of which there    *)
(* are at most MaxName.                                                    *)
THEOREM ListingsAdvance ==
  Spec => [][PageFollows => cursor' > cursor /\ cursor' \in 0..MaxName]_vars
<1>1. FullInv /\ FullInv' /\ [Next]_vars
        => [PageFollows => cursor' > cursor /\ cursor' \in 0..MaxName]_vars
  <2> SUFFICES ASSUME ListInv, ListInv', PageFollows
               PROVE  cursor' > cursor /\ cursor' \in 0..MaxName
    BY DEF FullInv
  <2>1. HasNextLink(cursor) /\ cursor' = Page(cursor)[PageSize]
    BY DEF PageFollows
  <2>2. files \in SUBSET Name /\ cursor \in 0..MaxName /\ cursor' \in 0..MaxName
    BY DEF ListInv
  <2>3. QED
    BY <2>1, <2>2, PageIs
<1>2. QED
  BY FullInvariant, <1>1, PTL DEF Spec

(* What the drive has done for the call, on every step.                    *)
THEOREM EffectInvariant == Spec => []EffectInv
<1>1. Init => EffectInv
  BY DEF Init, EffectInv, EffectKnown
<1>2. FullInv /\ [Next]_vars /\ EffectInv => EffectInv'
  <2> SUFFICES ASSUME RestInv, [Next]_vars, EffectInv PROVE EffectInv'
    BY DEF FullInv
  <2>1. CASE Call
    BY <2>1 DEF Call, EffectInv, EffectKnown
  <2>2. CASE Step
    <3>1. /\ op \in {"none"} \cup DOMAIN FirstRequest
          /\ pc = "check" => op \in DOMAIN FirstRequest
      BY DEF RestInv
    <3>2. QED
      BY <2>2, <3>1, StepEffect
  <2>3. CASE OtherClient \/ Lapse \/ Revoke \/ UNCHANGED vars
    <3>1. UNCHANGED <<pc, op, effect, result>>
      BY <2>3 DEF OtherClient, Lapse, Revoke, vars, outcome
    <3>2. QED
      BY <3>1 DEF EffectInv, EffectKnown
  <2>4. QED
    BY <2>1, <2>2, <2>3 DEF Next
<1>3. QED
  BY FullInvariant, <1>1, <1>2, PTL DEF Spec

(* A call that returned HIVEERR_TRY_AGAIN stored and removed nothing, so   *)
(* its repetition does so once; a put or a delete that returned 0 took     *)
(* place.                                                                  *)
THEOREM EffectIsKnown == Spec => []EffectKnown
<1>1. EffectInv => EffectKnown
  BY DEF EffectInv
<1>2. QED
  BY EffectInvariant, <1>1, PTL

(* Every variable of a connection keeps its type; the page list_files      *)
(* holds is the only one alive, and next_url points to the url array or    *)
(* into it.                                                                *)
THEOREM TypeCorrect == Spec => []TypeOK
<1>1. FullInv /\ EffectInv => TypeOK
  <2> SUFFICES ASSUME IInv, ListInv, RestInv, memfault \in BOOLEAN, effect \in BOOLEAN
               PROVE  TypeOK
    BY DEF FullInv, EffectInv
  <2>1. /\ hdr \in SUBSET HeaderName /\ json \in 0..2 /\ next \in 0..2
        /\ live \in SUBSET (1..2)
        /\ live = {json} \ {0} /\ next \in {0, json}
    BY DEF IInv, PageInv, HeaderInv
  <2>2. /\ files \in SUBSET Name /\ always \in SUBSET Name /\ ever \in SUBSET Name
        /\ array \in Seq(Name) /\ reported \in Seq(Name) /\ cursor \in 0..MaxName
        /\ ended \in BOOLEAN
    BY DEF ListInv
  <2>3. RestInv
    OBVIOUS
  <2>4. QED
    BY <2>1, <2>2, <2>3 DEF TypeOK, RestInv, Result, Request
<1>2. QED
  BY FullInvariant, EffectInvariant, <1>1, PTL
=============================================================================
