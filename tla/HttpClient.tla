----------------------------- MODULE HttpClient -----------------------------
(***************************************************************************)
(* One http_client_t of http/http_client.c: the request that is assembled  *)
(* on it and the buffer its response is collected in.  The same handle     *)
(* serves the several requests of a longer operation (an upload session,   *)
(* the pages of a listing), with http_client_reset in between, so what one *)
(* request leaves behind could reach the next one.                         *)
(*                                                                         *)
(* Sizes are unsigned words: every sum and shift is taken modulo Word.     *)
(* libcurl is external, in the version deps/curl/CMakeLists.txt pins: it   *)
(* takes the options of the handle, sends one request and calls the write  *)
(* callback once per chunk that arrives.                                   *)
(***************************************************************************)
EXTENDS Naturals, Sequences

CONSTANTS
    Url,        \* URLs
    NoUrl,      \* no URL: the state of curl_url()
    Header,     \* headers
    Word,       \* 2 ^ (width of size_t)
    FirstSize,  \* the first allocation, 512 in the code
    MaxChunk,   \* bound: bytes libcurl hands over at once
    MaxRequest  \* bound: requests on one handle

ASSUME UrlAssumption == NoUrl \notin Url
ASSUME WordAssumption == Word \in Nat /\ FirstSize \in 1..(Word - 1)
ASSUME ChunkAssumption == MaxChunk \in 1..(Word - 1)
ASSUME RequestAssumption == MaxRequest \in Nat

VARIABLES
    pc,         \* "none", "idle", "perform" or "dead"
    url,        \* the URL of the handle
    hdr,        \* the headers appended to client->hdr
    mime,       \* TRUE when client->mime has a part
    post,       \* TRUE when the handle has a request body of the caller
    writer,     \* the write callback: eat, buffer or caller
    data,       \* response_body.data: the bytes, <<>> for NULL
    sz,         \* response_body.sz
    used,       \* response_body.used
    rc,         \* outcome of the last request
    sent,       \* observer: what that request carried
    arrived,    \* observer: the bytes of its response
    given,      \* observer: what the caller set since new or reset, and the
                \* URLs that libcurl took
    clean,      \* observer: that request is the first one since then
    overrun,    \* observer: a byte was copied past the allocation
    requests    \* requests so far

request == <<url, hdr, mime, post, writer>>
response == <<data, sz, used>>
observers == <<sent, arrived, given, clean, overrun>>
vars == <<pc, request, response, rc, observers, requests>>

Nothing == [url |-> {}, hdr |-> {}, mime |-> FALSE, post |-> FALSE]
Carried == [url |-> url, hdr |-> hdr, mime |-> mime, post |-> post]

Init ==
    /\ pc = "none"
    /\ url = NoUrl
    /\ hdr = {}
    /\ mime = FALSE
    /\ post = FALSE
    /\ writer = "eat"
    /\ data = <<>>
    /\ sz = 0
    /\ used = 0
    /\ rc = "none"
    /\ sent = Carried
    /\ arrived = <<>>
    /\ given = Nothing
    /\ clean = TRUE
    /\ overrun = FALSE
    /\ requests = 0

-----------------------------------------------------------------------------
(* The life of the handle                                                  *)

(* curl_easy_reset and the two lists                                       *)
ClearRequest ==
    /\ hdr' = {}
    /\ mime' = FALSE
    /\ post' = FALSE
    /\ writer' = "eat"
    /\ given' = Nothing
    /\ clean' = TRUE

(* http_client_new; the other outcome, NULL, leaves no handle              *)
New ==
    /\ pc = "none"
    /\ pc' = "idle"
    /\ UNCHANGED <<request, response, rc, observers, requests>>

(* http_client_close of the last reference                                 *)
Close ==
    /\ pc = "idle"
    /\ pc' = "none"
    /\ ClearRequest
    /\ url' = NoUrl
    /\ data' = <<>> /\ sz' = 0 /\ used' = 0
    /\ rc' = "none"
    /\ sent' = Carried'
    /\ arrived' = <<>>
    /\ requests' = 0
    /\ UNCHANGED overrun

(* Variant of Reset that leaves the header list to the next request.       *)
ResetKeepsHeaders ==
    /\ pc = "idle"
    /\ UNCHANGED <<url, hdr>>
    /\ mime' = FALSE
    /\ post' = FALSE
    /\ writer' = "eat"
    /\ given' = Nothing
    /\ clean' = TRUE
    /\ used' = 0
    /\ rc' = "none"
    /\ UNCHANGED <<pc, data, sz, sent, arrived, overrun, requests>>

(* Variant of Reset that forgets the response of the last request.         *)
ResetKeepsBody ==
    /\ pc = "idle"
    /\ ClearRequest
    /\ rc' = "none"
    /\ UNCHANGED <<pc, url, response, sent, arrived, overrun, requests>>

(* http_client_reset.  Its curl_url_set(CURLUPART_URL, NULL) does nothing  *)
(* in this libcurl: the old URL stays.                                     *)
Reset ==
    /\ pc = "idle"
    /\ ClearRequest
    /\ used' = 0
    /\ rc' = "none"
    /\ UNCHANGED <<pc, url, data, sz, sent, arrived, overrun, requests>>

-----------------------------------------------------------------------------
(* Assembling a request.  Callers ignore what the setters return.          *)

(* http_client_set_url: libcurl refuses the URL and keeps the one it had   *)
(* when it cannot parse it, also one from before a reset.                  *)
SetUrl ==
    /\ pc = "idle"
    /\ \E u \in Url :
          \/ url' = u /\ given' = [given EXCEPT !.url = @ \cup {u}]
          \/ UNCHANGED <<url, given>>
    /\ UNCHANGED <<pc, hdr, mime, post, writer, response, rc, sent, arrived, clean, overrun,
                   requests>>

(* http_client_set_header: out of memory leaves the list as it was.        *)
SetHeader ==
    /\ pc = "idle"
    /\ \E h \in Header :
          /\ given' = [given EXCEPT !.hdr = @ \cup {h}]
          /\ hdr' \in {hdr, hdr \cup {h}}
    /\ UNCHANGED <<pc, url, mime, post, writer, response, rc, sent, arrived, clean, overrun,
                   requests>>

(* http_client_set_mime_instant                                            *)
SetMime ==
    /\ pc = "idle"
    /\ mime' = TRUE
    /\ given' = [given EXCEPT !.mime = TRUE]
    /\ UNCHANGED <<pc, url, hdr, post, writer, response, rc, sent, arrived, clean, overrun,
                   requests>>

(* http_client_set_request_body_instant, http_client_set_request_body      *)
SetRequestBody ==
    /\ pc = "idle"
    /\ post' = TRUE
    /\ given' = [given EXCEPT !.post = TRUE]
    /\ UNCHANGED <<pc, url, hdr, mime, writer, response, rc, sent, arrived, clean, overrun,
                   requests>>

(* http_client_enable_response_body, http_client_set_response_body         *)
SetResponseBody ==
    /\ pc = "idle"
    /\ writer' \in {"buffer", "caller"}
    /\ UNCHANGED <<pc, url, hdr, mime, post, response, rc, observers, requests>>

-----------------------------------------------------------------------------
(* http_client_request                                                     *)

(* Every byte of the n-th response is n.                                   *)
Chunk(n) == [i \in 1..n |-> requests]

Request ==
    /\ pc = "idle"
    /\ requests < MaxRequest
    /\ requests' = requests + 1
    /\ pc' = "perform"
    /\ sent' = Carried
    /\ arrived' = <<>>
    /\ rc' = "none"
    /\ UNCHANGED <<request, response, given, clean, overrun>>

Finish(r) ==
    /\ pc' = "idle"
    /\ rc' = r
    /\ clean' = FALSE

(* curl_easy_perform: the response is complete, or the transfer failed;    *)
(* it fails when there is no URL.                                          *)
Complete ==
    /\ pc = "perform"
    /\ \/ url # NoUrl /\ Finish("ok")
       \/ Finish("error")
    /\ UNCHANGED <<request, response, sent, arrived, given, overrun, requests>>

(* http_response_body_write_callback: the sizes the loop tries.            *)
Doublings(s) == {t \in 1..(Word - 1) : \E k \in 0..Word :
                    t = 2 ^ k * IF s = 0 THEN FirstSize ELSE 2 * s}

(* Variant of Grown that trusts the doubling loop where it wrapped.        *)
GrownWrapped(s, length, new) ==
    LET enough == {t \in Doublings(s) : t > s + length}
    IN  IF enough = {} THEN new = 0
        ELSE new \in enough /\ \A t \in enough : new <= t

(* The first doubling beyond sz + length; sz + length itself when the      *)
(* doubling wrapped before it got there.                                   *)
Grown(s, length, new) ==
    LET enough == {t \in Doublings(s) : t > s + length}
    IN  IF enough = {} THEN new = s + length
        ELSE new \in enough /\ \A t \in enough : new <= t

(* memcpy(data + used, ptr, length) into an allocation of n bytes.         *)
Copied(n, chunk) ==
    [i \in 1..n |-> IF i \in (used + 1)..(used + Len(chunk)) THEN chunk[i - used]
                    ELSE IF i <= Len(data) THEN data[i] ELSE 0]

Collect(n, chunk) ==
    /\ overrun' = (overrun \/ used + Len(chunk) > n)
    /\ data' = Copied(n, chunk)
    /\ sz' = n
    /\ used' = used + Len(chunk)

(* A chunk for the response buffer.                                        *)
Receive ==
    /\ pc = "perform"
    /\ url # NoUrl
    /\ writer = "buffer"
    /\ \E length \in 1..MaxChunk :
          /\ \/ /\ sz - used >= length
                /\ Collect(sz, Chunk(length))
             \/ /\ sz - used < length
                /\ sz + length < Word
                /\ \E new \in 0..(Word - 1) :
                      Grown(sz, length, new) /\ Collect(new, Chunk(length))
          /\ arrived' = arrived \o Chunk(length)
    /\ UNCHANGED <<pc, request, rc, sent, given, clean, requests>>

(* The size would wrap, or realloc fails: the callback returns 0 and       *)
(* libcurl gives the transfer up.                                          *)
ReceiveFails ==
    /\ pc = "perform"
    /\ url # NoUrl
    /\ writer = "buffer"
    /\ \E length \in 1..MaxChunk : sz - used < length
    /\ used' = 0
    /\ Finish("error")
    /\ UNCHANGED <<request, data, sz, sent, arrived, given, overrun, requests>>

(* Variant of Move that keeps the size of the buffer it gave away.         *)
MoveKeepsSize ==
    /\ pc = "idle"
    /\ used > 0
    /\ data' = <<>>
    /\ used' = 0
    /\ rc' = "none"
    /\ UNCHANGED <<pc, request, sz, observers, requests>>

(* http_client_move_response_body: the caller owns the buffer from now on. *)
Move ==
    /\ pc = "idle"
    /\ used > 0
    /\ data' = <<>>
    /\ sz' = 0
    /\ used' = 0
    /\ rc' = "none"
    /\ UNCHANGED <<pc, request, observers, requests>>

(* The same with no response: every caller passes a NULL len, which is     *)
(* written through, and the process dies.                                  *)
MoveNothing ==
    /\ pc = "idle"
    /\ used = 0
    /\ rc = "ok"
    /\ pc' = "dead"
    /\ UNCHANGED <<request, response, rc, observers, requests>>

Next ==
    \/ New \/ Close \/ Reset
    \/ SetUrl \/ SetHeader \/ SetMime \/ SetRequestBody \/ SetResponseBody
    \/ Request \/ Receive \/ ReceiveFails \/ Complete \/ Move \/ MoveNothing

Spec == Init /\ [][Next]_vars

-----------------------------------------------------------------------------
(* Properties.                                                             *)

(* Types; the buffer is as large as sz says and used never exceeds it.     *)
TypeOK ==
    /\ pc \in {"none", "idle", "perform", "dead"}
    /\ url \in Url \cup {NoUrl}
    /\ hdr \in SUBSET Header
    /\ mime \in BOOLEAN
    /\ post \in BOOLEAN
    /\ writer \in {"eat", "buffer", "caller"}
    /\ sz \in 0..(Word - 1)
    /\ used \in 0..sz
    /\ data \in [1..sz -> 0..MaxRequest]
    /\ rc \in {"none", "ok", "error"}
    /\ sent \in [url : Url \cup {NoUrl}, hdr : SUBSET Header, mime : BOOLEAN, post : BOOLEAN]
    /\ given \in [url : SUBSET Url, hdr : SUBSET Header, mime : BOOLEAN, post : BOOLEAN]
    /\ clean \in BOOLEAN
    /\ overrun \in BOOLEAN
    /\ requests \in 0..MaxRequest

(* However the response is cut into chunks, and wherever the doubling      *)
(* wraps, the bytes of a chunk land inside the allocation.                 *)
NoOverrun == ~overrun

(* On a handle that was new or reset, the buffer holds exactly what has    *)
(* arrived of this request's own response: nothing of an earlier one, and  *)
(* no chunk lost or out of place when the buffer grew.                     *)
BodyIsResponse ==
    pc = "perform" /\ clean /\ writer = "buffer" => SubSeq(data, 1, used) = arrived

(* A request carries no header, no part and no body that was set before    *)
(* the last http_client_reset.  Its URL, which the reset leaves alone, is  *)
(* from before it only if libcurl took none since then.                    *)
NothingStale ==
    [][Request => /\ given.url # {} => sent'.url \in given.url
                  /\ sent'.hdr \subseteq given.hdr
                  /\ sent'.mime => given.mime
                  /\ sent'.post => given.post]_vars
=============================================================================
