-------------------------- MODULE HttpClientProofs --------------------------
(***************************************************************************)
(* Proofs about HttpClient, for any width of size_t, any first allocation, *)
(* chunks of any length and any number of requests on a handle.            *)
(***************************************************************************)
EXTENDS HttpClient, SequenceTheorems, TLAPS

-----------------------------------------------------------------------------
(* The buffer.  TypeOK is inductive: a chunk is copied behind used bytes,  *)
(* and the allocation is at least used + length whichever way the growth   *)
(* loop ended, because used never exceeds sz.                              *)

(* Whatever size Grown allows, the chunk fits behind sz bytes.             *)
LEMMA GrownIsEnough ==
  ASSUME NEW s \in Nat, NEW n \in Nat, NEW new \in Nat, Grown(s, n, new)
  PROVE  new >= s + n
<1>1. CASE {t \in Doublings(s) : t > s + n} = {}
  BY <1>1 DEF Grown
<1>2. CASE {t \in Doublings(s) : t > s + n} # {}
  <2>1. new \in {t \in Doublings(s) : t > s + n}
    BY <1>2 DEF Grown
  <2>2. QED
    BY <2>1
<1>3. QED
  BY <1>1, <1>2

(* The types of the copy into an allocation of n bytes.                    *)
LEMMA CopiedType ==
  ASSUME TypeOK, NEW n \in Nat, NEW k \in Nat
  PROVE  Copied(n, Chunk(k)) \in [1..n -> 0..MaxRequest]
<1> USE RequestAssumption DEF TypeOK
<1>1. Chunk(k) \in [1..k -> {requests}] /\ Len(Chunk(k)) = k
  BY DEF Chunk
<1>2. ASSUME NEW i \in 1..n
      PROVE (IF i \in (used + 1)..(used + Len(Chunk(k))) THEN Chunk(k)[i - used]
             ELSE IF i <= Len(data) THEN data[i] ELSE 0) \in 0..MaxRequest
  <2>1. Len(data) = sz
    BY WordAssumption
  <2>2. CASE i \in (used + 1)..(used + k)
    <3>1. i - used \in 1..k
      BY <2>2, WordAssumption
    <3>2. Chunk(k)[i - used] = requests
      BY <1>1, <3>1 DEF Chunk
    <3>3. QED
      BY <1>1, <2>2, <3>2
  <2>3. CASE i \notin (used + 1)..(used + k) /\ i <= sz
    <3>1. i \in 1..sz
      BY <2>3, WordAssumption
    <3>2. data[i] \in 0..MaxRequest
      BY <3>1
    <3>3. QED
      BY <1>1, <2>1, <2>3, <3>2
  <2>4. CASE i \notin (used + 1)..(used + k) /\ ~(i <= sz)
    BY <1>1, <2>1, <2>4
  <2>5. QED
    BY <2>2, <2>3, <2>4
<1>3. QED
  BY <1>2 DEF Copied

(* TypeOK, and nothing past the allocation is written, by a chunk.         *)
LEMMA CollectInBounds ==
  ASSUME TypeOK, ~overrun, NEW n \in 0..(Word - 1), NEW k \in Nat,
         n >= used + k, n >= sz, Collect(n, Chunk(k)),
         UNCHANGED <<pc, request, rc, sent, given, clean, requests>>
  PROVE  TypeOK' /\ ~overrun'
<1>1. Len(Chunk(k)) = k
  BY DEF Chunk
<1>2. n \in Nat /\ used \in Nat /\ sz \in Nat
  BY WordAssumption DEF TypeOK
<1>3. Copied(n, Chunk(k)) \in [1..n -> 0..MaxRequest]
  BY <1>2, CopiedType
<1>4. overrun' = FALSE
  <2>1. ~(used + Len(Chunk(k)) > n)
    BY <1>1, <1>2
  <2>2. overrun' = (overrun \/ used + Len(Chunk(k)) > n)
    BY DEF Collect
  <2>3. QED
    BY <2>1, <2>2, Zenon
<1>5. used' \in 0..sz' /\ sz' \in 0..(Word - 1)
  BY <1>1, <1>2 DEF Collect
<1>6. data' \in [1..sz' -> 0..MaxRequest]
  BY <1>3 DEF Collect
<1>7. overrun' \in BOOLEAN
  BY <1>4
<1>8. QED
  BY <1>4, <1>5, <1>6, <1>7 DEF TypeOK, request

InBounds == TypeOK /\ NoOverrun

(* The records of the observers have their types when the handle is new    *)
(* or reset.                                                               *)
Given == [url : SUBSET Url, hdr : SUBSET Header, mime : BOOLEAN, post : BOOLEAN]
Sent == [url : Url \cup {NoUrl}, hdr : SUBSET Header, mime : BOOLEAN, post : BOOLEAN]

LEMMA NothingType == Nothing \in Given
  BY DEF Nothing, Given

LEMMA CarriedType ==
  ASSUME url \in Url \cup {NoUrl}, hdr \in SUBSET Header, mime \in BOOLEAN, post \in BOOLEAN
  PROVE  Carried \in Sent
  BY DEF Carried, Sent

LEMMA ClearType ==
  ASSUME ClearRequest, url' \in Url \cup {NoUrl}
  PROVE  /\ hdr' = {} /\ mime' = FALSE /\ post' = FALSE /\ writer' = "eat"
         /\ given' \in Given /\ clean' = TRUE /\ Carried' \in Sent
<1>1. given' = Nothing
  BY DEF ClearRequest
<1>2. Carried' = [url |-> url', hdr |-> {}, mime |-> FALSE, post |-> FALSE]
  BY DEF Carried, ClearRequest
<1>3. Carried' \in Sent
  BY <1>2 DEF Sent
<1>4. QED
  BY <1>1, <1>3, NothingType DEF ClearRequest

LEMMA InBoundsInit == Init => InBounds
<1> SUFFICES ASSUME Init PROVE InBounds
  OBVIOUS
<1>1. sz = 0 /\ data = <<>> /\ used = 0
  BY DEF Init
<1>2. data \in [1..sz -> 0..MaxRequest]
  BY <1>1
<1>3. given \in Given
  BY NothingType DEF Init
<1>4. sent \in Sent
  BY CarriedType DEF Init
<1>5. sz \in 0..(Word - 1) /\ used \in 0..sz /\ requests \in 0..MaxRequest
  BY <1>1, WordAssumption, RequestAssumption DEF Init
<1>6. QED
  BY <1>2, <1>3, <1>4, <1>5 DEF Init, InBounds, TypeOK, NoOverrun, Given, Sent

LEMMA InBoundsReceive ==
  ASSUME InBounds, Receive
  PROVE  InBounds'
<1> USE WordAssumption, ChunkAssumption
<1>1. PICK k \in 1..MaxChunk :
        \/ /\ sz - used >= k
           /\ Collect(sz, Chunk(k))
        \/ /\ sz - used < k
           /\ sz + k < Word
           /\ \E new \in 0..(Word - 1) : Grown(sz, k, new) /\ Collect(new, Chunk(k))
  BY DEF Receive
<1>2. k \in Nat /\ sz \in Nat /\ used \in 0..sz /\ sz \in 0..(Word - 1)
  BY DEF InBounds, TypeOK
<1>3. UNCHANGED <<pc, request, rc, sent, given, clean, requests>>
  BY DEF Receive
<1>4. CASE sz - used >= k /\ Collect(sz, Chunk(k))
  <2>1. sz >= used + k
    BY <1>2, <1>4
  <2>2. QED
    BY <1>2, <1>3, <1>4, <2>1, CollectInBounds DEF InBounds, NoOverrun
<1>5. CASE \E new \in 0..(Word - 1) : Grown(sz, k, new) /\ Collect(new, Chunk(k))
  <2>1. PICK new \in 0..(Word - 1) : Grown(sz, k, new) /\ Collect(new, Chunk(k))
    BY <1>5
  <2>2. new >= sz + k
    BY <1>2, <2>1, GrownIsEnough
  <2>3. new >= used + k /\ new >= sz
    BY <1>2, <2>2
  <2>4. QED
    BY <1>2, <1>3, <2>1, <2>3, CollectInBounds DEF InBounds, NoOverrun
<1>6. QED
  BY <1>1, <1>4, <1>5

(* The empty buffer of a handle that was closed or gave its response away. *)
LEMMA NoBuffer ==
  ASSUME data' = <<>>, sz' = 0, used' = 0
  PROVE  data' \in [1..sz' -> 0..MaxRequest] /\ sz' \in 0..(Word - 1) /\ used' \in 0..sz'
  BY WordAssumption

(* Steps that leave buffer and records alone keep the types of both.       *)
BufferOK == used \in 0..sz /\ sz \in 0..(Word - 1) /\ data \in [1..sz -> 0..MaxRequest]

LEMMA BufferKept ==
  ASSUME BufferOK, UNCHANGED <<data, sz, used>>
  PROVE  BufferOK'
<1>1. data' = data /\ sz' = sz /\ used' = used
  OBVIOUS
<1>2. QED
  BY <1>1, Zenon DEF BufferOK

LEMMA CompleteInBounds ==
  ASSUME InBounds, Complete
  PROVE  InBounds'
<1>1. pc' = "idle" /\ rc' \in {"ok", "error"} /\ clean' = FALSE
  BY DEF Complete, Finish
<1>2. UNCHANGED <<url, hdr, mime, post, writer, sent, given, overrun, requests>>
  BY DEF Complete, request
<1>3. BufferOK'
  BY BufferKept DEF Complete, response, BufferOK, InBounds, TypeOK
<1>4. QED
  BY <1>1, <1>2, <1>3 DEF InBounds, TypeOK, NoOverrun, BufferOK

LEMMA InBoundsStep ==
  ASSUME InBounds, [Next]_vars
  PROVE  InBounds'
<1> USE RequestAssumption, WordAssumption
<1> USE DEF InBounds, TypeOK, NoOverrun, request, response, observers
<1>1. CASE New
  BY <1>1 DEF New
<1>2. CASE Close
  <2>1. data' \in [1..sz' -> 0..MaxRequest] /\ sz' \in 0..(Word - 1) /\ used' \in 0..sz'
    BY <1>2, NoBuffer DEF Close
  <2>2. QED
    BY <1>2, <2>1, ClearType DEF Close, Given, Sent
<1>3. CASE Reset
  <2>1. used' \in 0..sz'
    BY <1>3 DEF Reset
  <2>2. QED
    BY <1>3, <2>1, ClearType DEF Reset, Given
<1>4. CASE SetUrl
  BY <1>4 DEF SetUrl
<1>5. CASE SetHeader
  BY <1>5 DEF SetHeader
<1>6. CASE SetMime
  BY <1>6 DEF SetMime
<1>7. CASE SetRequestBody
  BY <1>7 DEF SetRequestBody
<1>8. CASE SetResponseBody
  BY <1>8 DEF SetResponseBody
<1>9. CASE Request
  BY <1>9 DEF Request, Carried
<1>10. CASE Receive
  BY <1>10, InBoundsReceive
<1>11. CASE ReceiveFails
  <2>1. used' \in 0..sz' /\ UNCHANGED <<sz, data>>
    BY <1>11 DEF ReceiveFails
  <2>2. QED
    BY <1>11, <2>1 DEF ReceiveFails, Finish
<1>12. CASE Complete
  BY <1>12, CompleteInBounds
<1>13. CASE Move
  <2>1. data' \in [1..sz' -> 0..MaxRequest] /\ sz' \in 0..(Word - 1) /\ used' \in 0..sz'
    BY <1>13, NoBuffer DEF Move
  <2>2. QED
    BY <1>13, <2>1 DEF Move
<1>14. CASE MoveNothing
  BY <1>14 DEF MoveNothing
<1>15. CASE UNCHANGED vars
  BY <1>15 DEF vars
<1>16. QED
  BY <1>1, <1>2, <1>3, <1>4, <1>5, <1>6, <1>7, <1>8, <1>9, <1>10, <1>11, <1>12, <1>13, <1>14,
     <1>15 DEF Next

LEMMA BufferInvariance == Spec => []InBounds
  BY InBoundsInit, InBoundsStep, PTL DEF Spec

(* The handle has its types: the buffer is as large as sz says.            *)
THEOREM TypeCorrect == Spec => []TypeOK
  BY BufferInvariance, PTL DEF InBounds

(* Every byte of every response lands inside the allocation, wherever the  *)
(* doubling wraps.                                                         *)
THEOREM ResponseInBounds == Spec => []NoOverrun
  BY BufferInvariance, PTL DEF InBounds

-----------------------------------------------------------------------------
(* The content.  A handle that has sent nothing since it was new or reset  *)
(* has an empty buffer, so the first response starts at its beginning and  *)
(* every chunk follows the one before it.                                  *)

BodyInv ==
    /\ arrived \in Seq(0..MaxRequest)
    /\ clean /\ pc # "perform" => used = 0
    /\ clean /\ pc = "perform" =>
          /\ used = Len(arrived)
          /\ \A i \in 1..used : data[i] = arrived[i]

(* A chunk is appended to the buffer as it is to the response.             *)
LEMMA CollectBody ==
  ASSUME TypeOK, BodyInv, clean, pc = "perform", NEW n \in Nat, NEW k \in Nat,
         n >= used + k, Collect(n, Chunk(k)), arrived' = arrived \o Chunk(k)
  PROVE  used' = Len(arrived') /\ \A i \in 1..used' : data'[i] = arrived'[i]
<1>1. Chunk(k) \in Seq(0..MaxRequest) /\ Len(Chunk(k)) = k
  BY DEF Chunk, TypeOK
<1>2. arrived \in Seq(0..MaxRequest) /\ used = Len(arrived) /\ used \in Nat /\ sz \in Nat
      /\ used <= sz /\ Len(data) = sz
  BY WordAssumption DEF BodyInv, TypeOK
<1>3. used' = used + k /\ Len(arrived') = used + k
  <2>1. used' = used + k
    BY <1>1 DEF Collect
  <2>2. Len(arrived') = Len(arrived) + Len(Chunk(k))
    BY <1>1, <1>2, ConcatProperties
  <2>3. QED
    BY <1>1, <1>2, <2>1, <2>2
<1>4. ASSUME NEW i \in 1..(used + k)
      PROVE  data'[i] = arrived'[i]
  <2>1. data'[i] = IF i \in (used + 1)..(used + k) THEN Chunk(k)[i - used]
                   ELSE IF i <= sz THEN data[i] ELSE 0
    BY <1>1, <1>2 DEF Collect, Copied
  <2>5. arrived'[i] = IF i <= used THEN arrived[i] ELSE Chunk(k)[i - used]
    BY <1>1, <1>2, ConcatProperties
  <2>2. CASE i \in 1..used
    <3>1. data'[i] = data[i] /\ arrived'[i] = arrived[i]
      BY <1>2, <2>1, <2>2, <2>5
    <3>2. QED
      BY <2>2, <3>1 DEF BodyInv
  <2>3. CASE i \in (used + 1)..(used + k)
    <3>1. ~(i <= used)
      BY <1>2, <2>3
    <3>2. data'[i] = Chunk(k)[i - used]
      BY <2>1, <2>3
    <3>3. QED
      BY <2>5, <3>1, <3>2
  <2>4. used \in Nat
    BY <1>2
  <2>6. i \in 1..used \/ i \in (used + 1)..(used + k)
    BY <2>4
  <2>7. QED
    BY <2>2, <2>3, <2>6
<1>5. QED
  BY <1>3, <1>4

LEMMA BodyReceive ==
  ASSUME InBounds, BodyInv, Receive
  PROVE  BodyInv'
<1> USE WordAssumption, ChunkAssumption
<1>1. PICK k \in 1..MaxChunk :
        /\ \/ /\ sz - used >= k
              /\ Collect(sz, Chunk(k))
           \/ /\ sz - used < k
              /\ sz + k < Word
              /\ \E new \in 0..(Word - 1) : Grown(sz, k, new) /\ Collect(new, Chunk(k))
        /\ arrived' = arrived \o Chunk(k)
  BY DEF Receive
<1>2. k \in Nat /\ sz \in Nat /\ used \in 0..sz
  BY DEF InBounds, TypeOK
<1>3. PICK n \in Nat : n >= used + k /\ Collect(n, Chunk(k))
  <2>1. CASE sz - used >= k /\ Collect(sz, Chunk(k))
    BY <1>2, <2>1
  <2>2. CASE \E new \in 0..(Word - 1) : Grown(sz, k, new) /\ Collect(new, Chunk(k))
    <3>1. PICK new \in 0..(Word - 1) : Grown(sz, k, new) /\ Collect(new, Chunk(k))
      BY <2>2
    <3>2. new >= sz + k
      BY <1>2, <3>1, GrownIsEnough
    <3>3. QED
      BY <1>2, <3>1, <3>2
  <2>3. QED
    BY <1>1, <2>1, <2>2
<1>4. UNCHANGED <<clean, pc>> /\ pc = "perform"
  BY DEF Receive
<1>5. arrived' \in Seq(0..MaxRequest)
  BY <1>1, <1>2 DEF BodyInv, Chunk, InBounds, TypeOK
<1>6. CASE clean
  <2>1. used' = Len(arrived') /\ \A i \in 1..used' : data'[i] = arrived'[i]
    BY <1>1, <1>2, <1>3, <1>4, <1>6, CollectBody DEF InBounds
  <2>2. QED
    BY <1>4, <1>5, <2>1 DEF BodyInv
<1>7. CASE ~clean
  BY <1>4, <1>5, <1>7 DEF BodyInv
<1>8. QED
  BY <1>6, <1>7

LEMMA BodyStep ==
  ASSUME InBounds, BodyInv, [Next]_vars
  PROVE  BodyInv'
<1> USE DEF BodyInv, request, response, observers
<1>1. CASE New
  BY <1>1 DEF New
<1>2. CASE Close
  BY <1>2 DEF Close
<1>3. CASE Reset
  BY <1>3 DEF Reset
<1>4. CASE SetUrl \/ SetHeader \/ SetMime \/ SetRequestBody \/ SetResponseBody
  BY <1>4 DEF SetUrl, SetHeader, SetMime, SetRequestBody, SetResponseBody
<1>5. CASE Request
  <2>1. clean => used = 0
    BY <1>5 DEF Request
  <2>2. arrived' = <<>> /\ Len(arrived') = 0
    BY <1>5 DEF Request
  <2>3. QED
    BY <1>5, <2>1, <2>2 DEF Request
<1>6. CASE Receive
  BY <1>6, BodyReceive
<1>7. CASE ReceiveFails \/ Complete
  BY <1>7 DEF ReceiveFails, Complete, Finish
<1>8. CASE Move \/ MoveNothing
  BY <1>8 DEF Move, MoveNothing
<1>9. CASE UNCHANGED vars
  BY <1>9 DEF vars
<1>10. QED
  BY <1>1, <1>2, <1>3, <1>4, <1>5, <1>6, <1>7, <1>8, <1>9 DEF Next

LEMMA BodyMeaning == InBounds /\ BodyInv => BodyIsResponse
<1> SUFFICES ASSUME InBounds, BodyInv, pc = "perform", clean
             PROVE  SubSeq(data, 1, used) = arrived
  BY DEF BodyIsResponse
<1>1. arrived \in Seq(0..MaxRequest) /\ used = Len(arrived) /\ used \in Nat /\ used <= sz
      /\ sz \in Nat /\ data \in [1..sz -> 0..MaxRequest]
  BY WordAssumption DEF InBounds, TypeOK, BodyInv
<1>2. \A i \in 1..used : data[i] \in 0..MaxRequest
  BY <1>1
<1>3. /\ SubSeq(data, 1, used) \in Seq(0..MaxRequest)
      /\ Len(SubSeq(data, 1, used)) = used
      /\ \A i \in 1..used : SubSeq(data, 1, used)[i] = data[i]
  BY <1>1, <1>2, SubSeqProperties
<1>4. \A i \in 1..used : SubSeq(data, 1, used)[i] = arrived[i]
  BY <1>3 DEF BodyInv
<1>5. QED
  BY <1>1, <1>3, <1>4, SeqEqual

(* A request that succeeds on a handle that was new or reset leaves        *)
(* exactly its own response in the buffer, whatever the sizes of the       *)
(* chunks and of the buffer an earlier request left behind.                *)
THEOREM ResponseIsBody == Spec => []BodyIsResponse
<1>1. Init => BodyInv
  BY DEF Init, BodyInv
<1>2. QED
  BY <1>1, BodyStep, BodyMeaning, BufferInvariance, PTL DEF Spec

-----------------------------------------------------------------------------
(* The request.  What the handle holds was set since it was new or reset,  *)
(* but for a URL that none has replaced since then.                        *)

FreshInv ==
    /\ given.url # {} => url \in given.url
    /\ hdr \subseteq given.hdr
    /\ mime => given.mime
    /\ post => given.post

LEMMA FreshStep ==
  ASSUME TypeOK, FreshInv, [Next]_vars
  PROVE  FreshInv'
<1> USE DEF FreshInv, TypeOK, request, response, observers
<1>1. CASE New \/ MoveNothing \/ Move
  BY <1>1 DEF New, Move, MoveNothing
<1>2. CASE Close \/ Reset
  BY <1>2 DEF Close, Reset, ClearRequest, Nothing
<1>3. CASE SetUrl
  BY <1>3 DEF SetUrl
<1>4. CASE SetHeader
  BY <1>4 DEF SetHeader
<1>5. CASE SetMime
  BY <1>5 DEF SetMime
<1>6. CASE SetRequestBody
  BY <1>6 DEF SetRequestBody
<1>7. CASE SetResponseBody
  BY <1>7 DEF SetResponseBody
<1>8. CASE Request \/ Receive \/ ReceiveFails \/ Complete
  BY <1>8 DEF Request, Receive, ReceiveFails, Complete, Finish
<1>9. CASE UNCHANGED vars
  BY <1>9 DEF vars
<1>10. QED
  BY <1>1, <1>2, <1>3, <1>4, <1>5, <1>6, <1>7, <1>8, <1>9 DEF Next

(* No request carries a header, a part or a body that was set for the one  *)
(* before the last reset, nor its URL once libcurl took another.           *)
THEOREM RequestsAreFresh == Spec => NothingStale
<1>1. Init => FreshInv
  BY DEF Init, FreshInv, Nothing
<1>2. TypeOK /\ FreshInv /\ [Next]_vars =>
        [Request => /\ given.url # {} => sent'.url \in given.url
                    /\ sent'.hdr \subseteq given.hdr
                    /\ sent'.mime => given.mime
                    /\ sent'.post => given.post]_vars
  BY DEF FreshInv, Request, Carried
<1>3. QED
  BY <1>1, <1>2, FreshStep, TypeCorrect, PTL DEF Spec, NothingStale
=============================================================================
