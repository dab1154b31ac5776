------------------------- MODULE AuthRedirectProofs -------------------------
(***************************************************************************)
(* Proofs about AuthRedirect, for any number of browser connections.       *)
(***************************************************************************)
EXTENDS AuthRedirect, SequenceTheorems, TLAPS

-----------------------------------------------------------------------------
(* Lists without repetitions                                               *)

(* Unlinking the i-th element.                                             *)
LEMMA Unlinked ==
  ASSUME NEW S, NEW q \in Seq(S), IsInjective(q), NEW i \in DOMAIN q
  PROVE  /\ RemoveAt(q, i) \in Seq(S)
         /\ IsInjective(RemoveAt(q, i))
         /\ Range(RemoveAt(q, i)) = Range(q) \ {q[i]}
<1> DEFINE r == RemoveAt(q, i)
<1>1. i \in 1..Len(q) /\ Len(q) \in Nat
  OBVIOUS
<1>2. /\ r \in Seq(S)
      /\ Len(r) = Len(q) - 1
      /\ \A j \in 1..(Len(q) - 1) : r[j] = IF j < i THEN q[j] ELSE q[j + 1]
  <2>1. /\ SubSeq(q, 1, i - 1) \in Seq(S)
        /\ Len(SubSeq(q, 1, i - 1)) = i - 1
        /\ \A j \in 1..(i - 1) : SubSeq(q, 1, i - 1)[j] = q[j]
    BY <1>1
  <2>2. /\ SubSeq(q, i + 1, Len(q)) \in Seq(S)
        /\ Len(SubSeq(q, i + 1, Len(q))) = Len(q) - i
        /\ \A j \in 1..(Len(q) - i) : SubSeq(q, i + 1, Len(q))[j] = q[i + j]
    BY <1>1
  <2> DEFINE front == SubSeq(q, 1, i - 1)
             back == SubSeq(q, i + 1, Len(q))
  <2>3. r = front \o back
    BY DEF RemoveAt
  <2> HIDE DEF front, back, r
  <2>4. /\ front \o back \in Seq(S)
        /\ Len(front \o back) = Len(front) + Len(back)
        /\ \A j \in 1..(Len(front) + Len(back)) :
              (front \o back)[j] = IF j <= Len(front) THEN front[j] ELSE back[j - Len(front)]
    BY <2>1, <2>2, ConcatProperties DEF front, back
  <2>5. Len(front) + Len(back) = Len(q) - 1
    <3>1. Len(front) = i - 1
      BY <2>1 DEF front
    <3>2. Len(back) = Len(q) - i
      BY <2>2 DEF back
    <3>3. QED
      BY <1>1, <3>1, <3>2
  <2>6. ASSUME NEW j \in 1..(Len(q) - 1)
        PROVE  r[j] = IF j < i THEN q[j] ELSE q[j + 1]
    <3>1. CASE j < i
      <4>1. j \in 1..(i - 1) /\ j <= Len(front)
        BY <1>1, <2>1, <3>1 DEF front
      <4>2. front[j] = q[j]
        BY <2>1, <4>1 DEF front
      <4>3. QED
        BY <2>3, <2>4, <2>5, <3>1, <4>1, <4>2
    <3>2. CASE ~(j < i)
      <4>1. /\ j - (i - 1) \in 1..(Len(q) - i) /\ ~(j <= Len(front))
            /\ i + (j - (i - 1)) = j + 1 /\ Len(front) = i - 1
        BY <1>1, <2>1, <3>2 DEF front
      <4>2. back[j - (i - 1)] = q[j + 1]
        BY <2>2, <4>1 DEF back
      <4>3. QED
        BY <2>3, <2>4, <2>5, <3>2, <4>1, <4>2
    <3>3. QED
      BY <3>1, <3>2
  <2>7. QED
    BY <2>3, <2>4, <2>5, <2>6
<1>3. DOMAIN r = 1..(Len(q) - 1)
  BY <1>1, <1>2
<1> HIDE DEF r
<1>4. IsInjective(r)
  <2> SUFFICES ASSUME NEW a \in 1..(Len(q) - 1), NEW b \in 1..(Len(q) - 1), r[a] = r[b]
               PROVE  a = b
    BY <1>3 DEF IsInjective
  <2> DEFINE at(j) == IF j < i THEN j ELSE j + 1
  <2>1. \A j, k \in 1..Len(q) : q[j] = q[k] => j = k
    BY DEF IsInjective
  <2>2. at(a) \in 1..Len(q) /\ at(b) \in 1..Len(q)
    BY <1>1
  <2>3. r[a] = q[at(a)] /\ r[b] = q[at(b)]
    BY <1>2
  <2>4. at(a) = at(b)
    BY <2>1, <2>2, <2>3
  <2>5. QED
    BY <1>1, <2>4
<1>5. Range(r) = Range(q) \ {q[i]}
  <2>1. \A j, k \in 1..Len(q) : q[j] = q[k] => j = k
    BY DEF IsInjective
  <2>2. Range(r) = {r[j] : j \in 1..(Len(q) - 1)} /\ Range(q) = {q[j] : j \in 1..Len(q)}
    BY <1>3 DEF Range
  <2>3. \A j \in 1..(Len(q) - 1) : r[j] \in Range(q) /\ r[j] # q[i]
    BY <1>1, <1>2, <2>1, <2>2
  <2>4. \A k \in 1..Len(q) : q[k] # q[i] => q[k] \in Range(r)
    <3> SUFFICES ASSUME NEW k \in 1..Len(q), k # i PROVE \E j \in 1..(Len(q) - 1) : r[j] = q[k]
      BY <2>2
    <3>1. CASE k < i
      BY <1>1, <1>2, <3>1
    <3>2. CASE k > i
      <4>1. k - 1 \in 1..(Len(q) - 1) /\ ~(k - 1 < i) /\ (k - 1) + 1 = k
        BY <1>1, <3>2
      <4>2. QED
        BY <1>2, <4>1
    <3>3. QED
      BY <1>1, <3>1, <3>2
  <2>5. QED
    BY <2>2, <2>3, <2>4
<1>6. QED
  BY <1>2, <1>4, <1>5 DEF r

(* Passing over the first element.                                         *)
LEMMA Passed ==
  ASSUME NEW S, NEW q \in Seq(S), IsInjective(q), q # <<>>
  PROVE  /\ Head(q) \in Range(q)
         /\ Tail(q) \in Seq(S)
         /\ IsInjective(Tail(q))
         /\ Range(Tail(q)) = Range(q) \ {Head(q)}
<1>1. /\ Len(q) \in Nat \ {0} /\ Head(q) = q[1] /\ Tail(q) \in Seq(S)
      /\ Len(Tail(q)) = Len(q) - 1
      /\ \A i \in 1..(Len(q) - 1) : Tail(q)[i] = q[i + 1]
  OBVIOUS
<1>2. \A j, k \in 1..Len(q) : q[j] = q[k] => j = k
  BY DEF IsInjective
<1>3. /\ Range(Tail(q)) = {Tail(q)[j] : j \in 1..(Len(q) - 1)}
      /\ Range(q) = {q[j] : j \in 1..Len(q)}
  BY <1>1, RangeEquality
<1>4. IsInjective(Tail(q))
  <2>1. DOMAIN Tail(q) = 1..(Len(q) - 1)
    BY <1>1
  <2>2. QED
    BY <1>1, <1>2, <2>1 DEF IsInjective
<1>5. \A j \in 1..(Len(q) - 1) : Tail(q)[j] \in Range(q) \ {Head(q)}
  BY <1>1, <1>2, <1>3
<1>6. \A k \in 1..Len(q) : q[k] # q[1] => q[k] \in Range(Tail(q))
  <2> SUFFICES ASSUME NEW k \in 1..Len(q), k # 1 PROVE \E j \in 1..(Len(q) - 1) : Tail(q)[j] = q[k]
    BY <1>3
  <2>1. k - 1 \in 1..(Len(q) - 1) /\ (k - 1) + 1 = k
    BY <1>1
  <2>2. QED
    BY <1>1, <2>1
<1>7. QED
  BY <1>1, <1>3, <1>4, <1>5, <1>6

(* Linking a new first element.                                            *)
LEMMA Linked ==
  ASSUME NEW S, NEW q \in Seq(S), IsInjective(q), NEW e \in S, e \notin Range(q)
  PROVE  /\ <<e>> \o q \in Seq(S)
         /\ IsInjective(<<e>> \o q)
         /\ Range(<<e>> \o q) = Range(q) \cup {e}
<1>1. /\ <<e>> \o q \in Seq(S) /\ Len(q) \in Nat
      /\ Len(<<e>> \o q) = Len(q) + 1
      /\ \A i \in 1..(Len(q) + 1) : (<<e>> \o q)[i] = IF i = 1 THEN e ELSE q[i - 1]
  OBVIOUS
<1>2. \A j, k \in 1..Len(q) : q[j] = q[k] => j = k
  BY DEF IsInjective
<1>3. \A j \in 1..Len(q) : q[j] # e
  BY RangeEquality
<1>4. IsInjective(<<e>> \o q)
  <2>1. DOMAIN (<<e>> \o q) = 1..(Len(q) + 1)
    BY <1>1
  <2>2. QED
    BY <1>1, <1>2, <1>3, <2>1 DEF IsInjective
<1>5. Range(<<e>>) = {e}
  BY DEF Range
<1>6. Range(<<e>> \o q) = {e} \cup Range(q)
  <2>1. \A p \in Seq(S) : Range(p \o q) = Range(p) \cup Range(q)
    BY RangeConcatenation
  <2>2. <<e>> \in Seq(S)
    OBVIOUS
  <2>3. Range(<<e>> \o q) = Range(<<e>>) \cup Range(q)
    BY <2>1, <2>2, Zenon
  <2>4. QED
    BY <1>5, <2>3
<1>7. QED
  BY <1>1, <1>4, <1>6

-----------------------------------------------------------------------------
(* Most steps change nothing a caller sees, and neither start nor end the  *)
(* call.                                                                   *)
LEMMA QuietStep ==
  ASSUME [Next]_vars, ~NoServer, ~NoThread, ~CloseServer, \A s \in Stream : ~ReceiveRequest(s)
  PROVE  /\ UNCHANGED <<handled, code, hive_error, result>>
         /\ phase' = "start" => phase = "start"
         /\ phase' = "returned" <=> phase = "returned"
<1>1. CASE Listen \/ CallbackReturns \/ UNCHANGED vars
  BY <1>1 DEF Listen, CallbackReturns, vars, handlerVars
<1>2. CASE Select \/ SelectTimesOut \/ PollReturns \/ Join \/ CloseStream
  BY <1>2 DEF Select, SelectTimesOut, StartSweep, PollReturns, Join, CloseStream, handlerVars
<1>3. ASSUME NEW s \in Stream,
             \/ ReceivePart(s) \/ ReceiveEnd(s) \/ SendReply(s) \/ SendFails(s)
             \/ SendDone(s) \/ NoEvent(s) \/ Accept(s)
             \/ BrowserConnects(s) \/ BrowserSends(s) \/ BecomesIdle(s)
      PROVE  UNCHANGED <<handled, code, hive_error, result, phase>>
  BY <1>3 DEF ReceivePart, ReceiveEnd, SendReply, SendFails, SendDone, NoEvent, Accept, Drop,
              BrowserConnects, BrowserSends, BecomesIdle, handlerVars
<1>4. QED
  BY <1>1, <1>2, <1>3 DEF Next, ServerStep, StreamStep

(* A wait without a code and without an error.  The invariant is inductive *)
(* as it stands: only a request changes what it speaks of.                 *)

LEMMA SilenceReceive ==
  ASSUME SilentOnlyWithoutRequest, NEW s \in Stream, ReceiveRequest(s)
  PROVE  SilentOnlyWithoutRequest'
<1> DEFINE req == inbox[s]
<1>1. /\ req \in {"code", "long_code", "empty_code", "no_code", "wrong_path"}
      /\ handled' = handled \cup {req}
      /\ code' = CodeAfter(req)
      /\ hive_error' = (hive_error \/ req \notin Accepted)
  BY DEF ReceiveRequest, Handle, Request
<1> HIDE DEF req
<1>2. CASE req = "code"
  BY <1>1, <1>2 DEF CodeAfter, SilentOnlyWithoutRequest
<1>3. CASE req = "empty_code"
  BY <1>1, <1>3 DEF SilentOnlyWithoutRequest
<1>4. CASE req \in {"long_code", "no_code", "wrong_path"}
  BY <1>1, <1>4 DEF Accepted, SilentOnlyWithoutRequest
<1>5. QED
  BY <1>1, <1>2, <1>3, <1>4

(* A wait that ends without a code and without an error saw no request, or *)
(* one whose code is empty, however many browsers connected.               *)
THEOREM SilenceIsExplained == Spec => []SilentOnlyWithoutRequest
<1>1. Init => SilentOnlyWithoutRequest
  BY DEF Init, SilentOnlyWithoutRequest
<1>2. SilentOnlyWithoutRequest /\ [Next]_vars => SilentOnlyWithoutRequest'
  <2> SUFFICES ASSUME SilentOnlyWithoutRequest, [Next]_vars PROVE SilentOnlyWithoutRequest'
    OBVIOUS
  <2>1. CASE NoThread
    BY <2>1 DEF NoThread, SilentOnlyWithoutRequest
  <2>2. CASE \E s \in Stream : ReceiveRequest(s)
    BY <2>2, SilenceReceive
  <2>3. CASE CloseServer \/ NoServer
    BY <2>3 DEF CloseServer, NoServer, handlerVars, SilentOnlyWithoutRequest
  <2>4. CASE ~NoServer /\ ~NoThread /\ ~CloseServer /\ \A s \in Stream : ~ReceiveRequest(s)
    <3>1. UNCHANGED <<handled, code, hive_error>>
      BY <2>4, QuietStep
    <3>2. QED
      BY <3>1 DEF SilentOnlyWithoutRequest
  <2>5. QED
    BY <2>1, <2>2, <2>3, <2>4
<1>3. QED
  BY <1>1, <1>2, PTL DEF Spec

-----------------------------------------------------------------------------
(* The server implements AuthWait.  A code in the buffer was brought by a  *)
(* browser, and the result is pending until the call returns.              *)

WaitInv ==
    /\ hive_error \in BOOLEAN
    /\ SilentOnlyWithoutRequest
    /\ code # "empty" => handled \cap Wait!WithCode # {}
    /\ phase = "start" => code = "empty"
    /\ phase # "returned" => result = "pending"

(* A request leaves the code it brought, or the one that was there.        *)
LEMMA ReceiveWait ==
  ASSUME WaitInv, NEW s \in Stream, ReceiveRequest(s)
  PROVE  WaitInv' /\ \E r \in Request : Wait!Receive(r)
<1> DEFINE req == inbox[s]
<1>1. /\ req \in {"code", "long_code", "empty_code", "no_code", "wrong_path"}
      /\ handled' = handled \cup {req}
      /\ code' = CodeAfter(req)
      /\ hive_error' = (hive_error \/ req \notin Accepted)
      /\ phase = "sweep" /\ phase' = "sweep" /\ result' = result /\ result = "pending"
  BY DEF ReceiveRequest, Handle, Request, Sweeping, WaitInv
<1> HIDE DEF req
<1>2. code' # "empty" => handled' \cap Wait!WithCode # {}
  <2>1. CASE req \in {"code", "long_code"}
    BY <1>1, <2>1 DEF Wait!WithCode
  <2>2. CASE req \in {"empty_code", "no_code"}
    BY <1>1, <2>2 DEF CodeAfter
  <2>3. CASE req = "wrong_path"
    BY <1>1, <2>3 DEF CodeAfter, WaitInv
  <2>4. QED
    BY <1>1, <2>1, <2>2, <2>3
<1>3. hive_error' \in {hive_error, TRUE} /\ hive_error' \in BOOLEAN
  <2>1. hive_error \in BOOLEAN
    BY DEF WaitInv
  <2>2. QED
    BY <1>1, <2>1
<1>4. WaitInv'
  BY <1>1, <1>2, <1>3, SilenceReceive DEF WaitInv
<1>5. Wait!Receive(req) /\ req \in Request
  BY <1>1, <1>3 DEF Wait!Receive, Request
<1>6. QED
  BY <1>4, <1>5

LEMMA WaitStep ==
  ASSUME WaitInv, [Next]_vars
  PROVE  WaitInv' /\ [Wait!Next]_(Wait!vars)
<1>1. CASE NoServer
  <2>1. /\ phase = "start" /\ phase' = "returned" /\ result' = "null"
        /\ UNCHANGED <<handled, code, hive_error>>
    BY <1>1 DEF NoServer, Return, handlerVars
  <2>2. Wait!EndWithError \/ Wait!EndSilently
    BY <2>1 DEF WaitInv, SilentOnlyWithoutRequest, Wait!EndWithError, Wait!EndSilently
  <2>3. QED
    BY <2>1, <2>2 DEF WaitInv, SilentOnlyWithoutRequest, Wait!Next, Wait!End
<1>2. CASE NoThread
  <2>1. /\ phase = "start" /\ phase' = "returned" /\ result' = "null" /\ hive_error' = TRUE
        /\ UNCHANGED <<handled, code>>
    BY <1>2 DEF NoThread, Return
  <2>2. Wait!EndWithError
    BY <2>1 DEF WaitInv, Wait!EndWithError
  <2>3. QED
    BY <2>1, <2>2 DEF WaitInv, SilentOnlyWithoutRequest, Wait!Next, Wait!End
<1>3. CASE CloseServer
  <2>1. /\ phase = "close" /\ phase' = "returned"
        /\ result' = IF code = "empty" THEN "null" ELSE "code"
        /\ UNCHANGED <<handled, code, hive_error>>
    BY <1>3 DEF CloseServer, Return, handlerVars
  <2>2. WaitInv'
    BY <2>1 DEF WaitInv, SilentOnlyWithoutRequest
  <2>3. Wait!End
    BY <2>1 DEF WaitInv, SilentOnlyWithoutRequest, Wait!End, Wait!EndWithCode,
                Wait!EndWithError, Wait!EndSilently
  <2>4. QED
    BY <2>2, <2>3 DEF Wait!Next
<1>4. CASE \E s \in Stream : ReceiveRequest(s)
  BY <1>4, ReceiveWait DEF Wait!Next
<1>5. CASE ~NoServer /\ ~NoThread /\ ~CloseServer /\ \A s \in Stream : ~ReceiveRequest(s)
  <2>1. /\ UNCHANGED <<handled, code, hive_error, result>>
        /\ phase' = "start" => phase = "start"
        /\ phase' = "returned" <=> phase = "returned"
    BY <1>5, QuietStep
  <2>2. QED
    BY <2>1 DEF WaitInv, SilentOnlyWithoutRequest, Wait!vars
<1>6. QED
  BY <1>1, <1>2, <1>3, <1>4, <1>5

(* Whatever browsers do, get_authorize_code ends once, with a code only if *)
(* a browser brought one, and with neither code nor error only if no       *)
(* browser asked for anything or one brought an empty code.                *)
THEOREM ImplementsAuthWait == Spec => Wait!Spec
<1>1. Init => WaitInv /\ Wait!Init
  BY DEF Init, WaitInv, SilentOnlyWithoutRequest, Wait!Init
<1>2. WaitInv /\ [Next]_vars => WaitInv' /\ [Wait!Next]_(Wait!vars)
  BY WaitStep
<1>3. QED
  BY <1>1, <1>2, PTL DEF Spec, Wait!Spec

-----------------------------------------------------------------------------
(* Streams.  The list of the server and the streams a sweep has still to   *)
(* visit are free of repetitions, and whatever is visited is in the list:  *)
(* a stream that is destroyed is not met again.                            *)

Live == {s \in Stream : state[s] \in {"receiving", "sending"}}

PlaceType ==
    /\ phase \in {"start", "select", "sweep", "join", "close", "returned"}
    /\ streams \in Seq(Stream)
    /\ todo \in Seq(Stream)
    /\ state \in [Stream -> {"none", "queued", "receiving", "sending", "gone"}]
    /\ closed \in [Stream -> Nat]

ListInv ==
    /\ IsInjective(streams)
    /\ IsInjective(todo)
    /\ Range(streams) = Live
    /\ Range(todo) \subseteq Live
    /\ phase # "sweep" => todo = <<>>

ClosedInv ==
    /\ \A s \in Stream : closed[s] = IF state[s] = "gone" THEN 1 ELSE 0
    /\ phase \in {"start", "returned"} => streams = <<>>

PlaceInv == PlaceType /\ ListInv /\ ClosedInv

LEMMA EmptyList == IsInjective(<<>>) /\ Range(<<>>) = {} /\ <<>> \in Seq(Stream)
  BY DEF IsInjective, Range

LEMMA PlaceInit == Init => PlaceInv
<1> SUFFICES ASSUME Init PROVE PlaceInv
  OBVIOUS
<1>1. PlaceType
  BY EmptyList DEF Init, PlaceType
<1>2. ListInv
  BY EmptyList DEF Init, ListInv, Live
<1>3. ClosedInv
  BY DEF Init, ClosedInv
<1>4. QED
  BY <1>1, <1>2, <1>3 DEF PlaceInv

(* A live stream is destroyed: it leaves the list for good.                *)
LEMMA Destroyed ==
  ASSUME PlaceInv, NEW s \in Live, Destroy(s)
  PROVE  /\ streams' \in Seq(Stream) /\ IsInjective(streams')
         /\ Range(streams') = Live \ {s} /\ Live' = Live \ {s}
         /\ state' \in [Stream -> {"none", "queued", "receiving", "sending", "gone"}]
         /\ closed' \in [Stream -> Nat]
         /\ \A t \in Stream : closed'[t] = IF state'[t] = "gone" THEN 1 ELSE 0
<1> USE DEF PlaceInv, PlaceType, ListInv, ClosedInv
<1>1. PICK i \in DOMAIN streams : streams[i] = s /\ streams' = RemoveAt(streams, i)
  BY DEF Destroy
<1>2. /\ streams' \in Seq(Stream) /\ IsInjective(streams')
      /\ Range(streams') = Live \ {s}
  BY <1>1, Unlinked
<1>3. s \in Stream /\ state[s] # "gone"
  BY DEF Live
<1>4. /\ state' = [state EXCEPT ![s] = "gone"]
      /\ closed' = [closed EXCEPT ![s] = @ + 1]
  BY DEF Destroy
<1>5. /\ state' \in [Stream -> {"none", "queued", "receiving", "sending", "gone"}]
      /\ closed' \in [Stream -> Nat]
  BY <1>3, <1>4
<1>6. \A t \in Stream : state'[t] = IF t = s THEN "gone" ELSE state[t]
  BY <1>4
<1>7. \A t \in Stream : closed'[t] = IF t = s THEN closed[t] + 1 ELSE closed[t]
  BY <1>4
<1>8. Live' = Live \ {s}
  BY <1>6 DEF Live
<1>9. \A t \in Stream : closed'[t] = IF state'[t] = "gone" THEN 1 ELSE 0
  BY <1>3, <1>6, <1>7
<1>10. QED
  BY <1>2, <1>5, <1>8, <1>9

(* The stream a sweep visits is live, and the rest of the sweep is without *)
(* it.                                                                     *)
LEMMA Visited ==
  ASSUME PlaceInv, NEW s, Sweeping(s)
  PROVE  /\ phase = "sweep" /\ s \in Live
         /\ Tail(todo) \in Seq(Stream) /\ IsInjective(Tail(todo))
         /\ Range(Tail(todo)) \subseteq Live \ {s}
<1>1. /\ Head(todo) \in Range(todo) /\ Tail(todo) \in Seq(Stream)
      /\ IsInjective(Tail(todo)) /\ Range(Tail(todo)) = Range(todo) \ {Head(todo)}
  BY Passed DEF Sweeping, PlaceInv, PlaceType, ListInv
<1>2. QED
  BY <1>1 DEF Sweeping, PlaceInv, ListInv

LEMMA DropInv ==
  ASSUME PlaceInv, NEW s, Sweeping(s), Drop(s)
  PROVE  PlaceInv'
<1>1. /\ Destroy(s) /\ todo' = Tail(todo) /\ phase' = phase
  BY DEF Drop
<1>2. s \in Live
  BY Visited
<1>3. PlaceType'
  BY <1>1, <1>2, Visited, Destroyed DEF PlaceInv, PlaceType
<1>4. ListInv'
  BY <1>1, <1>2, Visited, Destroyed DEF ListInv
<1>5. ClosedInv'
  BY <1>1, <1>2, Visited, Destroyed DEF ClosedInv
<1>6. QED
  BY <1>3, <1>4, <1>5 DEF PlaceInv

(* The sweep passes over a stream that stays alive.                        *)
LEMMA PassInv ==
  ASSUME PlaceInv, NEW s, Sweeping(s), todo' = Tail(todo),
         UNCHANGED <<phase, streams, closed>>,
         state' = state \/ state' = [state EXCEPT ![s] = "sending"]
  PROVE  PlaceInv'
<1>1. s \in Live /\ s \in Stream
  BY Visited DEF Live
<1>2. state' \in [Stream -> {"none", "queued", "receiving", "sending", "gone"}]
  BY <1>1 DEF PlaceInv, PlaceType
<1>3. \A t \in Stream : /\ state'[t] = "gone" <=> state[t] = "gone"
                        /\ state'[t] \in {"receiving", "sending"}
                             <=> state[t] \in {"receiving", "sending"}
  BY <1>1 DEF Live, PlaceInv, PlaceType
<1>4. Live' = Live
  BY <1>3 DEF Live
<1>5. PlaceType'
  BY <1>2, Visited DEF PlaceInv, PlaceType
<1>6. ListInv'
  BY <1>4, Visited DEF PlaceInv, ListInv
<1>7. ClosedInv'
  BY <1>3 DEF PlaceInv, ClosedInv
<1>8. QED
  BY <1>5, <1>6, <1>7 DEF PlaceInv

LEMMA AcceptInv ==
  ASSUME PlaceInv, NEW s \in Stream, Accept(s)
  PROVE  PlaceInv'
<1>1. /\ phase = "sweep" /\ state[s] = "queued"
      /\ state' = [state EXCEPT ![s] = "receiving"]
      /\ streams' = <<s>> \o streams
      /\ UNCHANGED <<phase, todo, closed>>
  BY DEF Accept
<1>2. s \notin Live
  BY <1>1 DEF Live
<1>3. /\ streams' \in Seq(Stream) /\ IsInjective(streams')
      /\ Range(streams') = Live \cup {s}
  BY <1>1, <1>2, Linked DEF PlaceInv, PlaceType, ListInv
<1>4. state' \in [Stream -> {"none", "queued", "receiving", "sending", "gone"}]
  BY <1>1 DEF PlaceInv, PlaceType
<1>5. \A t \in Stream : state'[t] = IF t = s THEN "receiving" ELSE state[t]
  BY <1>1 DEF PlaceInv, PlaceType
<1>6. Live' = Live \cup {s}
  BY <1>5 DEF Live
<1>7. PlaceType'
  BY <1>1, <1>3, <1>4 DEF PlaceInv, PlaceType
<1>8. ListInv'
  BY <1>1, <1>3, <1>6 DEF PlaceInv, ListInv
<1>9. ClosedInv'
  BY <1>1, <1>5 DEF PlaceInv, ClosedInv
<1>10. QED
  BY <1>7, <1>8, <1>9 DEF PlaceInv

LEMMA StreamStepInv ==
  ASSUME PlaceInv, NEW s \in Stream, StreamStep(s)
  PROVE  PlaceInv'
<1>1. CASE ReceiveEnd(s) \/ SendFails(s) \/ SendDone(s)
  BY <1>1, DropInv DEF ReceiveEnd, SendFails, SendDone
<1>2. CASE NoEvent(s)
  <2>1. CASE Drop(s)
    BY <1>2, <2>1, DropInv DEF NoEvent
  <2>2. CASE ~Drop(s)
    BY <1>2, <2>2, PassInv DEF NoEvent
  <2>3. QED
    BY <2>1, <2>2
<1>3. CASE ReceiveRequest(s)
  BY <1>3, PassInv DEF ReceiveRequest
<1>4. CASE ReceivePart(s) \/ SendReply(s)
  BY <1>4, PassInv DEF ReceivePart, SendReply
<1>5. CASE Accept(s)
  BY <1>5, AcceptInv
<1>6. QED
  BY <1>1, <1>2, <1>3, <1>4, <1>5 DEF StreamStep

(* A poll starts: the sweep is to visit the whole list.                    *)
LEMMA StartSweepInv ==
  ASSUME PlaceInv, phase = "select", NEW r, StartSweep(r)
  PROVE  PlaceInv'
<1>1. phase' = "sweep" /\ todo' = streams /\ UNCHANGED <<streams, state, closed>>
  BY DEF StartSweep
<1>2. Live' = Live
  BY <1>1 DEF Live
<1>3. QED
  BY <1>1, <1>2 DEF PlaceInv, PlaceType, ListInv, ClosedInv

(* The phase moves on and nothing else does.                               *)
LEMMA PhaseInv ==
  ASSUME PlaceInv, UNCHANGED <<streams, todo, state, closed>>,
         phase' \in {"start", "select", "sweep", "join", "close", "returned"},
         phase' # "sweep" => todo = <<>>,
         phase' \in {"start", "returned"} => streams = <<>>
  PROVE  PlaceInv'
<1>1. Live' = Live
  BY DEF Live
<1>2. QED
  BY <1>1 DEF PlaceInv, PlaceType, ListInv, ClosedInv

LEMMA CloseStreamInv ==
  ASSUME PlaceInv, CloseStream
  PROVE  PlaceInv'
<1>1. /\ phase = "close" /\ streams # <<>> /\ Destroy(Head(streams))
      /\ UNCHANGED <<phase, todo>>
  BY DEF CloseStream
<1>2. Head(streams) \in Live
  BY <1>1, Passed DEF PlaceInv, PlaceType, ListInv
<1>3. todo = <<>>
  BY <1>1 DEF PlaceInv, ListInv
<1>4. PlaceType'
  BY <1>1, <1>2, Destroyed DEF PlaceInv, PlaceType
<1>5. ListInv'
  BY <1>1, <1>2, <1>3, EmptyList, Destroyed DEF ListInv
<1>6. ClosedInv'
  BY <1>1, <1>2, Destroyed DEF ClosedInv
<1>7. QED
  BY <1>4, <1>5, <1>6 DEF PlaceInv

(* A browser connects, and waits to be accepted.                           *)
LEMMA ConnectInv ==
  ASSUME PlaceInv, NEW s \in Stream, BrowserConnects(s)
  PROVE  PlaceInv'
<1>1. /\ state[s] = "none" /\ state' = [state EXCEPT ![s] = "queued"]
      /\ UNCHANGED <<phase, streams, todo, closed>>
  BY DEF BrowserConnects
<1>2. \A t \in Stream : state'[t] = IF t = s THEN "queued" ELSE state[t]
  BY <1>1 DEF PlaceInv, PlaceType
<1>3. Live' = Live
  BY <1>1, <1>2 DEF Live
<1>4. PlaceType'
  BY <1>1 DEF PlaceInv, PlaceType
<1>5. ListInv'
  BY <1>1, <1>3 DEF PlaceInv, ListInv
<1>6. ClosedInv'
  BY <1>1, <1>2 DEF PlaceInv, ClosedInv
<1>7. QED
  BY <1>4, <1>5, <1>6 DEF PlaceInv

(* The server's list and the sweep are consistent in every reachable       *)
(* state, for any number of connections.                                   *)
THEOREM PlaceInvariance == Spec => []PlaceInv
<1>1. PlaceInv /\ [Next]_vars => PlaceInv'
  <2> SUFFICES ASSUME PlaceInv, [Next]_vars PROVE PlaceInv'
    OBVIOUS
  <2>1. CASE NoServer \/ NoThread \/ Listen
    <3>1. phase = "start" /\ streams = <<>> /\ todo = <<>> /\ phase' \in {"select", "returned"}
      BY <2>1 DEF NoServer, NoThread, Listen, Return, PlaceInv, ListInv, ClosedInv
    <3>2. UNCHANGED <<streams, todo, state, closed>>
      BY <2>1 DEF NoServer, NoThread, Listen, serverVars
    <3>3. QED
      BY <3>1, <3>2, PhaseInv
  <2>2. CASE Select \/ SelectTimesOut
    BY <2>2, StartSweepInv DEF Select, SelectTimesOut
  <2>3. CASE PollReturns
    <3>1. /\ todo = <<>> /\ phase' \in {"join", "select"}
          /\ UNCHANGED <<streams, todo, state, closed>>
      BY <2>3 DEF PollReturns
    <3>2. QED
      BY <3>1, PhaseInv
  <2>4. CASE Join \/ CloseServer
    <3>1. /\ todo = <<>> /\ phase' \in {"close", "returned"}
          /\ UNCHANGED <<streams, todo, state, closed>>
          /\ phase' = "returned" => streams = <<>>
      BY <2>4 DEF Join, CloseServer, Return, serverVars, PlaceInv, ListInv
    <3>2. QED
      BY <3>1, PhaseInv
  <2>5. CASE CloseStream
    BY <2>5, CloseStreamInv
  <2>6. CASE \E s \in Stream : StreamStep(s)
    BY <2>6, StreamStepInv
  <2>7. CASE \E s \in Stream : BrowserConnects(s)
    BY <2>7, ConnectInv
  <2>8. CASE CallbackReturns \/ (\E s \in Stream : BrowserSends(s) \/ BecomesIdle(s)) \/ UNCHANGED vars
    <3>1. UNCHANGED <<phase, streams, todo, state, closed>>
      BY <2>8 DEF CallbackReturns, BrowserSends, BecomesIdle, vars, serverVars
    <3>2. QED
      BY <3>1, PhaseInv DEF PlaceInv, PlaceType, ListInv, ClosedInv
  <2>9. QED
    BY <2>1, <2>2, <2>3, <2>4, <2>5, <2>6, <2>7, <2>8 DEF Next, ServerStep
<1>2. QED
  BY PlaceInit, <1>1, PTL DEF Spec

(* Every stream the server accepted gets exactly one CLOSE event, and none *)
(* is left open when get_authorize_code returns.                           *)
THEOREM StreamsAreClosedOnce == Spec => []StreamsClosedOnce
<1>1. PlaceInv => StreamsClosedOnce
  BY DEF PlaceInv, ClosedInv, StreamsClosedOnce
<1>2. QED
  BY <1>1, PlaceInvariance, PTL

-----------------------------------------------------------------------------
(* The other variables keep their types.                                   *)

PollType ==
    /\ ready \in [read : SUBSET Stream, write : SUBSET Stream, accept : BOOLEAN]
    /\ inbox \in [Stream -> Request \cup {"nothing", "part", "end"}]
    /\ reply \in [Stream -> BOOLEAN]
    /\ idle \in [Stream -> BOOLEAN]

WaitType ==
    /\ handled \in SUBSET Request
    /\ stopped \in BOOLEAN
    /\ code \in {"empty", "whole", "cut"}
    /\ hive_error \in BOOLEAN
    /\ thread \in {"none", "running", "done"}
    /\ result \in {"pending", "code", "null"}

LEMMA NoneReadyType == NoneReady \in [read : SUBSET Stream, write : SUBSET Stream, accept : BOOLEAN]
<1>1. {} \in SUBSET Stream /\ FALSE \in BOOLEAN
  OBVIOUS
<1>2. QED
  BY <1>1 DEF NoneReady

LEMMA StreamTypes ==
  ASSUME PollType, WaitType, NEW s \in Stream,
         StreamStep(s) \/ BrowserConnects(s) \/ BrowserSends(s) \/ BecomesIdle(s)
  PROVE  PollType' /\ WaitType'
<1> USE DEF PollType, WaitType, handlerVars, serverVars
<1>1. CASE ReceiveRequest(s)
  <2>1. /\ inbox[s] \in Request /\ Handle(s, inbox[s])
        /\ inbox' = [inbox EXCEPT ![s] = "nothing"]
        /\ idle' = [idle EXCEPT ![s] = FALSE]
        /\ UNCHANGED <<ready, stopped, thread, result>>
    BY <1>1 DEF ReceiveRequest
  <2>2. code' \in {"empty", "whole", "cut"}
    BY <1>1 DEF ReceiveRequest, Handle, CodeAfter, Request
  <2>3. reply' \in [Stream -> BOOLEAN] /\ hive_error' \in BOOLEAN /\ handled' \in SUBSET Request
    BY <2>1 DEF Handle
  <2>4. QED
    BY <2>1, <2>2, <2>3
<1>2. CASE ReceivePart(s)
  BY <1>2 DEF ReceivePart
<1>3. CASE SendReply(s)
  BY <1>3 DEF SendReply
<1>4. CASE ReceiveEnd(s) \/ SendFails(s) \/ SendDone(s) \/ NoEvent(s)
  BY <1>4 DEF ReceiveEnd, SendFails, SendDone, NoEvent, Drop, Destroy
<1>5. CASE Accept(s)
  BY <1>5 DEF Accept
<1>6. CASE BrowserConnects(s) \/ BrowserSends(s) \/ BecomesIdle(s)
  BY <1>6 DEF BrowserConnects, BrowserSends, BecomesIdle
<1>7. QED
  BY <1>1, <1>2, <1>3, <1>4, <1>5, <1>6 DEF StreamStep

LEMMA SweepTypes ==
  ASSUME PlaceInv, PollType, WaitType, Select \/ SelectTimesOut
  PROVE  PollType' /\ WaitType'
<1>1. Range(streams) \subseteq Stream
  BY DEF PlaceInv, ListInv, Live
<1>2. PICK r \in [read : SUBSET Stream, write : SUBSET Stream, accept : BOOLEAN] : StartSweep(r)
  <2>1. CASE Select
    <3>1. [read |-> Readable, write |-> Writable, accept |-> Waiting # {}]
             \in [read : SUBSET Stream, write : SUBSET Stream, accept : BOOLEAN]
      BY <1>1 DEF Readable, Writable
    <3>2. QED
      BY <2>1, <3>1 DEF Select
  <2>2. CASE SelectTimesOut
    BY <2>2, NoneReadyType DEF SelectTimesOut
  <2>3. QED
    BY <2>1, <2>2
<1>3. QED
  BY <1>2 DEF StartSweep, PollType, WaitType, handlerVars

LEMMA OtherTypes ==
  ASSUME PollType, WaitType,
         \/ NoServer \/ NoThread \/ Listen \/ PollReturns \/ Join \/ CloseStream \/ CloseServer
         \/ CallbackReturns \/ UNCHANGED vars
  PROVE  PollType' /\ WaitType'
<1> USE DEF PollType, WaitType, handlerVars, serverVars
<1>1. CASE NoServer \/ NoThread \/ Listen \/ CallbackReturns
  BY <1>1 DEF NoServer, NoThread, Listen, CallbackReturns, Return
<1>2. CASE PollReturns \/ Join
  BY <1>2, NoneReadyType DEF PollReturns, Join
<1>3. CASE CloseStream
  BY <1>3 DEF CloseStream, Destroy
<1>4. CASE CloseServer
  BY <1>4 DEF CloseServer, Return
<1>5. CASE UNCHANGED vars
  BY <1>5 DEF vars
<1>6. QED
  BY <1>1, <1>2, <1>3, <1>4, <1>5

(* Every reachable state is well typed, and a stream is in the server's    *)
(* list exactly while it receives or sends.                                *)
THEOREM TypeCorrect == Spec => []TypeOK
<1>1. Init => PollType /\ WaitType
  <2> SUFFICES ASSUME Init PROVE PollType /\ WaitType
    OBVIOUS
  <2>1. PollType
    BY NoneReadyType DEF Init, PollType
  <2>2. WaitType
    BY DEF Init, WaitType
  <2>3. QED
    BY <2>1, <2>2
<1>2. PlaceInv /\ PollType /\ WaitType /\ [Next]_vars => (PollType /\ WaitType)'
  BY StreamTypes, SweepTypes, OtherTypes DEF Next, ServerStep
<1>3. PlaceInv /\ PollType /\ WaitType => TypeOK
  BY DEF PlaceInv, PlaceType, ListInv, Live, PollType, WaitType, TypeOK
<1>4. QED
  BY <1>1, <1>2, <1>3, PlaceInvariance, PTL DEF Spec
=============================================================================
