---------------------------- MODULE IpfsRpcProofs ----------------------------
(***************************************************************************)
(* Proofs about IpfsRpc, for any number of nodes with any addresses.       *)
(***************************************************************************)
EXTENDS IpfsRpc, SequenceTheorems, TLAPS

-----------------------------------------------------------------------------
(* The inductive invariant.  A connection has no current node exactly when *)
(* it has to probe, so a running request always has one, and the second    *)
(* check of a get finds it and does not probe.                             *)

NodeInv ==
    /\ pc \in {"off", "idle", "probe", "request"}
    /\ up \in SUBSET Addr
    /\ current \in Addr \cup {None}
    /\ suspect \in SUBSET Addr
    /\ SuspectNotUsed
    /\ pc \in {"off", "probe"} => current = None
    /\ pc = "request" => current # None

GetInv ==
    /\ pc # "request" => lsnode = None
    /\ OneNodePerGet

IInv == NodeInv /\ GetInv

LEMMA InitInv == Init => IInv
  BY NoneAssumption DEF Init, IInv, NodeInv, GetInv, SuspectNotUsed, OneNodePerGet

(* A call that returns without a change of node.                           *)
LEMMA FinishInv ==
  ASSUME IInv, NEW s \in {"off", "idle"}, NEW r, Finish(s, r),
         UNCHANGED <<current, suspect, up>>, s = "off" => current = None
  PROVE  IInv'
  BY DEF Finish, IInv, NodeInv, GetInv, SuspectNotUsed, OneNodePerGet

(* A connection that is given up.                                          *)
LEMMA OffInv ==
  ASSUME IInv, NEW r, Finish("off", r), current' = None, suspect' = {}, UNCHANGED up
  PROVE  IInv'
  BY DEF Finish, IInv, NodeInv, GetInv, SuspectNotUsed, OneNodePerGet

LEMMA ConnectInv ==
  ASSUME IInv, Connect
  PROVE  IInv'
  BY DEF Connect, StartProbing, IInv, NodeInv, GetInv, SuspectNotUsed, OneNodePerGet

LEMMA BeginInv ==
  ASSUME IInv, NEW op, Begin(op)
  PROVE  IInv'
<1>1. UNCHANGED <<current, lsnode, suspect, up>> /\ lsnode = None
  BY DEF Begin, IInv, GetInv
<1>2. \/ current # None /\ pc' = "request"
      \/ current = None /\ pc' = "probe"
  BY DEF Begin, CheckReachable, StartProbing
<1>3. QED
  BY <1>1, <1>2 DEF IInv, NodeInv, GetInv, SuspectNotUsed, OneNodePerGet

(* The node that answered the probe is the current one and under suspicion *)
(* no longer.                                                              *)
LEMMA ProbeSucceedsInv ==
  ASSUME IInv, ProbeSucceeds
  PROVE  IInv'
<1>1. /\ current' \in Addr /\ current' # None
      /\ suspect' = suspect \ {current'}
      /\ UNCHANGED up
  BY NoneAssumption DEF ProbeSucceeds, IInv, NodeInv
<1>2. pc' \in {"idle", "request"} /\ lsnode' = None
  BY DEF ProbeSucceeds, Finish, IInv, GetInv
<1>3. QED
  BY <1>1, <1>2 DEF IInv, NodeInv, GetInv, SuspectNotUsed, OneNodePerGet

LEMMA NoNodeReachableInv ==
  ASSUME IInv, NoNodeReachable
  PROVE  IInv'
<1>1. current = None
  BY DEF NoNodeReachable, IInv, NodeInv
<1>2. QED
  BY <1>1, FinishInv DEF NoNodeReachable

(* The length of a get has come: its content is asked of the same node.    *)
LEMMA AnsweredInv ==
  ASSUME IInv, Answered
  PROVE  IInv'
<1>1. pc = "request" /\ current # None /\ UNCHANGED <<current, suspect, up>>
  BY DEF Answered, IInv, NodeInv
<1>2. CASE lsnode' = current /\ CheckReachable
  <2>1. pc' = "request"
    BY <1>1, <1>2 DEF CheckReachable
  <2>2. QED
    BY <1>1, <1>2, <2>1 DEF IInv, NodeInv, GetInv, SuspectNotUsed, OneNodePerGet
<1>3. CASE Finish("idle", "ok")
  BY <1>1, <1>3, FinishInv
<1>4. QED
  BY <1>2, <1>3 DEF Answered

LEMMA UnreachableInv ==
  ASSUME IInv, Unreachable
  PROVE  IInv'
<1>1. current \in Addr
  BY DEF Unreachable, IInv, NodeInv
<1>2. pc' = "idle" /\ lsnode' = None /\ current' = None
  BY DEF Unreachable, Failed, Finish
<1>3. suspect' \in SUBSET Addr /\ UNCHANGED up
  BY <1>1 DEF Unreachable, IInv, NodeInv
<1>4. QED
  BY <1>2, <1>3, NoneAssumption DEF IInv, NodeInv, GetInv, SuspectNotUsed, OneNodePerGet

(* Whatever the nodes and the application do, the invariant holds.         *)
THEOREM Invariant == Spec => []IInv
<1>1. IInv /\ [Next]_vars => IInv'
  <2> SUFFICES ASSUME IInv, [Next]_vars PROVE IInv'
    OBVIOUS
  <2>1. CASE ConnectInvalid
    <3>1. current = None
      BY <2>1 DEF ConnectInvalid, IInv, NodeInv
    <3>2. QED
      BY <2>1, <3>1, FinishInv DEF ConnectInvalid
  <2>2. CASE Connect
    BY <2>2, ConnectInv
  <2>3. CASE Disconnect
    BY <2>3, OffInv DEF Disconnect
  <2>4. CASE \E op \in Calls : Begin(op)
    BY <2>4, BeginInv
  <2>5. CASE ProbeSucceeds
    BY <2>5, ProbeSucceedsInv
  <2>6. CASE ProbeFails \/ NextNode \/ OtherCall \/ UNCHANGED vars
    <3>1. UNCHANGED <<pc, current, lsnode, suspect, up>>
      BY <2>6 DEF ProbeFails, NextNode, OtherCall, vars
    <3>2. QED
      BY <3>1 DEF IInv, NodeInv, GetInv, SuspectNotUsed, OneNodePerGet
  <2>7. CASE NoNodeReachable
    BY <2>7, NoNodeReachableInv
  <2>8. CASE Answered
    BY <2>8, AnsweredInv
  <2>9. CASE Unreachable
    BY <2>9, UnreachableInv
  <2>10. CASE OtherError
    BY <2>10, FinishInv DEF OtherError, Failed
  <2>11. CASE EmptyAnswer
    BY <2>11, OffInv DEF EmptyAnswer
  <2>12. CASE Environment
    <3>1. up' \in SUBSET Addr /\ UNCHANGED <<pc, current, lsnode, suspect>>
      BY <2>12 DEF Environment, NodeFails, NodeRecovers, IInv, NodeInv
    <3>2. QED
      BY <3>1 DEF IInv, NodeInv, GetInv, SuspectNotUsed, OneNodePerGet
  <2>13. QED
    BY <2>1, <2>2, <2>3, <2>4, <2>5, <2>6, <2>7, <2>8, <2>9, <2>10, <2>11, <2>12 DEF Next
<1>2. QED
  BY InitInv, <1>1, PTL DEF Spec

(* No request goes to a node that was found unreachable and has not        *)
(* answered a probe since.                                                 *)
THEOREM SuspectsAreNotUsed == Spec => []SuspectNotUsed
<1>1. IInv => SuspectNotUsed
  BY DEF IInv, NodeInv
<1>2. QED
  BY Invariant, <1>1, PTL

(* The two requests of a get go to one node.                               *)
THEOREM GetsUseOneNode == Spec => []OneNodePerGet
<1>1. IInv => OneNodePerGet
  BY DEF IInv, GetInv
<1>2. QED
  BY Invariant, <1>1, PTL

-----------------------------------------------------------------------------
(* The probe loop.  What it passed since it started at base was tested in  *)
(* vain, and so was what it took from the list of the node it is at; when  *)
(* the next node is base again, it passed all the others.                  *)

Elements(s) == {s[k] : k \in 1..Len(s)}

(* The nodes from b on, round the end of the list, up to the one before n. *)
Passed(b, n) == {i \in Node : IF b <= n THEN b <= i /\ i < n ELSE b <= i \/ i < n}

Result == {"none", "ok", "failed", "try_again", "bad_bootstrap", "died"}

ProbeInv ==
    /\ base \in 0..Len(NodeAddrs) /\ node \in 0..Len(NodeAddrs)
    /\ probes \in Seq(Addr) /\ tried \in SUBSET Addr
    /\ pc = "probe" => /\ base \in Node /\ node \in Node
                       /\ \A i \in Passed(base, node) : Elements(NodeAddrs[i]) \subseteq tried
                       /\ Elements(NodeAddrs[node]) \subseteq tried \cup Elements(probes)
    /\ GivesUpAfterAll

CallInv ==
    /\ call \in Calls \cup {"none", "connect"}
    /\ lsnode \in Addr \cup {None}
    /\ hive_error \in BOOLEAN
    /\ result \in Result

LEMMA NodesType ==
  /\ Len(NodeAddrs) \in Nat \ {0} /\ Node \in SUBSET Nat /\ 0 \in 0..Len(NodeAddrs)
  /\ \A i \in Node : /\ NodeAddrs[i] \in Seq(Addr)
                     /\ i \in 0..Len(NodeAddrs) /\ Following(i) \in Node
<1>1. Len(NodeAddrs) \in Nat /\ NodeAddrs \in Seq(Seq(Addr)) /\ NodeAddrs # <<>>
  BY NodesAssumption
<1>2. Len(NodeAddrs) # 0
  BY <1>1, EmptySeq
<1>3. \A i \in Node : NodeAddrs[i] \in Seq(Addr)
  BY <1>1 DEF Node
<1>4. \A i \in Node : Following(i) \in Node
  BY <1>1, <1>2 DEF Node, Following
<1>5. QED
  BY <1>1, <1>2, <1>3, <1>4 DEF Node

LEMMA FirstElement ==
  ASSUME NEW s \in Seq(Addr), s # <<>>
  PROVE  /\ Head(s) \in Addr /\ Tail(s) \in Seq(Addr)
         /\ Elements(s) \subseteq {Head(s)} \cup Elements(Tail(s))
<1>1. /\ Head(s) \in Addr /\ Tail(s) \in Seq(Addr)
      /\ Len(s) \in Nat /\ Len(s) # 0 /\ Len(Tail(s)) = Len(s) - 1
      /\ \A k \in 1..Len(Tail(s)) : Tail(s)[k] = s[k + 1]
      /\ Head(s) = s[1]
  BY HeadTailProperties, EmptySeq
<1>2. ASSUME NEW k \in 1..Len(s) PROVE s[k] = Head(s) \/ s[k] \in Elements(Tail(s))
  <2>1. CASE k = 1
    BY <1>1, <2>1
  <2>2. CASE k # 1
    <3>1. k - 1 \in 1..Len(Tail(s)) /\ (k - 1) + 1 = k
      BY <1>1, <2>2
    <3>2. Tail(s)[k - 1] = s[k]
      BY <1>1, <3>1
    <3>3. QED
      BY <3>1, <3>2 DEF Elements
  <2>3. QED
    BY <2>1, <2>2
<1>3. QED
  BY <1>1, <1>2 DEF Elements

LEMMA NoElements == Elements(<<>>) = {} /\ <<>> \in Seq(Addr)
  BY DEF Elements

LEMMA PassedNone ==
  ASSUME NEW b \in Node
  PROVE  Passed(b, b) = {}
<1>1. b \in Nat /\ \A i \in Node : i \in Nat
  BY NodesType
<1>2. b <= b /\ \A i \in Node : ~ (b <= i /\ i < b)
  BY <1>1
<1>3. QED
  BY <1>2 DEF Passed

(* One node on, not back at the beginning.                                 *)
LEMMA PassedOn ==
  ASSUME NEW b \in Node, NEW n \in Node, Following(n) # b
  PROVE  Passed(b, Following(n)) \subseteq Passed(b, n) \cup {n}
<1> DEFINE m == Following(n)
<1>1. Len(NodeAddrs) \in Nat \ {0}
  BY NodesType
<1>2. SUFFICES ASSUME NEW i \in Node, IF b <= m THEN b <= i /\ i < m ELSE b <= i \/ i < m,
                      i # n
               PROVE  IF b <= n THEN b <= i /\ i < n ELSE b <= i \/ i < n
  BY DEF Passed
<1>3. i \in 1..Len(NodeAddrs) /\ b \in 1..Len(NodeAddrs) /\ n \in 1..Len(NodeAddrs)
  BY DEF Node
<1>4. CASE n = Len(NodeAddrs)
  <2>1. m = 1
    BY <1>4 DEF Following
  <2>2. QED
    BY <1>1, <1>2, <1>3, <1>4, <2>1
<1>5. CASE n # Len(NodeAddrs)
  <2>1. m = n + 1
    BY <1>5 DEF Following
  <2>2. m # b
    BY <1>2
  <2> HIDE DEF m
  <2>3. QED
    BY <1>1, <1>2, <1>3, <1>5, <2>1, <2>2
<1>6. QED
  BY <1>4, <1>5

(* Back at the beginning.                                                  *)
LEMMA PassedAll ==
  ASSUME NEW b \in Node, NEW n \in Node, Following(n) = b, NEW i \in Node, i # n
  PROVE  i \in Passed(b, n)
<1>1. Len(NodeAddrs) \in Nat \ {0}
  BY NodesType
<1>2. i \in 1..Len(NodeAddrs) /\ b \in 1..Len(NodeAddrs) /\ n \in 1..Len(NodeAddrs)
  BY DEF Node
<1>3. CASE n = Len(NodeAddrs)
  <2>1. b = 1
    BY <1>3 DEF Following
  <2>2. QED
    BY <1>1, <1>2, <1>3, <2>1 DEF Passed
<1>4. CASE n # Len(NodeAddrs)
  <2>1. b = n + 1
    BY <1>4 DEF Following
  <2>2. QED
    BY <1>1, <1>2, <1>4, <2>1 DEF Passed
<1>5. QED
  BY <1>3, <1>4

LEMMA InitProbe ==
  ASSUME Init
  PROVE  ProbeInv /\ CallInv
  BY NodesType, NoElements DEF Init, ProbeInv, CallInv, GivesUpAfterAll, Result

(* A step that leaves the loop alone.                                      *)
LEMMA NotProbing ==
  ASSUME ProbeInv, UNCHANGED scan, pc' # "probe",
         pc' \in {"off", "idle"} /\ result' = "bad_bootstrap" =>
            pc = pc' /\ result = result'
  PROVE  ProbeInv'
<1>1. UNCHANGED <<base, node, probes, tried>>
  BY DEF scan
<1>2. GivesUpAfterAll'
  BY <1>1 DEF ProbeInv, GivesUpAfterAll
<1>3. QED
  BY <1>1, <1>2 DEF ProbeInv

LEMMA StartProbingInv ==
  ASSUME StartProbing
  PROVE  ProbeInv'
<1>1. base' \in Node /\ node' = base' /\ probes' = NodeAddrs[base'] /\ tried' = {}
      /\ pc' = "probe"
  BY DEF StartProbing
<1>2. Passed(base', node') = {}
  BY <1>1, PassedNone
<1>3. probes' \in Seq(Addr) /\ base' \in 0..Len(NodeAddrs) /\ node' \in 0..Len(NodeAddrs)
  BY <1>1, NodesType
<1>4. QED
  BY <1>1, <1>2, <1>3 DEF ProbeInv, GivesUpAfterAll

LEMMA ProbeFailsInv ==
  ASSUME ProbeInv, ProbeFails
  PROVE  ProbeInv'
<1>1. /\ pc = "probe" /\ probes \in Seq(Addr) /\ probes # <<>>
      /\ probes' = Tail(probes) /\ tried' = tried \cup {Head(probes)}
      /\ UNCHANGED <<pc, base, node>> /\ tried \in SUBSET Addr
      /\ base \in 0..Len(NodeAddrs) /\ node \in 0..Len(NodeAddrs)
      /\ base \in Node /\ node \in Node
      /\ \A i \in Passed(base, node) : Elements(NodeAddrs[i]) \subseteq tried
      /\ Elements(NodeAddrs[node]) \subseteq tried \cup Elements(probes)
  BY DEF ProbeFails, ProbeInv
<1>2. /\ Head(probes) \in Addr /\ probes' \in Seq(Addr)
      /\ Elements(probes) \subseteq {Head(probes)} \cup Elements(probes')
  BY <1>1, FirstElement
<1>3. Elements(NodeAddrs[node]) \subseteq tried' \cup Elements(probes')
  BY <1>1, <1>2
<1>4. \A i \in Passed(base, node) : Elements(NodeAddrs[i]) \subseteq tried'
  BY <1>1
<1>5. tried' \in SUBSET Addr
  BY <1>1, <1>2
<1>6. QED
  BY <1>1, <1>2, <1>3, <1>4, <1>5 DEF ProbeInv, GivesUpAfterAll

LEMMA NextNodeInv ==
  ASSUME ProbeInv, NextNode
  PROVE  ProbeInv'
<1>1. /\ pc = "probe" /\ probes = <<>>
      /\ Following(node) # base /\ node' = Following(node) /\ probes' = NodeAddrs[node']
      /\ UNCHANGED <<pc, base, tried>> /\ tried \in SUBSET Addr
      /\ base \in Node /\ node \in Node
      /\ \A i \in Passed(base, node) : Elements(NodeAddrs[i]) \subseteq tried
      /\ Elements(NodeAddrs[node]) \subseteq tried \cup Elements(probes)
  BY DEF NextNode, ProbeInv
<1>2. Elements(NodeAddrs[node]) \subseteq tried
  BY <1>1, NoElements
<1>3. \A i \in Passed(base, node') : Elements(NodeAddrs[i]) \subseteq tried'
  BY <1>1, <1>2, PassedOn
<1>4. /\ node' \in Node /\ node' \in 0..Len(NodeAddrs) /\ base' \in 0..Len(NodeAddrs)
      /\ probes' \in Seq(Addr)
  BY <1>1, NodesType
<1>5. QED
  BY <1>1, <1>3, <1>4 DEF ProbeInv, GivesUpAfterAll

LEMMA StopProbingType ==
  ASSUME ProbeInv, StopProbing
  PROVE  /\ base' \in 0..Len(NodeAddrs) /\ node' \in 0..Len(NodeAddrs)
         /\ probes' \in Seq(Addr) /\ tried' \in SUBSET Addr /\ tried' = tried
  BY NodesType, NoElements DEF StopProbing, ProbeInv

LEMMA ProbeSucceedsProbe ==
  ASSUME ProbeInv, ProbeSucceeds
  PROVE  ProbeInv'
<1>1. StopProbing /\ pc' # "probe"
      /\ (pc' \in {"off", "idle"} => result' # "bad_bootstrap")
  BY DEF ProbeSucceeds, Finish
<1>2. QED
  BY <1>1, StopProbingType DEF ProbeInv, GivesUpAfterAll

(* The loop ran through the list: every address was tested.                *)
LEMMA NoNodeReachableProbe ==
  ASSUME ProbeInv, NoNodeReachable
  PROVE  ProbeInv'
<1>1. /\ pc = "probe" /\ probes = <<>> /\ Following(node) = base /\ StopProbing
      /\ tried \in SUBSET Addr /\ base \in Node /\ node \in Node
      /\ \A i \in Passed(base, node) : Elements(NodeAddrs[i]) \subseteq tried
      /\ Elements(NodeAddrs[node]) \subseteq tried \cup Elements(probes)
      /\ pc' # "probe"
  BY DEF NoNodeReachable, Finish, ProbeInv
<1>2. \A i \in Node : Elements(NodeAddrs[i]) \subseteq tried
  BY <1>1, NoElements, PassedAll
<1>3. \A a \in Addr : \E i \in Node : a \in Elements(NodeAddrs[i])
  <2> SUFFICES ASSUME NEW a \in Addr PROVE \E i \in Node : a \in Elements(NodeAddrs[i])
    OBVIOUS
  <2>1. PICK i \in DOMAIN NodeAddrs : \E k \in DOMAIN NodeAddrs[i] : a = NodeAddrs[i][k]
    BY NodesAssumption
  <2>2. i \in Node
    BY NodesAssumption DEF Node
  <2>3. NodeAddrs[i] \in Seq(Addr)
    BY <2>2, NodesType
  <2>4. DOMAIN NodeAddrs[i] = 1..Len(NodeAddrs[i])
    BY <2>3, LenProperties
  <2>5. a \in Elements(NodeAddrs[i])
    BY <2>1, <2>4 DEF Elements
  <2>6. QED
    BY <2>2, <2>5
<1>4. tried = Addr
  BY <1>1, <1>2, <1>3
<1>5. QED
  BY <1>1, <1>4, StopProbingType DEF ProbeInv, GivesUpAfterAll

(* CheckReachable starts the loop or leaves it alone.                      *)
LEMMA CheckReachableProbe ==
  ASSUME ProbeInv, CheckReachable
  PROVE  ProbeInv'
<1>1. CASE pc' = "request" /\ UNCHANGED scan
  BY <1>1, NotProbing
<1>2. CASE StartProbing
  BY <1>2, StartProbingInv
<1>3. QED
  BY <1>1, <1>2 DEF CheckReachable

(* A call that returns, except after a probe loop.                         *)
LEMMA FinishProbe ==
  ASSUME ProbeInv, UNCHANGED scan, NEW s \in {"off", "idle"}, NEW r, r # "bad_bootstrap",
         Finish(s, r)
  PROVE  ProbeInv'
<1>1. pc' # "probe" /\ result' # "bad_bootstrap"
  BY DEF Finish
<1>2. QED
  BY <1>1, NotProbing

LEMMA ProbeStep ==
  ASSUME IInv, ProbeInv, [Next]_vars
  PROVE  ProbeInv'
<1>1. CASE ConnectInvalid
  BY <1>1, FinishProbe DEF ConnectInvalid
<1>2. CASE Connect
  BY <1>2, StartProbingInv DEF Connect
<1>3. CASE Disconnect
  BY <1>3, FinishProbe DEF Disconnect
<1>4. CASE \E op \in Calls : Begin(op)
  BY <1>4, CheckReachableProbe DEF Begin
<1>5. CASE ProbeSucceeds
  BY <1>5, ProbeSucceedsProbe
<1>6. CASE ProbeFails
  BY <1>6, ProbeFailsInv
<1>7. CASE NextNode
  BY <1>7, NextNodeInv
<1>8. CASE NoNodeReachable
  BY <1>8, NoNodeReachableProbe
<1>9. CASE Answered
  BY <1>9, CheckReachableProbe, FinishProbe DEF Answered
<1>10. CASE Unreachable
  BY <1>10, FinishProbe DEF Unreachable, Failed
<1>11. CASE OtherError
  BY <1>11, FinishProbe DEF OtherError, Failed
<1>12. CASE EmptyAnswer
  BY <1>12, FinishProbe DEF EmptyAnswer
<1>13. CASE OtherCall \/ Environment \/ UNCHANGED vars
  <2>1. UNCHANGED <<pc, result, scan>>
    BY <1>13 DEF OtherCall, Environment, vars
  <2>2. UNCHANGED <<pc, result, base, node, probes, tried>>
    BY <2>1 DEF scan
  <2>3. QED
    BY <2>2 DEF ProbeInv, GivesUpAfterAll
<1>14. QED
  BY <1>1, <1>2, <1>3, <1>4, <1>5, <1>6, <1>7, <1>8, <1>9, <1>10, <1>11, <1>12, <1>13
     DEF Next

LEMMA FinishCall ==
  ASSUME CallInv, NEW s, NEW r \in Result, Finish(s, r), hive_error' \in BOOLEAN
  PROVE  CallInv'
  BY DEF Finish, CallInv

LEMMA CallStep ==
  ASSUME IInv, CallInv, [Next]_vars
  PROVE  CallInv'
<1>1. "ok" \in Result /\ "failed" \in Result /\ "try_again" \in Result
      /\ "bad_bootstrap" \in Result /\ "died" \in Result
  BY DEF Result
<1>2. hive_error \in BOOLEAN
  BY DEF CallInv
<1>3. CASE ConnectInvalid \/ Disconnect
  BY <1>1, <1>2, <1>3, FinishCall DEF ConnectInvalid, Disconnect
<1>4. CASE Connect \/ \E op \in Calls : Begin(op)
  BY <1>4 DEF Connect, Begin, CallInv
<1>5. CASE ProbeSucceeds
  <2>1. CASE Finish("idle", "ok") /\ UNCHANGED hive_error
    BY <1>1, <1>2, <2>1, FinishCall
  <2>2. CASE UNCHANGED <<call, result, lsnode, hive_error>>
    BY <2>2 DEF CallInv
  <2>3. QED
    BY <1>5, <2>1, <2>2 DEF ProbeSucceeds
<1>6. CASE NoNodeReachable
  BY <1>1, <1>6, FinishCall DEF NoNodeReachable
<1>7. CASE Answered
  <2>1. CASE Finish("idle", "ok") /\ UNCHANGED hive_error
    BY <1>1, <1>2, <2>1, FinishCall
  <2>2. CASE lsnode' = current /\ UNCHANGED <<call, result, hive_error>>
    <3>1. current \in Addr \cup {None}
      BY DEF IInv, NodeInv
    <3>2. QED
      BY <2>2, <3>1 DEF CallInv
  <2>3. QED
    BY <1>7, <2>1, <2>2 DEF Answered
<1>8. CASE Unreachable \/ OtherError
  BY <1>1, <1>8, FinishCall DEF Unreachable, OtherError, Failed
<1>9. CASE EmptyAnswer
  BY <1>1, <1>9, FinishCall DEF EmptyAnswer
<1>10. CASE ProbeFails \/ NextNode \/ OtherCall \/ Environment \/ UNCHANGED vars
  <2>1. UNCHANGED <<call, lsnode, result>> /\ hive_error' \in BOOLEAN
    BY <1>2, <1>10 DEF ProbeFails, NextNode, OtherCall, Environment, vars
  <2>2. QED
    BY <2>1 DEF CallInv
<1>11. QED
  BY <1>3, <1>4, <1>5, <1>6, <1>7, <1>8, <1>9, <1>10 DEF Next

(* The probe loop and the running call keep their invariants.              *)
THEOREM ProbeInvariant == Spec => []ProbeInv /\ []CallInv
<1>1. Init => ProbeInv /\ CallInv
  BY InitProbe
<1>2. IInv /\ ProbeInv /\ CallInv /\ [Next]_vars => ProbeInv' /\ CallInv'
  BY ProbeStep, CallStep
<1>3. QED
  BY Invariant, <1>1, <1>2, PTL DEF Spec

(* HIVEERR_BAD_BOOTSTRAP_HOST is reported only after every address of      *)
(* every node was tested, whatever node select_bootstrap started at.       *)
THEOREM GivesUpAfterAllNodes == Spec => []GivesUpAfterAll
<1>1. ProbeInv => GivesUpAfterAll
  BY DEF ProbeInv
<1>2. QED
  BY ProbeInvariant, <1>1, PTL

(* Every variable of a connection keeps its type; it has no current node   *)
(* exactly when it has to probe.                                           *)
THEOREM TypeCorrect == Spec => []TypeOK
<1>1. IInv /\ ProbeInv /\ CallInv => TypeOK
  BY DEF IInv, NodeInv, ProbeInv, CallInv, Result, TypeOK
<1>2. QED
  BY Invariant, ProbeInvariant, <1>1, PTL
=============================================================================
