------------------------------ MODULE IpfsRpc ------------------------------
(***************************************************************************)
(* Node selection and failover of an IPFS connection: vendors/ipfs/        *)
(* ipfs_rpc.c, and the requests of vendors/ipfs/ipfs.c that drive it.      *)
(*                                                                         *)
(* A connection knows a fixed list of nodes, each with an IPv4 and an IPv6 *)
(* address or one of them.  It talks to the current node until a request   *)
(* finds it unreachable, and probes the list again at the next operation.  *)
(* One thread drives the connection; nodes come and go at any time.        *)
(***************************************************************************)
EXTENDS Naturals, Sequences

CONSTANTS
    Addr,       \* addresses of the configured nodes
    None,       \* no current node: current_node_ip is ""
    NodeAddrs   \* rpc_nodes: the addresses of each node, IPv4 first

ASSUME NoneAssumption == None \notin Addr
ASSUME NodesAssumption ==
    /\ NodeAddrs \in Seq(Seq(Addr))
    /\ NodeAddrs # <<>>
    /\ \A a \in Addr : \E i \in DOMAIN NodeAddrs : \E k \in DOMAIN NodeAddrs[i] :
          a = NodeAddrs[i][k]

VARIABLES
    pc,         \* "off", "idle", or what the running call does next
    call,       \* the running call
    current,    \* the current node's address, or None
    base,       \* the node select_bootstrap started at, 0 when it does not run
    node,       \* the node it is at
    probes,     \* addresses of that node it has still to test
    tried,      \* observer: addresses it has tested in vain
    lsnode,     \* observer: the node that answered file/ls in this call
    suspect,    \* observer: addresses found unreachable, not probed since
    hive_error, \* TRUE when the thread's error code is not 0
    result,     \* outcome of the last call
    up          \* addresses whose node answers

scan == <<base, node, probes, tried>>
vars == <<pc, call, current, scan, lsnode, suspect, hive_error, result, up>>

Calls == {"put", "length", "get"}

Node == 1..Len(NodeAddrs)

(* (i + 1) % nodes_cnt, counted from 1.                                    *)
Following(i) == IF i = Len(NodeAddrs) THEN 1 ELSE i + 1

Init ==
    /\ pc = "off"
    /\ call = "none"
    /\ current = None
    /\ base = 0
    /\ node = 0
    /\ probes = <<>>
    /\ tried = {}
    /\ lsnode = None
    /\ suspect = {}
    /\ hive_error = FALSE
    /\ result = "none"
    /\ up \in SUBSET Addr

(* select_bootstrap starts at a random node.                               *)
StartProbing ==
    /\ pc' = "probe"
    /\ base' \in Node
    /\ node' = base'
    /\ probes' = NodeAddrs[base']
    /\ tried' = {}

(* It returns, with a node or without one.                                 *)
StopProbing == base' = 0 /\ node' = 0 /\ probes' = <<>> /\ UNCHANGED tried

Finish(state, res) ==
    /\ pc' = state
    /\ call' = "none"
    /\ result' = res
    /\ lsnode' = None

(* The API layer stores the error and the call returns -1.                 *)
Failed(res) == Finish("idle", res) /\ hive_error' = TRUE

-----------------------------------------------------------------------------
(* ipfs_client_connect and ipfs_rpc_new                                    *)

(* Options that do not pass the checks: NULL, and no error is set.         *)
ConnectInvalid ==
    /\ pc = "off"
    /\ Finish("off", "failed")
    /\ UNCHANGED <<current, scan, suspect, hive_error, up>>

Connect ==
    /\ pc = "off"
    /\ StartProbing
    /\ call' = "connect"
    /\ UNCHANGED <<current, lsnode, suspect, hive_error, result, up>>

(* Variant of Disconnect: the node outlives the connection.                *)
DisconnectKeepsNode ==
    /\ pc = "idle"
    /\ Finish("off", "ok")
    /\ suspect' = {}
    /\ UNCHANGED <<current, scan, hive_error, up>>

Disconnect ==
    /\ pc = "idle"
    /\ Finish("off", "ok")
    /\ current' = None
    /\ suspect' = {}
    /\ UNCHANGED <<scan, hive_error, up>>

-----------------------------------------------------------------------------
(* An operation: ipfs_rpc_check_reachable, then its requests.              *)

(* Variant of CheckReachable that probes every time.                       *)
CheckAlways == StartProbing

CheckReachable ==
    \/ current # None /\ pc' = "request" /\ UNCHANGED scan
    \/ current = None /\ StartProbing

Begin(op) ==
    /\ pc = "idle"
    /\ call' = op
    /\ CheckReachable
    /\ UNCHANGED <<current, lsnode, suspect, hive_error, result, up>>

(* test_reachable answered 200 within its 5 seconds.                       *)
ProbeSucceeds ==
    /\ pc = "probe"
    /\ probes # <<>>
    /\ Head(probes) \in up
    /\ current' = Head(probes)
    /\ suspect' = suspect \ {Head(probes)}
    /\ IF call = "connect" THEN Finish("idle", "ok")
       ELSE pc' = "request" /\ UNCHANGED <<call, result, lsnode>>
    /\ StopProbing
    /\ UNCHANGED <<hive_error, up>>

(* A node that is up may be too slow or answer another status.             *)
ProbeFails ==
    /\ pc = "probe"
    /\ probes # <<>>
    /\ probes' = Tail(probes)
    /\ tried' = tried \cup {Head(probes)}
    /\ UNCHANGED <<pc, call, current, base, node, lsnode, suspect, hive_error, result, up>>

(* The loop goes on until it is back at the node it started at.            *)
NextNode ==
    /\ pc = "probe"
    /\ probes = <<>>
    /\ Following(node) # base
    /\ node' = Following(node)
    /\ probes' = NodeAddrs[node']
    /\ UNCHANGED <<pc, call, current, base, tried, lsnode, suspect, hive_error, result, up>>

(* Variant of NoNodeReachable whose loop ends with the list.               *)
NoNodeReachableAtEnd ==
    /\ pc = "probe"
    /\ probes = <<>>
    /\ node = Len(NodeAddrs)
    /\ hive_error' = TRUE
    /\ Finish(IF call = "connect" THEN "off" ELSE "idle", "bad_bootstrap")
    /\ StopProbing
    /\ UNCHANGED <<current, suspect, up>>

(* HIVEERR_BAD_BOOTSTRAP_HOST                                              *)
NoNodeReachable ==
    /\ pc = "probe"
    /\ probes = <<>>
    /\ Following(node) = base
    /\ hive_error' = TRUE
    /\ Finish(IF call = "connect" THEN "off" ELSE "idle", "bad_bootstrap")
    /\ StopProbing
    /\ UNCHANGED <<current, suspect, up>>

(* put and length are one request; get asks file/ls for the length and,    *)
(* unless the file is empty, checks the node again and asks cat for the    *)
(* content.                                                                *)
Answered ==
    /\ pc = "request"
    /\ current \in up
    /\ \/ /\ call = "get" /\ lsnode = None
          /\ lsnode' = current
          /\ CheckReachable
          /\ UNCHANGED <<call, result>>
       \/ /\ Finish("idle", "ok")
          /\ UNCHANGED scan
    /\ UNCHANGED <<current, suspect, hive_error, up>>

(* Variant of Unreachable that keeps the node.                             *)
UnreachableKeepsNode ==
    /\ pc = "request"
    /\ suspect' = suspect \cup {current}
    /\ Failed("try_again")
    /\ UNCHANGED <<current, scan, up>>

(* CURLE_COULDNT_CONNECT, _REMOTE_ACCESS_DENIED or _OPERATION_TIMEDOUT:    *)
(* the node is dropped and the caller told to try again.                   *)
Unreachable ==
    /\ pc = "request"
    /\ current' = None
    /\ suspect' = suspect \cup {current}
    /\ Failed("try_again")
    /\ UNCHANGED <<scan, up>>

(* Any other curl code, a status that is not 200, an answer that does not  *)
(* parse, a length that does not fit: the node stays the current one.      *)
OtherError ==
    /\ pc = "request"
    /\ Failed("failed")
    /\ UNCHANGED <<current, scan, suspect, up>>

(* A 200 answer without a body to add or file/ls: http_client_move_        *)
(* response_body writes through a NULL len and the process dies; cat has a *)
(* callback of its own.                                                    *)
EmptyAnswer ==
    /\ pc = "request"
    /\ lsnode = None
    /\ Finish("off", "died")
    /\ current' = None
    /\ suspect' = {}
    /\ hive_error' = FALSE
    /\ UNCHANGED <<scan, up>>

(* The thread's other API calls set or clear the error code.               *)
OtherCall ==
    /\ pc \in {"off", "idle"}
    /\ hive_error' \in BOOLEAN
    /\ UNCHANGED <<pc, call, current, scan, lsnode, suspect, result, up>>

-----------------------------------------------------------------------------

NodeFails(a) == a \in up /\ up' = up \ {a}
NodeRecovers(a) == a \in Addr \ up /\ up' = up \cup {a}

Environment ==
    /\ \E a \in Addr : NodeFails(a) \/ NodeRecovers(a)
    /\ UNCHANGED <<pc, call, current, scan, lsnode, suspect, hive_error, result>>

Next ==
    \/ ConnectInvalid \/ Connect \/ Disconnect
    \/ \E op \in Calls : Begin(op)
    \/ ProbeSucceeds \/ ProbeFails \/ NextNode \/ NoNodeReachable
    \/ Answered \/ Unreachable \/ OtherError \/ EmptyAnswer \/ OtherCall
    \/ Environment

Spec == Init /\ [][Next]_vars

-----------------------------------------------------------------------------
(* Properties.                                                             *)

(* Types, and when the connection may be without a current node.           *)
TypeOK ==
    /\ pc \in {"off", "idle", "probe", "request"}
    /\ call \in Calls \cup {"none", "connect"}
    /\ current \in Addr \cup {None}
    /\ base \in 0..Len(NodeAddrs)
    /\ node \in 0..Len(NodeAddrs)
    /\ probes \in Seq(Addr)
    /\ tried \in SUBSET Addr
    /\ lsnode \in Addr \cup {None}
    /\ suspect \in SUBSET Addr
    /\ hive_error \in BOOLEAN
    /\ result \in {"none", "ok", "failed", "try_again", "bad_bootstrap", "died"}
    /\ up \in SUBSET Addr
    /\ pc \in {"off", "probe"} => current = None
    /\ pc = "request" => current # None

(* A request never goes to a node that was found unreachable and has not   *)
(* answered a probe since (ipfs_rpc_mark_node_unreachable).                *)
SuspectNotUsed == current \notin suspect

(* The content of a get comes from the node that gave its length: the      *)
(* second ipfs_rpc_check_reachable never selects another one.              *)
OneNodePerGet ==
    pc = "request" /\ lsnode # None => current = lsnode

(* An operation gives up with HIVEERR_BAD_BOOTSTRAP_HOST only after every  *)
(* address of every node was tested, whatever node it started at.          *)
GivesUpAfterAll ==
    pc \in {"off", "idle"} /\ result = "bad_bootstrap" => tried = Addr

(* A node that stays up answers a probe or a request that is repeated; an  *)
(* unreachable one is reported as such at last; the application retries.   *)
Fairness ==
    /\ WF_vars(\E op \in Calls : Begin(op))
    /\ WF_vars(ProbeFails \/ NextNode \/ NoNodeReachable)
    /\ \A a \in Addr : SF_vars(ProbeSucceeds /\ current' = a)
    /\ SF_vars(Answered /\ pc' # "idle")
    /\ SF_vars(Answered /\ pc' = "idle")
    /\ SF_vars(Unreachable /\ current \notin up)

FairSpec == Spec /\ Fairness

(* HIVEERR_TRY_AGAIN keeps its promise: when some node stays up, repeated  *)
(* calls get through, whatever the other nodes do, unless the connection   *)
(* is closed or dies.                                                      *)
RetrySucceeds ==
    (\E a \in Addr : <>[](a \in up)) =>
        (result = "try_again" ~> result = "ok" \/ pc = "off")
=============================================================================
