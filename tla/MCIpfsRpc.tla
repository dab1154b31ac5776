------------------------------ MODULE MCIpfsRpc ------------------------------
(* Instances of IpfsRpc for TLC: two nodes, one of them with both an IPv4  *)
(* and an IPv6 address.                                                    *)
EXTENDS IpfsRpc

CONSTANTS n1v4, n2v4, n2v6

Addrs == {n1v4, n2v4, n2v6}
TwoNodes == << <<n1v4>>, <<n2v4, n2v6>> >>
=============================================================================
