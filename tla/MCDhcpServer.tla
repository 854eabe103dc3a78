---------------------------- MODULE MCDhcpServer ----------------------------
(* Instances of DhcpServer for TLC. *)
EXTENDS DhcpServer, FiniteSets, TLC

CONSTANT MaxPackets  \* bound: the different packets sent and broadcast so far

Symmetry == Permutations(Mac \ {DemoMac}) \cup Permutations(Xid)

\* Behaviours are followed until they have used more packets than that.
FewPackets == Cardinality(net) + Cardinality(air) <= MaxPackets

=============================================================================
