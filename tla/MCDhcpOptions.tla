---------------------------- MODULE MCDhcpOptions ----------------------------
(* Instances of DhcpOptions for TLC. *)
EXTENDS DhcpOptions

=============================================================================
