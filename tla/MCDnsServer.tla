---------------------------- MODULE MCDnsServer ----------------------------
(* Instances of DnsServer for TLC. *)
EXTENDS DnsServer, TLC

CONSTANTS d1, i1

\* domain d1 has a record from the start
OneRecord == d1 :> i1

=============================================================================
