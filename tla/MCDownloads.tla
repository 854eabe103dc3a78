---------------------------- MODULE MCDownloads ----------------------------
(* Instances of Downloads for TLC. *)
EXTENDS Downloads, TLC

CONSTANTS u1, u2

\* two URLs with files of different lengths
TwoLengths == u1 :> 2 @@ u2 :> 1

Symmetry == Permutations(Job) \cup Permutations(Server) \cup Permutations(File)

=============================================================================
