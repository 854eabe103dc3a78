------------------------------- MODULE MCRudp -------------------------------
(* Instances of Rudp for TLC. *)
EXTENDS Rudp, TLC

\* Workers and calls are interchangeable; the safety runs use that.
Symmetry == Permutations(Worker) \cup Permutations(Call)

=============================================================================
