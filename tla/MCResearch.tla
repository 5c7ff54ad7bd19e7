----------------------------- MODULE MCResearch -----------------------------
(* Instances of Research for TLC. *)
EXTENDS Research, TLC

\* Requests, and processes, are interchangeable.
Symmetry == Permutations(Requests) \cup Permutations(Hosts)
=============================================================================
