----------------------------- MODULE MCEndByPid -----------------------------
(* Instances of EndByPid for TLC. *)
EXTENDS EndByPid, TLC

\* The numbers stand for themselves only: sound, as no property is temporal
\* beyond one step.
Symmetry == Permutations(Pids)
=============================================================================
