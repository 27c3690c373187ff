----------------------------- MODULE MCStartOnce -----------------------------
(* Instances of StartOnce for TLC. *)
EXTENDS StartOnce, TLC

\* Neither threads nor agents are told apart: sound, as only safety is checked.
Symmetry == Permutations(Threads) \cup Permutations(Agents)
=============================================================================
