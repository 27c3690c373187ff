--------------------------- MODULE MCStopProtocol ---------------------------
(* Instances of StopProtocol for TLC. *)
EXTENDS StopProtocol, TLC

\* The threads are interchangeable: sound for safety only.
Symmetry == Permutations(Threads)

(***************************************************************************)
(* What a state can still tell apart, for the safety runs.  Left out is    *)
(* only what nothing reads before it is written again: a marker no name    *)
(* holds, a look that has been used, what a refused start leaves on the    *)
(* row, and the value of a cancel count, which is only ever compared with  *)
(* the one a running Restart read.                                         *)
(***************************************************************************)
View ==
  <<machineVars, table, held, pending, valid, pc, op, mk, presses,
    [m \in Markers \ Unreferenced |->
      <<phase[m], watch[m], typing[m], withdrawn[m], aimed[m]>>],
    {t \in Procs : op[t] = "restart" /\ epoch[t] = ended},
    [p \in Procs |-> pc[p] = "exit" /\ resume[p]],
    [p \in Procs |->
      IF pc[p] \in {"derive", "settled", "rederive", "consume", "mark"}
           \/ (pc[p] = "claim" /\ op[p] = "restart")
      THEN <<saw[p], marked[p]>> ELSE <<>>]>>
=============================================================================
