----------------------------- MODULE MCAttention -----------------------------
(* Instances of Attention for TLC. *)
EXTENDS Attention, TLC

(***************************************************************************)
(* What a state can still tell apart, for the safety run.  Left out is what *)
(* only the page shows, and the value of an epoch, which is only ever      *)
(* compared with a newer one.                                              *)
(***************************************************************************)
View ==
  <<row, asking, watching, changes, asked, awaiting, stuck, pc, subject, todo,
    waiting, clear, tell, due, presses, outdated, crossed, undone,
    pc[Scanner] = "capture" /\ Discarded,
    {r \in Reporters : pc[r] \in {"capture", "second", "flag"}
                         /\ StillHolds(r)}>>
=============================================================================
