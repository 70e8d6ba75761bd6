---------------------------- MODULE MC_CtrlQueue ----------------------------
(* Model-checking instance of CtrlQueue: two peers, so they compete for    *)
(* the ring, and a ring of two slots, fewer than the six messages two      *)
(* peers may queue, so it can fill up and wrap.                           *)
EXTENDS CtrlQueue, TLC

\* The peers are interchangeable.
MCSymmetry == Permutations(Peers)
=============================================================================
