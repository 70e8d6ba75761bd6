---------------------------- MODULE MC_VerbsRcQp ----------------------------
(* Model-checking instance of VerbsRcQp: four send buffers coalesced in   *)
(* pairs (the pool is sized to a multiple of the coalesce count), two     *)
(* rc_qp objects so a replacement QP runs beside a draining one, one      *)
(* receive WQE per QP.                                                    *)
EXTENDS VerbsRcQp, TLC

CONSTANTS b1, b2, b3, b4

MCBufs == {b1, b2, b3, b4}

\* The rc_qp objects are interchangeable, and so are the sbufs: Init allows
\* every order of the free list and no definition names a buffer.
MCSymmetry == Permutations(QPs) \cup Permutations(MCBufs)
=============================================================================
