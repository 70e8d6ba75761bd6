--------------------------- MODULE MC_FlowCredits ---------------------------
(* Model-checking instance of FlowCredits: a window of one to three        *)
(* credits with a jitter step, so both the grow and the shrink steps of    *)
(* the credit controller fire and clip at their bounds.                    *)
EXTENDS FlowCredits, TLC
=============================================================================
