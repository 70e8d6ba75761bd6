------------------------------ MODULE MC_Params ------------------------------
EXTENDS Params, TLC

\* PSM3_FLOW_CREDITS fields: negative, zero, in range, above IPS_MAX_CREDIT.
MCFieldVals == {-1, 0, 1, 2, 4, 7}
=============================================================================
