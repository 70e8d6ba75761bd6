--------------------------- MODULE MC_DisconnectAll ---------------------------
(* Model-checking instance of DisconnectAll: two peers, a close timeout    *)
(* long enough for two grace intervals, and one repeated request.          *)
EXTENDS DisconnectAll
=============================================================================
