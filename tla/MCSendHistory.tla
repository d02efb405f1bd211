--------------------------- MODULE MCSendHistory ---------------------------
(* Instances of SendHistory for TLC; MAX_SEND_HISTORY_ENTRIES is 30 in the code. *)
EXTENDS SendHistory
=============================================================================
