---------------------------- MODULE ServerTimeMC ----------------------------
(* ServerTime with two clock offsets, so that the clock can be wrong and   *)
(* be set wrong again, and the code's five quick retries.                  *)
EXTENDS ServerTime

MCOffsets == {0, 1}
=============================================================================
