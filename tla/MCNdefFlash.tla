---------------------------- MODULE MCNdefFlash ----------------------------
(* Instances of NdefFlash for TLC.  Lengths at the boundary of flash_buf_len:*)
(* with the NLEN field 253 is the last that fits, 254 wraps to 0, and 300   *)
(* is cut short.                                                            *)
EXTENDS NdefFlash

CONSTANTS m1, m2, c, dflt

Plain == {m1, m2, c}
One == {m1}
Commands == {c}
NoCommands == {}
ShortLength == [m \in Msg \cup {dflt} |-> IF m = m1 THEN 253 ELSE 20]
LongLength == [m \in Msg \cup {dflt} |-> IF m = m1 THEN 254 ELSE IF m = m2 THEN 300 ELSE 20]
=============================================================================
