----------------------------- MODULE FlashSlot -----------------------------
(* What main.c promises about the stored NDEF message: a one-place mailbox  *)
(* in front of a record.  A message is stored whole or not at all; one that *)
(* is accepted while the mailbox is taken is not.                           *)
CONSTANTS Msg, NoMsg, DefaultMsg

VARIABLES slot,     \* the message on its way to the flash, or NoMsg
          stored    \* the message a restart would find, or NoMsg

Accept == slot = NoMsg /\ slot' \in Msg /\ UNCHANGED stored

Store == slot # NoMsg /\ stored' = slot /\ slot' = NoMsg

\* The flash refuses, or the power goes.
Drop == slot' = NoMsg /\ UNCHANGED stored

\* Start-up finds no message, or the operator asks for the default one.
Default == slot = NoMsg /\ stored' = DefaultMsg /\ UNCHANGED slot

Init == slot = NoMsg /\ stored \in Msg \cup {NoMsg}

Next == Accept \/ Store \/ Drop \/ Default

Spec == Init /\ [][Next]_<<slot, stored>>
=============================================================================
