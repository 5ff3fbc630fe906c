-------------------------- MODULE NdefFlashProofs --------------------------
(* Proofs about NdefFlash, for every set of messages and every length.      *)
EXTENDS NdefFlash, TLAPS

Filling == {"length", "head", "tail", "publish"}

\* Who owns the buffer, and what the callback works on.
HandOff ==
    /\ nfc \in Filling <=> op_flags = "PREP_STARTED"
    /\ main \in {"head", "tail", "flashed", "not_flashed"} <=> op_flags = "WRITE_STARTED"
    /\ nfc = "give" => op_flags = "PREP_FINISHED"
    /\ main \in {"load", "button", "emulate"} =>
          ~sensing /\ nfc = "idle" /\ op_flags = "FINISHED"
    /\ nfc \in Filling \cup {"prepare"} => ndef_msg_buf \in Msg \ Command

SafeInv == TypeOK /\ HandOff /\ WakeupMatchesBuffer

\* The default message makes a record of the form the others have.
LEMMA RecordTyped == DefaultRecord \in [head : Half, tail : Half, len : Nat]
<1>1. Length[DefaultMsg] + NLEN_FIELD_SIZE \in Nat
  BY MessageAssumption DEF NLEN_FIELD_SIZE
<1> QED  BY <1>1 DEF DefaultRecord, Record, Half

\* The invariant holds when the board starts.
LEMMA InitSafe == Init => SafeInv
<1> SUFFICES ASSUME Init PROVE SafeInv
    OBVIOUS
<1>1. 0 \in 0 .. UINT8_MAX
  BY DEF UINT8_MAX
<1>2. DefaultRecord \in [head : Half, tail : Half, len : Nat]
  BY RecordTyped
<1>3. TypeOK
  BY <1>1, <1>2 DEF Init, TypeOK
<1>4. HandOff /\ WakeupMatchesBuffer
  BY DEF Init, HandOff, Filling, WakeupMatchesBuffer
<1> QED  BY <1>3, <1>4 DEF SafeInv

\* No step of the main thread, of the callback or of a reader, and no restart
\* breaks it.
LEMMA StepSafe == SafeInv /\ [Next]_vars => SafeInv'
<1> SUFFICES ASSUME SafeInv, [Next]_vars PROVE SafeInv'
    OBVIOUS
<1> USE MessageAssumption DEF SafeInv, HandOff, Filling, WakeupMatchesBuffer,
        flashVars
<1>1. CASE Load
  <2>1. ndef_msg_buf' \in Msg \cup {DefaultMsg, Response, Damaged}
    BY <1>1 DEF Load, TypeOK, Content, Half
  <2> QED  BY <1>1, <2>1, RecordTyped DEF Load, TypeOK
<1>2. CASE Restore
  BY <1>2, RecordTyped DEF Restore, TypeOK
<1>3. CASE Emulate
  BY <1>3 DEF Emulate, TypeOK
<1>4. CASE Initialised
  BY <1>4 DEF Initialised, TypeOK
<1>5. CASE Fail
  BY <1>5 DEF Fail, TypeOK
<1>6. CASE TakeSem
  BY <1>6 DEF TakeSem, TypeOK
<1>7. CASE StartWrite
  BY <1>7 DEF StartWrite, TypeOK
<1>8. CASE ReadHead
  BY <1>8 DEF ReadHead, TypeOK
<1>9. CASE WriteRecord
  <2>1. /\ Written(writing.head, flash_buf.tail, writing.len)
             \in {NoRecord} \cup [head : Half, tail : Half, len : Nat]
        /\ flash' # flash =>
             flash' = Written(writing.head, flash_buf.tail, writing.len)
    BY <1>9 DEF WriteRecord, Written, Record, TypeOK, Half, UINT8_MAX
  <2> QED  BY <1>9, <2>1 DEF WriteRecord, TypeOK
<1>10. CASE FinishWrite
  BY <1>10 DEF FinishWrite, TypeOK
<1>11. ASSUME NEW m \in Msg, Updated(m) PROVE SafeInv'
  BY <1>11 DEF Updated, TypeOK
<1>12. CASE Prepare
  BY <1>12 DEF Prepare, TypeOK
<1>13. CASE SetLength
  <2>1. ndef_msg_buf \in Msg
    BY <1>13 DEF SetLength
  <2>2. Length[ndef_msg_buf] + NLEN_FIELD_SIZE \in Nat
    BY <2>1 DEF NLEN_FIELD_SIZE
  <2>3. flash_buf_len' \in 0 .. UINT8_MAX
    BY <1>13, <2>2 DEF SetLength, UINT8_MAX
  <2> QED  BY <1>13, <2>3 DEF SetLength, TypeOK
<1>14. CASE CopyHead
  BY <1>14 DEF CopyHead, TypeOK
<1>15. CASE CopyTail
  BY <1>15 DEF CopyTail, TypeOK
<1>16. CASE Publish
  BY <1>16 DEF Publish, TypeOK
<1>17. CASE GiveSem
  BY <1>17 DEF GiveSem, TypeOK
<1>18. CASE Restart
  <2>1. 0 \in 0 .. UINT8_MAX
    BY DEF UINT8_MAX
  <2>2. TypeOK'
    BY <1>18, <2>1 DEF Restart, TypeOK
  <2> QED  BY <1>18, <2>2 DEF Restart
<1>19. CASE UNCHANGED vars
  BY <1>19 DEF vars, TypeOK
<1> QED
  BY <1>1, <1>2, <1>3, <1>4, <1>5, <1>6, <1>7, <1>8, <1>9, <1>10, <1>11, <1>12,
     <1>13, <1>14, <1>15, <1>16, <1>17, <1>18, <1>19 DEF Next, Main, Callback

\* The two lemmas as one temporal fact.
LEMMA AlwaysSafe == Spec => []SafeInv
  BY InitSafe, StepSafe, PTL DEF Spec

\* Every variable keeps to its set, the uint8_t length for messages of any
\* length included (main.c:54).
THEOREM TypeCorrect == Spec => []TypeOK
<1>1. SafeInv => TypeOK
  BY DEF SafeInv
<1> QED  BY <1>1, AlwaysSafe, PTL

\* The callback and the main thread are never in the buffer together: the
\* flags, not the semaphore, keep them apart (main.c:58, main.c:205).
THEOREM BufferIsExclusive == Spec => []BufferExclusive
<1>1. SafeInv => BufferExclusive
  BY DEF SafeInv, HandOff, Filling, BufferExclusive
<1> QED  BY <1>1, AlwaysSafe, PTL

\* A prepared buffer has exactly one wakeup on its way, and every wakeup finds
\* a prepared buffer (main.c:65, main.c:204).
THEOREM WakeupsMatchBuffers == Spec => []WakeupMatchesBuffer
<1>1. SafeInv => WakeupMatchesBuffer
  BY DEF SafeInv
<1> QED  BY <1>1, AlwaysSafe, PTL
-----------------------------------------------------------------------------
(* FlashSlot.  The mailbox is only whole when no length wraps.              *)

Fits == \A m \in Msg : Length[m] + NLEN_FIELD_SIZE <= UINT8_MAX

Complete(m) == /\ m \in Msg \ Command
               /\ flash_buf_len = Length[m] + NLEN_FIELD_SIZE

\* What the buffer holds at each moment.
Filled ==
    /\ nfc \in {"head", "tail", "publish"} => Complete(ndef_msg_buf)
    /\ nfc \in {"tail", "publish"} => flash_buf.head = ndef_msg_buf
    /\ nfc = "publish" => flash_buf.tail = ndef_msg_buf
    /\ op_flags = "PREP_FINISHED" \/ main \in {"head", "tail"} =>
          Complete(flash_buf.head) /\ flash_buf.tail = flash_buf.head
    /\ main = "tail" =>
          writing.head = flash_buf.head /\ writing.len = flash_buf_len

SlotInv == SafeInv /\ Filled

\* A length that fits is kept as it is.
LEMMA LengthKept ==
    ASSUME Fits, NEW m \in Msg
    PROVE  (Length[m] + NLEN_FIELD_SIZE) % (UINT8_MAX + 1) = Length[m] + NLEN_FIELD_SIZE
<1>1. Length[m] + NLEN_FIELD_SIZE \in 0 .. UINT8_MAX
  BY MessageAssumption DEF Fits, NLEN_FIELD_SIZE, UINT8_MAX
<1> QED  BY <1>1 DEF UINT8_MAX

\* The buffer is filled front to back from the message that was announced, and
\* read as it was filled.
LEMMA StepFilled == ASSUME Fits, SlotInv, [Next]_vars PROVE Filled'
<1> USE DEF SlotInv, SafeInv, HandOff, Filling, WakeupMatchesBuffer, Filled, Complete,
        flashVars
<1>1. CASE Load \/ Restore \/ Emulate \/ Initialised \/ Fail
  BY <1>1 DEF Load, Restore, Emulate, Initialised, Fail
<1>2. CASE TakeSem \/ StartWrite
  BY <1>2 DEF TakeSem, StartWrite
<1>3. CASE ReadHead
  BY <1>3 DEF ReadHead
<1>4. CASE WriteRecord \/ FinishWrite
  BY <1>4 DEF WriteRecord, FinishWrite
<1>5. ASSUME NEW m \in Msg, Updated(m) PROVE Filled'
  BY <1>5 DEF Updated
<1>6. CASE Prepare
  BY <1>6 DEF Prepare
<1>7. CASE SetLength
  BY <1>7, LengthKept DEF SetLength
<1>8. CASE CopyHead
  BY <1>8 DEF CopyHead, TypeOK
<1>9. CASE CopyTail
  BY <1>9 DEF CopyTail, TypeOK
<1>10. CASE Publish \/ GiveSem
  BY <1>10 DEF Publish, GiveSem
<1>11. CASE Restart
  BY <1>11 DEF Restart
<1>12. CASE UNCHANGED vars
  BY <1>12 DEF vars
<1> QED
  BY <1>1, <1>2, <1>3, <1>4, <1>5, <1>6, <1>7, <1>8, <1>9, <1>10, <1>11, <1>12
     DEF Next, Main, Callback

\* A record written from a complete buffer loads as the message it came from.
LEMMA WholeRecord ==
    ASSUME SlotInv, main = "tail"
    PROVE  /\ flash_buf.head \in Msg \ Command
           /\ Content(Written(writing.head, flash_buf.tail, writing.len)) = flash_buf.head
<1>1. Complete(flash_buf.head) /\ flash_buf.tail = flash_buf.head
  BY DEF SlotInv, Filled
<1>2. writing.head = flash_buf.head /\ writing.len = Length[flash_buf.head] + NLEN_FIELD_SIZE
  BY <1>1 DEF SlotInv, Filled, Complete
<1>3. writing.len # 0 /\ writing.len \in Nat
  BY <1>1, <1>2, MessageAssumption DEF Complete, NLEN_FIELD_SIZE
<1>4. Record(writing.head, flash_buf.tail, writing.len) \in [head : Half, tail : Half, len : Nat]
  BY <1>1, <1>2, <1>3 DEF Record, Half, Complete
<1> QED
  BY <1>1, <1>2, <1>3, <1>4, NoRecordAssumption DEF Written, Content, Record, Complete

\* The initial states map to initial states.
LEMMA InitSlot == Init => Slot!Init
<1>1. Init => op_flags = "FINISHED" /\ main = "load" /\ flash \in {NoRecord, DefaultRecord}
  BY DEF Init
<1>2. Content(DefaultRecord) \in {DefaultMsg, NoRecord}
  BY DEF Content, DefaultRecord, Record
<1>3. Content(NoRecord) = NoRecord
  BY DEF Content
<1> QED  BY <1>1, <1>2, <1>3 DEF Slot!Init, pendingMsg, storedMsg

\* Every step maps to a step of the mailbox or to none: publishing accepts,
\* the write stores or drops, a restart drops, start-up may store the default.
LEMMA StepSlot ==
    ASSUME SlotInv, [Next]_vars
    PROVE  [Slot!Next]_<<pendingMsg, storedMsg>>
<1> USE DEF SlotInv, SafeInv, HandOff, Filling, WakeupMatchesBuffer,
        flashVars, pendingMsg, storedMsg, Slot!Next
<1>1. CASE Load \/ Restore
  <2>1. pendingMsg = NoRecord /\ pendingMsg' = NoRecord
    BY <1>1 DEF Load, Restore
  <2>2. flash' = flash \/ flash' = DefaultRecord
    BY <1>1 DEF Load, Restore
  <2>3. storedMsg' \in {storedMsg, DefaultMsg}
    BY <2>2, RecordTyped, NoRecordAssumption DEF Content, DefaultRecord, Record
  <2> QED  BY <2>1, <2>3 DEF Slot!Default
<1>2. CASE Emulate \/ Initialised \/ Fail \/ TakeSem \/ StartWrite \/ ReadHead \/ FinishWrite
  BY <1>2 DEF Emulate, Initialised, Fail, TakeSem, StartWrite, ReadHead, FinishWrite
<1>3. CASE WriteRecord
  <2>1. pendingMsg = flash_buf.head /\ pendingMsg' = NoRecord /\ main = "tail"
    BY <1>3 DEF WriteRecord
  <2>2. flash_buf.head # NoRecord
    BY <2>1, WholeRecord, MessageAssumption
  <2>3. \/ flash' = Written(writing.head, flash_buf.tail, writing.len)
        \/ flash' = flash
    BY <1>3 DEF WriteRecord
  <2>4. storedMsg' = flash_buf.head \/ storedMsg' = storedMsg
    BY <2>1, <2>3, WholeRecord
  <2> QED  BY <2>1, <2>2, <2>4 DEF Slot!Store, Slot!Drop
<1>4. ASSUME NEW m \in Msg, Updated(m) PROVE UNCHANGED <<pendingMsg, storedMsg>>
  BY <1>4 DEF Updated
<1>5. CASE Publish
  <2>1. /\ pendingMsg = NoRecord /\ pendingMsg' = flash_buf.head
        /\ storedMsg' = storedMsg
    BY <1>5 DEF Publish
  <2>2. flash_buf.head \in Msg \ Command
    BY <1>5 DEF Publish, Filled
  <2> QED  BY <2>1, <2>2 DEF Slot!Accept
<1>6. CASE Prepare \/ SetLength \/ CopyHead \/ CopyTail \/ GiveSem
  BY <1>6 DEF Prepare, SetLength, CopyHead, CopyTail, GiveSem
<1>7. CASE Restart
  BY <1>7 DEF Restart, Slot!Drop
<1>8. CASE UNCHANGED vars
  BY <1>8 DEF vars
<1> QED
  BY <1>1, <1>2, <1>3, <1>4, <1>5, <1>6, <1>7, <1>8 DEF Next, Main, Callback

\* The pipeline of main.c is a one-place mailbox in front of a record, and
\* what a restart finds is always a whole message that was written as such,
\* never a command: for every set of messages whose length with the NLEN field
\* fits into flash_buf_len (main.c:61, main.c:203).
THEOREM PipelineIsSlot == ASSUME Fits PROVE Spec => ImplementsSlot
<1>1. Init => SlotInv
  <2>1. Init => Filled
    BY DEF Init, Filled
  <2> QED  BY <2>1, InitSafe DEF SlotInv
<1>2. SlotInv /\ [Next]_vars => SlotInv'
  BY StepSafe, StepFilled DEF SlotInv
<1>3. SlotInv /\ [Next]_vars => [Slot!Next]_<<pendingMsg, storedMsg>>
  BY StepSlot
<1> QED
  BY <1>1, <1>2, <1>3, InitSlot, PTL DEF Spec, ImplementsSlot, Slot!Spec
=============================================================================
