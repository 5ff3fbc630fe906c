----------------------------- MODULE NdefFlash -----------------------------
(* main.c and ndef_file_m.c: the NDEF message of the tag and the record that*)
(* keeps it over a restart.  The NFC callback copies an updated message to  *)
(* flash_buf, the main thread writes it to the flash; op_flags and a binary *)
(* semaphore hand the buffer from one to the other.  Every atomic operation,*)
(* and each half of every copy, is a step of its own.  A buffer's content   *)
(* is the pair of the messages its two halves come from.                    *)
EXTENDS Integers

CONSTANTS Msg,          \* messages a reader may write
          Command,      \* those app_config_handle_ndef() answers
          Length,       \* length of each message, NLEN field not counted
          DefaultMsg,   \* ndef_file_default_message()
          Response,     \* the answer that replaces a command
          Damaged,      \* what a record cut short loads as
          NoRecord

ASSUME MessageAssumption ==
    /\ Command \subseteq Msg
    /\ Length \in [Msg \cup {DefaultMsg} -> Nat]
    /\ NoRecord \notin Msg \cup {DefaultMsg, Response, Damaged}
    /\ Damaged \notin Msg \cup {DefaultMsg}

VARIABLES ndef_msg_buf,   \* the tag's memory, which readers see
          op_flags,
          flash_buf, flash_buf_len,
          nfc_write_sem,
          flash,          \* the record: [head, tail, len], or NoRecord
          main,           \* where the main thread is
          writing,        \* what ndef_file_update() has read: [head, len]
          nfc,            \* where the NFC callback is
          sensing         \* nfc_t4t_emulation_start() has run

flashVars == <<flash_buf, flash_buf_len, flash, writing>>
vars == <<ndef_msg_buf, op_flags, flashVars, nfc_write_sem, main, nfc, sensing>>

NLEN_FIELD_SIZE == 2
UINT8_MAX == 255
Half == Msg \cup {DefaultMsg, Damaged}
ASSUME NoRecordAssumption == NoRecord \notin [head : Half, tail : Half, len : Nat]

Record(head, tail, len) == [head |-> head, tail |-> tail, len |-> len]

\* What nvs_read() brings back: a message only if the record is all of it.
Content(r) ==
    IF r = NoRecord THEN NoRecord
    ELSE IF r.head = r.tail /\ r.len = Length[r.head] + NLEN_FIELD_SIZE
         THEN r.head ELSE Damaged

\* nvs_write(): writing no bytes deletes the record.
Written(head, tail, len) == IF len = 0 THEN NoRecord ELSE Record(head, tail, len)

DefaultRecord ==
    Record(DefaultMsg, DefaultMsg, Length[DefaultMsg] + NLEN_FIELD_SIZE)
-----------------------------------------------------------------------------
(* main(): start-up.                                                        *)

\* Mutation: a record that is not there is loaded all the same.
Load_missing_record ==
    /\ main = "load"
    /\ ndef_msg_buf' = Content(flash)
    /\ main' = "button"
    /\ UNCHANGED <<op_flags, flashVars, nfc_write_sem, nfc, sensing>>

\* ndef_file_setup(), ndef_file_load(): the record, or the default message,
\* which is then stored.
Load ==
    /\ main = "load"
    /\ IF flash # NoRecord
       THEN ndef_msg_buf' = Content(flash) /\ UNCHANGED flash
       ELSE ndef_msg_buf' = DefaultMsg /\ flash' = DefaultRecord
    /\ main' = "button"
    /\ UNCHANGED <<op_flags, flash_buf, flash_buf_len, nfc_write_sem, writing, nfc, sensing>>

\* ndef_restore_default(), if the button is held.
Restore ==
    /\ main = "button"
    /\ \/ ndef_msg_buf' = DefaultMsg /\ flash' = DefaultRecord
       \/ UNCHANGED <<ndef_msg_buf, flash>>
    /\ main' = "emulate"
    /\ UNCHANGED <<op_flags, flash_buf, flash_buf_len, nfc_write_sem, writing, nfc, sensing>>

\* From here on the callback may run, before the rest of the start-up.
Emulate ==
    /\ main = "emulate"
    /\ sensing' = TRUE
    /\ main' = "init"
    /\ UNCHANGED <<ndef_msg_buf, op_flags, flashVars, nfc_write_sem, nfc>>

\* app_auth_init(), app_fields_init(), ble_uart_init().
Initialised ==
    /\ main = "init"
    /\ main' = "take"
    /\ UNCHANGED <<ndef_msg_buf, op_flags, flashVars, nfc_write_sem, nfc, sensing>>

\* The label fail: main() returns; an emulation already started goes on.
Fail ==
    /\ main \in {"load", "button", "emulate", "init"}
    /\ main' = "returned"
    /\ UNCHANGED <<ndef_msg_buf, op_flags, flashVars, nfc_write_sem, nfc, sensing>>
-----------------------------------------------------------------------------
(* main(): the loop.                                                        *)

\* Mutation: the semaphore is not waited for.
TakeSem_no_wait ==
    /\ main = "take"
    /\ nfc_write_sem' = 0
    /\ main' = "cas"
    /\ UNCHANGED <<ndef_msg_buf, op_flags, flashVars, nfc, sensing>>

TakeSem ==
    /\ main = "take"
    /\ nfc_write_sem = 1
    /\ nfc_write_sem' = 0
    /\ main' = "cas"
    /\ UNCHANGED <<ndef_msg_buf, op_flags, flashVars, nfc, sensing>>

StartWrite ==
    /\ main = "cas"
    /\ IF op_flags = "PREP_FINISHED"
       THEN op_flags' = "WRITE_STARTED" /\ main' = "head"
       ELSE main' = "take" /\ UNCHANGED op_flags
    /\ UNCHANGED <<ndef_msg_buf, flashVars, nfc_write_sem, nfc, sensing>>

\* ndef_file_update() reads the buffer over some time; the new record takes
\* effect with the entry that is written last, or not at all.
ReadHead ==
    /\ main = "head"
    /\ writing' = [head |-> flash_buf.head, len |-> flash_buf_len]
    /\ main' = "tail"
    /\ UNCHANGED <<ndef_msg_buf, op_flags, flash_buf, flash_buf_len, nfc_write_sem,
                   flash, nfc, sensing>>

WriteRecord ==
    /\ main = "tail"
    /\ \/ /\ flash' = Written(writing.head, flash_buf.tail, writing.len)
          /\ main' = "flashed"
       \/ UNCHANGED flash /\ main' = "not_flashed"
    /\ UNCHANGED <<ndef_msg_buf, op_flags, flash_buf, flash_buf_len, nfc_write_sem,
                   writing, nfc, sensing>>

\* Mutation: the buffer is not released after an error.
FinishWrite_not_on_error ==
    /\ main \in {"flashed", "not_flashed"}
    /\ op_flags' = IF main = "flashed" THEN "FINISHED" ELSE op_flags
    /\ main' = "take"
    /\ UNCHANGED <<ndef_msg_buf, flashVars, nfc_write_sem, nfc, sensing>>

FinishWrite ==
    /\ main \in {"flashed", "not_flashed"}
    /\ op_flags' = "FINISHED"
    /\ main' = "take"
    /\ UNCHANGED <<ndef_msg_buf, flashVars, nfc_write_sem, nfc, sensing>>

Main == \/ Load \/ Restore \/ Emulate \/ Initialised \/ Fail
        \/ TakeSem \/ StartWrite \/ ReadHead \/ WriteRecord \/ FinishWrite
-----------------------------------------------------------------------------
(* nfc_callback(), NFC_T4T_EVENT_NDEF_UPDATED, and flash_buffer_prepare().  *)
(* The tag library runs the callback before it serves the reader again.     *)

Updated(m) ==
    /\ sensing /\ nfc = "idle"
    /\ ndef_msg_buf' = IF m \in Command THEN Response ELSE m
    /\ nfc' = IF m \in Command \/ Length[m] = 0 THEN "idle" ELSE "prepare"
    /\ UNCHANGED <<op_flags, flashVars, nfc_write_sem, main, sensing>>

\* Mutation: the flags are set without a comparison.
Prepare_unconditional ==
    /\ nfc = "prepare"
    /\ op_flags' = "PREP_STARTED" /\ nfc' = "length"
    /\ UNCHANGED <<ndef_msg_buf, flashVars, nfc_write_sem, main, sensing>>

\* The compare-and-swap; when it fails the update is discarded.
Prepare ==
    /\ nfc = "prepare"
    /\ IF op_flags = "FINISHED"
       THEN op_flags' = "PREP_STARTED" /\ nfc' = "length"
       ELSE nfc' = "idle" /\ UNCHANGED op_flags
    /\ UNCHANGED <<ndef_msg_buf, flashVars, nfc_write_sem, main, sensing>>

\* Mutation: the length leaves the NLEN field out.
SetLength_without_NLEN ==
    /\ nfc = "length"
    /\ flash_buf_len' = Length[ndef_msg_buf] % (UINT8_MAX + 1)
    /\ nfc' = "head"
    /\ UNCHANGED <<ndef_msg_buf, op_flags, flash_buf, nfc_write_sem, flash, main, writing,
                   sensing>>

\* flash_buf_len is a uint8_t.
SetLength ==
    /\ nfc = "length"
    /\ flash_buf_len' = (Length[ndef_msg_buf] + NLEN_FIELD_SIZE) % (UINT8_MAX + 1)
    /\ nfc' = "head"
    /\ UNCHANGED <<ndef_msg_buf, op_flags, flash_buf, nfc_write_sem, flash, main, writing,
                   sensing>>

CopyHead ==
    /\ nfc = "head"
    /\ flash_buf' = [flash_buf EXCEPT !.head = ndef_msg_buf]
    /\ nfc' = "tail"
    /\ UNCHANGED <<ndef_msg_buf, op_flags, flash_buf_len, nfc_write_sem, flash, main, writing,
                   sensing>>

CopyTail ==
    /\ nfc = "tail"
    /\ flash_buf' = [flash_buf EXCEPT !.tail = ndef_msg_buf]
    /\ nfc' = "publish"
    /\ UNCHANGED <<ndef_msg_buf, op_flags, flash_buf_len, nfc_write_sem, flash, main, writing,
                   sensing>>

Publish ==
    /\ nfc = "publish"
    /\ op_flags' = "PREP_FINISHED"
    /\ nfc' = "give"
    /\ UNCHANGED <<ndef_msg_buf, flashVars, nfc_write_sem, main, sensing>>

\* Mutation: the main thread is not woken.
GiveSem_forgotten ==
    /\ nfc = "give"
    /\ nfc' = "idle"
    /\ UNCHANGED <<ndef_msg_buf, op_flags, flashVars, nfc_write_sem, main, sensing>>

GiveSem ==
    /\ nfc = "give"
    /\ nfc_write_sem' = 1
    /\ nfc' = "idle"
    /\ UNCHANGED <<ndef_msg_buf, op_flags, flashVars, main, sensing>>

Callback == Prepare \/ SetLength \/ CopyHead \/ CopyTail \/ Publish \/ GiveSem
-----------------------------------------------------------------------------
\* Power loss or sys_reboot(), at any moment: only the flash survives.
Restart ==
    /\ ndef_msg_buf' = Damaged
    /\ op_flags' = "FINISHED"
    /\ flash_buf' = [head |-> Damaged, tail |-> Damaged] /\ flash_buf_len' = 0
    /\ writing' = [head |-> Damaged, len |-> 0]
    /\ nfc_write_sem' = 0
    /\ main' = "load" /\ nfc' = "idle" /\ sensing' = FALSE
    /\ UNCHANGED flash

\* A new device, or one that has stored a message before.
Init ==
    /\ ndef_msg_buf = Damaged
    /\ op_flags = "FINISHED"
    /\ flash_buf = [head |-> Damaged, tail |-> Damaged] /\ flash_buf_len = 0
    /\ writing = [head |-> Damaged, len |-> 0]
    /\ nfc_write_sem = 0
    /\ main = "load" /\ nfc = "idle" /\ sensing = FALSE
    /\ flash \in {NoRecord, DefaultRecord}

Next == Main \/ (\E m \in Msg : Updated(m)) \/ Callback \/ Restart

\* The scheduler runs a thread that is ready: the callback preempts, and the
\* main thread runs when the event-driven contexts have nothing left to do.
Fairness == WF_vars(Main) /\ WF_vars(Callback)

Spec == Init /\ [][Next]_vars /\ Fairness
-----------------------------------------------------------------------------
(* Properties.                                                              *)

TypeOK ==
    /\ ndef_msg_buf \in Msg \cup {DefaultMsg, Response, Damaged}
    /\ op_flags \in {"FINISHED", "PREP_STARTED", "PREP_FINISHED", "WRITE_STARTED"}
    /\ flash_buf \in [head : Msg \cup {Damaged}, tail : Msg \cup {Damaged}]
    /\ flash_buf_len \in 0 .. UINT8_MAX
    /\ writing \in [head : Msg \cup {Damaged}, len : 0 .. UINT8_MAX]
    /\ flash \in {NoRecord} \cup [head : Half, tail : Half, len : Nat]
    /\ nfc_write_sem \in {0, 1}
    /\ main \in {"load", "button", "emulate", "init", "returned", "take", "cas", "head",
                "tail", "flashed", "not_flashed"}
    /\ nfc \in {"idle", "prepare", "length", "head", "tail", "publish", "give"}
    /\ sensing \in BOOLEAN

\* The callback never fills the buffer while the main thread reads it, in any
\* interleaving of the two and of restarts (main.c:58, main.c:205).
BufferExclusive ==
    ~(nfc \in {"length", "head", "tail", "publish"} /\ main \in {"head", "tail"})

\* No lost wakeup and no spurious one.  A prepared buffer always has exactly
\* one thing on its way that makes the main thread look: the semaphore about
\* to be given, given, or just taken; and a main thread that was woken finds
\* a prepared buffer (main.c:65, main.c:204).
WakeupMatchesBuffer ==
    /\ op_flags = "PREP_FINISHED" =>
          \/ nfc = "give" /\ nfc_write_sem = 0 /\ main # "cas"
          \/ nfc # "give" /\ nfc_write_sem = 1 /\ main # "cas"
          \/ nfc # "give" /\ nfc_write_sem = 0 /\ main = "cas"
    /\ nfc_write_sem = 1 \/ main = "cas" => op_flags = "PREP_FINISHED"

\* The buffer becomes free again whatever the flash answers, unless main()
\* has returned: the pipeline never wedges (main.c:211).
PipelineDrains ==
    op_flags # "FINISHED" ~> op_flags = "FINISHED" \/ main = "returned"

\* The pipeline is a one-place mailbox in front of the record (FlashSlot); no
\* command is ever stored, only messages that were written whole.
pendingMsg == IF op_flags = "PREP_FINISHED" \/ main \in {"head", "tail"}
              THEN flash_buf.head ELSE NoRecord
storedMsg == Content(flash)

Slot == INSTANCE FlashSlot WITH
    Msg <- (Msg \ Command) \cup {DefaultMsg}, NoMsg <- NoRecord,
    slot <- pendingMsg, stored <- storedMsg

\* main.c implements FlashSlot (main.c:58, main.c:203).
ImplementsSlot == Slot!Spec

\* A message the callback has taken is what a restart would find, unless the
\* power goes first, start-up failed, or the write is reported as failed
\* (main.c:64, main.c:206).
AcceptedIsStored ==
    \A m \in Msg : (op_flags = "PREP_FINISHED" /\ flash_buf.head = m) ~>
                   (storedMsg = m \/ main \in {"load", "returned", "not_flashed"})

\* README.rst:34: "Any changes to the NDEF message update the NDEF message file
\* stored in flash memory".
UpdatesAreStored ==
    \A m \in Msg : (nfc = "prepare" /\ ndef_msg_buf = m) ~>
                   (storedMsg = m \/ main \in {"load", "returned", "not_flashed"})
=============================================================================
