# Formal models of the iot_range firmware

TLA+ models of the firmware in this repository (a Zephyr application for Nordic
boards): an NFC Type 4 tag and a Bluetooth LE serial service through which a
phone reads and configures a range sensor. The modules are checked with TLC on
small instances; the theorems are proved with TLAPS for every value of the
constants. File names below are relative to `src/`, except `README.rst`.

## The system

| Component | State | Operations | Interacts with |
|---|---|---|---|
| Authentication, `app_auth.c` | password hash, one nonce and its valid flag per channel, BLE session flag, end of the NFC session | NONCE, TOKEN, CHANGE_PWD, LOCK; session check; disconnect; reset | called by the protocol, the OTA commands and the BLE disconnect |
| Field registry, `app_fields.c` | sensor and configuration values, device state, factory flag, time | initialise, validate, set, get, mark first write | called by the protocol and, without validation, by the shell |
| Command protocol, `app_protocol.c` | none of its own | READ, WRITE, AUTH, ACTION | called by the NFC callback, the BLE receive callback and the shell |
| TLV codec, `app_tlv.c` | none | encode, decode, validate | protocol |
| Entry points, `app_config.c` | OTA transfer (RAM) | NDEF record in and out, BLE command, OTA START, DATA, END | NFC callback, BLE, shell |
| NDEF file, `ndef_file_m.c` | one record in NVS or ZMS | load, default, restore, update | main thread |
| Tag and flash pipeline, `main.c` | tag buffer, flash buffer and its length, `op_flags`, a binary semaphore | NFC callback, start-up, write loop | tag library (external), NDEF file |
| BLE link, `ble_uart.c` | connection pointers, subscription, pending answer, retries | connection, pairing and NUS callbacks, retry and advertising work, buttons | Bluetooth stack (external), entry points |
| Shell, `shell_cmd.c` | none | config get and set, ota info and dump | registry, protocol |

What is hard about it: two command channels and a console share the registry and
run the same handlers; the NFC session ends by the clock but is forgotten lazily;
the callback of the tag and the main thread hand one buffer back and forth with
an atomic word and a semaphore; the power may go at any moment; an answer over
BLE is sent later, by a timer or by a subscription, over a pointer that the next
connection reuses; and references on the connection are taken and released by
callbacks that come in many orders. `PROJECT.json` lists each hazard at its line,
with the properties that are about it.

What makes each component correct:

- authentication: a nonce serves one answer; only a right, recent answer on the
  same channel opens a channel; the channels do not influence each other.
- registry and protocol: a protected command without a session changes nothing;
  a write applies all of its fields or none; the factory window serves one write;
  the configuration stays in range.
- pipeline: one user of the buffer at a time, no lost or spurious wakeup, messages
  stored whole, and the pipeline always becomes free again.
- codecs and entry points: a frame means to the device what its sender meant; an
  answer is exactly what was asked for, and readable on the tag.
- OTA transfer: what has arrived is in its place, what counts as complete is
  complete, and what is done stays as it is.
- BLE link: an answer goes to the one who asked, once, in order, and is sent or
  given up in the end; references match pointers; advertising resumes.

## The modules

| Module | Models |
|---|---|
| `AppAuth` | `app_auth.c`. One action per outcome of a subcommand. SHA-256 and HMAC are free constructors: a token is the pair of hash and nonce it was made from. `sys_rand_get` yields a nonce that has not occurred before. |
| `AppFields` | `app_fields.c`. `g` holds the variable values; a value on the wire is the sequence of integers its bytes decode to. |
| `AppProtocol` | `process_app_payload` and what else touches the same state: BLE disconnect, shell, clock, reboot. Extends the two above. Requests come from the constants `ReadReqs` and `WriteReqs`. |
| `AppFrames` | The same commands 0x01 and 0x02 byte by byte: the NDEF record and its parser (`app_config.c`), the handlers, the TLV codec (`app_tlv.c`), the conversions of `app_fields.c`. Extends `AppProtocol` and takes its other commands from it. Its loops are `Loop`s of `Loops`, since the prover does without recursive operators. A write is granted in one step, then assigns one field per step. |
| `AppPeer` | The same commands as a peer sees them, written down apart from the device's code: which requests a frame carries, which verdict is due to them (without the widths of the device's counters), how an answer is read, and the properties that compare the two sides. |
| `Loops` | The one form all loops of the codecs have: a body, a number of iterations, a state. |
| `ConfigGate` | The abstract promise of the three: a configuration behind a gate that opens, per channel, to an answered challenge, and once after a reset or a restart. Every step names the party that takes it (`actor`, mapped to the channel of the last reply): only the console (`Override`) configures without a session, and it opens nothing. |
| `FlashSlot` | The abstract promise of the pipeline: a one-place mailbox in front of a record. |
| `NdefFlash` | `main.c` and `ndef_file_m.c`, with a step for every atomic operation and every half of a copy. `main` and `nfc` say where the two contexts are. |
| `Boot` | `main.c:184-200` over `AppProtocol`: which commands can arrive before which initialisation. |
| `OtaTransfer` | The OTA commands of `app_config_handle_ble`, with the app's image, the link's packet size, and the packets that have arrived. |
| `BleUart` | `ble_uart.c`, one action per callback and work item. |
| `MCAppProtocol`, `MCAppFrames`, `MCBoot`, `MCNdefFlash`, `MCOtaTransfer` | Instances for TLC: requests, messages, images. `MCAppFrames` has the encoder that makes frames and records from requests. |
| `AppProtocolProofs`, `GateProofs`, `NdefFlashProofs`, `BleUartProofs`, `OtaTransferProofs` | Theorems and proofs about `AppProtocol`, its refinement of `ConfigGate`, and the other components. |
| `LoopProofs`, `CodecProofs`, `FramesProofs` | Lemmas about loops; about numbers, fields, frames and answers as bytes; theorems about `AppFrames`. |

How they compose: `AppAuth` and `AppFields` are the two parts of `AppProtocol`,
which implements `ConfigGate`; `AppFrames` implements `AppProtocol`; `Boot` puts
`AppProtocol` into the start-up of `main.c`; `NdefFlash` implements `FlashSlot`.
`BleUart` and `OtaTransfer` stand alone: the one knows a command only as a
request that is answered, the other the session only as open or not.

Each operation keeps the name it has in C where it is one operation. A handler
with several outcomes is split by outcome (`Write`, `WriteInvalid`,
`WriteDenied`). In `AppProtocol` the phases of a write, including the change of
the device state at the end, are one action. `last`, `proved`, `spent` in `AppAuth` and
`requests`, `link`, `asker`, `sent` in `BleUart` are history variables. No guard
reads them, except that `requests` and `link` are compared with their bounds.

Operators whose comment starts with "Mutation:" are not part of the model. Each is
the operator after it with a mistake put in: a dropped guard, a missing reset, a
wrong unit. `PROJECT.json` pairs each property with a mutation that violates it,
as evidence that the property can fail.

### Granularity and the environment

- `AppProtocol` takes a command as one step. The callbacks of NFC and BLE are
  taken to run in cooperative contexts and to their end, so no command of a peer
  starts in the middle of another; but the clock goes on and the power may fail. `AppFrames`
  has these: the refinement maps the registry to the one with the remaining
  assignments done, from the step that grants the write.
- The shell runs in a preemptible thread. Its setters store one aligned value each
  and are atomic; `config get` only prints, and sets the time. So shell steps
  between commands are all that can be told apart in the state.
- A member of `NdefMsgs` is the content of the tag's whole message area after a
  write: the parser compares lengths with the size of the area and not with NLEN, so
  a record that is shorter than it says goes on into what an earlier message left
  there. The sum of the lengths is one of 32 bits. A length of 2^32 - n, for a small
  n, makes it wrap and passes the check; then `print_frame` (`app_config.c:248`) reads
  as many bytes, which no memory has, before the command is served. The model has
  this as a state of its own, `fault`, that only a reboot leaves.
- In `OtaTransfer` a packet arrives or not, at any time and up to `MaxRepeats` times;
  the link's packet size is chosen at START. Answers that are lost are `BleUart`'s.
- In `BleUart` the callbacks and work items run on cooperative threads of the
  Bluetooth stack and the system work queue, and none of them yields between its
  accesses to the state modelled, so each is one action. `bt_nus_send` may fail
  for any reason and fails without a subscription. The stack recycles the
  connection object when nobody holds a reference. Pressing both buttons passes
  NULL to `bt_conn_unref`, which asserts (`CONFIG_ASSERT=y`) and stops the board:
  `panicked`.
- In `NdefFlash` the tag library runs the callback to its end before it serves
  the reader again. A record in NVS or ZMS appears with the entry written last,
  whole or not at all, and writing zero bytes deletes it. `CONFIG_NDEF_FILE_SIZE`
  is at least 256. Whether a message is a command, and that its answer fits, is a
  constant of the instance (`Command`).
- RAM does not survive a restart. Nonces already issued do not come back.

## The runs

| Run | Question | Bounds, and why they are enough |
|---|---|---|
| `MCAuth` | Does the authentication hold over every order of commands, ticks, disconnects, shell writes and reboots, and does it implement `ConfigGate`? | 2 hashes (the default and another), 2 nonces so that both channels can have one or one channel two in a row, 3 points of time with a window of 1, so that a session can be open, at its last tick, and over; a valid and an invalid write. |
| `MCFields` | Do the handlers, byte by byte, implement `AppProtocol`; does a frame get the verdict due to the request it was made from; is the answer what was asked for, and readable on the tag; is what was written read back; is the configuration always in range, and does every entry keep the width of its variable? | 17 write and 8 read requests at the boundaries: repeated fields, limits of the location, negative values, wrong counts and lengths, values cut off, 16, 17 and 257 fields, 256 and 257 ids, 25 and 26 locations read; over BLE up to the 495 bytes of the largest packet, by NFC in short and long records, in records that are no command, in one that is shorter than it says, and in two whose lengths add up to 2^32 and to one less. `FrameMeansRequest` leaves out the writes that `MCCount` is about, and `AnswerReadable` the answers of 256 bytes, which `MCNdefAnswer` is about. One hash, one nonce, one tick: the session is the subject of `MCAuth`, and the tick is there to fall between two assignments of a write. The view drops `last`, which no guard and no invariant reads. |
| `MCOta` | Is the image put together in whatever order packets arrive, can a full count be trusted, does a finished transfer stay as it is? | A buffer of 5 bytes with packets of 2, so that, as with 32768 and 492, the end of the buffer is inside a packet; 3 packets, the range of the index, so that it wraps; three images, of which one fills the buffer, one is too long, and one is short; each packet up to twice. |
| `MCFlash` | Is the hand-over exclusive, free of lost wakeups, atomic for the record, and does it drain? | Two messages, one of 253 bytes (the longest that fits), and a command; two different messages are needed for a mixture, and a third adds nothing to a one-place buffer. |
| `MCUart` | Do answers go where they belong, settle, and does advertising resume? | 3 tries instead of 30, 3 requests, 3 links, 3 references: two of each show overtaking and reuse, the third allows a reuse after a reuse. |

`CHECK_DEADLOCK FALSE` in the `MCUart` runs: a board that has asserted does stop,
and so does the model when its bounds are used up.

Seven runs expect a violation. Each checks one statement that a comment or a
document makes, and its counterexample shows that the code does something else
(`findings` in `PROJECT.json`):

| Run | Statement | What the code does |
|---|---|---|
| `MCFlashLong` | `README.rst:34`: every change of the message is stored | 254 bytes wrap the 8-bit length to 0 and delete the record |
| `MCUartWaits` | `ble_uart.c:54`, `:328`: the answer waits for the subscription | it is dropped after the last try |
| `MCUartReprompt` | `ble_uart.c:175`: the disconnect completes | a second prompt leaks a reference and the device never advertises again |
| `MCOtaEnd` | `通信对接文档.md:77`: the device verifies the firmware at END | END is OK whatever has arrived |
| `MCCount` | `app_tlv.h:54`, `app_tlv.c:61`: a payload has as many fields as it declares | the count has 8 bits: a write of 257 fields that declares one is granted, and the first is assigned |
| `MCNdefAnswer` | `app_config.h:61`: a recognised command is replaced by its answer | an answer of 256 bytes has 0 as its length |
| `MCBoot` | `app_protocol.c:276`: the first write leaves the factory state | a write before `app_fields_init` is confirmed, then undone, and the window is open again |

Observed while modelling, with no run of its own: the shell's `config set mode`
stores modes that validation refuses (`app_fields.h:51` wants validation first); a
reset keeps the sensor values (`app_protocol.c:366` says all fields); `config get`
sets the time to 0 (`shell_cmd.c:62`); 17 fields of 3 bytes reach the write cache's
limit, which `app_protocol.c:219` takes for unreachable; a read of more than 255 ids
may be refused as too short (`app_protocol.c:107`); the length of a record may wrap
the sum (above); the parser looks for the type of a record behind its identifier
(`app_config.c:165`), where the NDEF format puts the payload, so a command with an
identifier is not recognised. The models contain all seven behaviours.

### Fairness

- `NdefFlash`: weak fairness of the main thread's step and of the callback's. Zephyr
  runs a ready thread when nothing of higher priority is ready; the callback runs
  in an event-driven context that preempts. Nothing is assumed of readers, of the
  flash succeeding, or of restarts staying away.
- `BleUart`: weak fairness of each work item that is due (the retry, advertising)
  and of the recycling of an unused connection object. Nothing is assumed of the
  peer, the user, or of sends succeeding: `AnswerArrives` is stated with the ways
  out the code has.
- The command protocol and the OTA transfer have no obligation to proceed, and no
  fairness: the peer may always stop.

## What is proved

For every value of the constants that satisfies their assumptions:

- `AppProtocolProofs`. The lemma `Steps` sorts all steps: six actions move the
  authentication state and the rest are quiet, that is, reply and at most forget
  an expired session. `TypeCorrect` then needs only that an assigned value is the
  decoded value of a valid field (`AcceptedTLVs`, `ApplyTyped`). `NonceJudgedOnce`:
  the property alone is not inductive, because a nonce could be issued twice; the
  invariant adds that everything spent or outstanding has been issued.
  `ChangesAreAuthenticated`: an open session must be tied to the proof that opened
  it, so the invariant says that a BLE session means a proof, and that an NFC
  deadline is the time of the proof plus the window. `WindowServesOneWrite` and
  `RefusalsAreHarmless` are proved step by step without a further invariant.
  `ConfigStaysInRange` assumes `ShellSets = {}`, since the shell may store anything: an
  accepted request has only validated values (`ApplyInRange`), and the last writer of
  the location is also that of the position derived from it (`LocationWriters`).
- `GateProofs`. Every step of the gate names its actor: a channel, which changes the
  configuration only with a session or in the factory window; the console, the only
  one that may override it; or neither. So a write that the handler should have
  refused has no counterpart, with the console present or not (`ConfigRefines`).
  `GateSteps` sorts the steps into those the gate knows and those that
  at most forget a session that is over, which the gate does not see because its
  sessions end by the clock (`SettledSessions`). The invariant of `ProtocolIsGate` adds
  to the types that nonces are no newer than the generator and an outstanding one is
  not 0, the gate's value for none; so a new challenge is one the gate has not seen.
  `ChannelsAreIndependent` follows step by step.
- `OtaTransferProofs`. `IInv` joins types with `ImageAssembled`, which is inductive with
  them: a packet writes exactly the cells whose index divides to it (`Division`,
  `PacketLength`), whole or, at the end of the buffer, not at all. `CountIsWhole`
  counts the stored bytes as the cardinality of a set (`Stored`): a packet that comes
  for the first time adds a disjoint interval of them (`PacketBytes`, `DataCounted`),
  and a subset of the image as large as the image is all of it. `Frozen` needs that a
  transfer that is done is not active, since only an active one takes packets.
- `LoopProofs`. `LoopSteps`: a `Loop` of n + 1 iterations is one of n and one more. The
  induction is over the number of iterations, written out from the well-ordering of
  the naturals (`Least`, `Induction`), as the library's induction theorems cannot be
  used here.
- `CodecProofs`, on bytes of any number. Two and four bytes are the number they
  stand for, negative ones included (`Written16`, `Written32`, `FourBytes`), by the
  uniqueness of digits in base 256. `FrameOffsets` and `WholeFrame` say that the
  decoder finds the n-th field where the peer put it, `BrokenFrame` that a frame cut
  off is refused whatever its counters wrap to. `WriteJudged` and `ReadJudged`: the
  status of a frame is that of the request it carries, counted as the device counts. `FieldsAnswered` and
  `ReadDecodes`: an answer is the fields asked for, to its last byte.
  `RecordReads`: an answer below 256 bytes is found behind its header.
- `FramesProofs`. `HeaderFits` and `PayloadIsBytes`: whatever lies in the message
  area, the parser answers a command of bytes of it, none, or the read beyond it.
  `FramesTyped` is the invariant of the rest: the cache holds validated
  fields only, and the registry keeps its widths; it is inductive because a
  validated field decodes to a value that fits what it assigns (`FieldStored`).
  From it follow `RepliesDecode`, `AnswersAreReadable`, `WritesReadBack` and, where
  nothing else writes the registry, `ConfigAlwaysInRange`. `FramesMeanRequests` compares
  the verdict of the device with the one that is due by the text of the protocol,
  where numbers do not wrap: they agree (`DueVerdicts`) but for reads of more than
  255 ids, which are refused, and the writes of `MCCount`, which it leaves out. It needs
  that the assignments left in the cache, done one by one, are those of the request
  done at once (`PendingStep`, `GrantedPending`). `FramesImplementProtocol` is the
  refinement of `AppProtocol`: a grant is the protocol's write; every assignment, the
  end of the write and the read beyond the area are stutters; between commands the mapping is the identity
  (`IdleIsSettled`), and clock and reboot are themselves, also in the middle of a write.
  Through it the theorems about `AppProtocol` hold of the bytes on the wire:
  `FramesUseNoncesOnce`, `FramesKeepPromises`, and with `ProtocolIsGate` also
  `FramesAreGate`, from NDEF records and BLE packets up to `ConfigGate`.
- `NdefFlashProofs`. `SafeInv` joins types, the wakeup property and `HandOff`,
  which says which context owns the buffer at each value of `op_flags`. Exclusion
  follows from `HandOff`. `PipelineIsSlot` proves the refinement of `FlashSlot`
  under `Fits` (every message fits the 8-bit length): the invariant `Filled` says
  how far the buffer has been filled with the announced message, and each step is
  mapped to a step of the mailbox or to a stutter. `MCFlashLong` shows why `Fits`
  is needed.
- `BleUartProofs`. `Inv` adds to the properties that the buffer is newer than all
  that was sent and was asked on the current link (`BufferIsNewest`); without it
  neither the order nor the address of a notification is inductive. `TryInv` treats
  one try once for its two callers.

Assumptions: those stated as `ASSUME` in the modules (the default hash is one of
the hashes, the window and the retry limit are positive, bounds are numbers,
requests have the widths their bytes allow, the values that stand for "no
record" and "damaged" are no messages, and, `FrameAssumption`, the message area has at
least 277 bytes, the longest header and type, and at most 65535, it and the packets
hold bytes, and every frame long enough for a read or a write carries one of the
requests). TLC evaluates them in the runs. `prj.conf` leaves the size of the file at
the SDK's default, 1024, of which 1022 are the message area. Given that area
`FrameAssumption` excludes no frame: the sets of requests are parameters, and a frame
that breaks off is one of a request that is not whole.
The theorems of `FramesProofs` assume `ShellFits`, that the console assigns values of
the width of the variable, as the typed setters of `app_fields.c` do;
`WritesReadBack` that the console does
not assign the entries that peers write; `ConfigAlwaysInRange` that there is no console.

Only model-checked: all liveness properties (`PipelineDrains`, `AcceptedIsStored`,
`AnswerIsSettled`, `AnswerArrives`, `AdvertisesAgain`), which are out of the prover's
reach; and the statements that the runs refute. Every other property of a run is the
statement of a theorem.

## Not modelled, and why

- SHA-256 and HMAC as algorithms, logging, LEDs, the wording of replies.
- Parsing of shell arguments; `ota info` and `ota dump`, which only read.
- What the device does after a read beyond the message area, up to the reboot.
- Times of 2^31 seconds or more are in the model and the proofs, but not in the runs:
  TLC's numbers do not hold them.
- What the flash pipeline stores when commands arrive during start-up: `NdefFlash`
  has the pipeline, `Boot` the commands, each without the other.
- Board files, Kconfig and build files have no behaviour.

## Plan

Done, in the order of importance: authentication with registry and protocol, the
flash pipeline, the BLE link; then the OTA transfer, the codecs and entry points
as a refinement of the protocol, start-up; and the theorems above.

What is left:

1. `Device`: `AppProtocol` and `BleUart` joined at the disconnect (a session belongs to
   a link, an answer to a session).
2. `NdefFlash` with the commands of `AppFrames` in place of the constant `Command`.
3. To prove: that every step of `Boot` after start-up is one of `AppProtocol`.
