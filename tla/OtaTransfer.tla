---------------------------- MODULE OtaTransfer ----------------------------
(* app_config.c: the firmware transfer of app_config_handle_ble().  The APP *)
(* announces an image (START), streams its packets without waiting for      *)
(* answers (DATA), and ends (END); the device copies each packet to the     *)
(* place its index says.  Packets may be lost, repeated and reordered, the  *)
(* link may drop, and the APP may resume or start anew.  The image, the     *)
(* packet size of the link and the packets that have arrived are the APP's. *)
EXTENDS Integers, Sequences

CONSTANTS Images,                   \* images the APP may send
          APP_CONFIG_OTA_BUF_SIZE,  \* bytes of g_ota.buf
          APP_CONFIG_OTA_PKT_DATA,  \* bytes the device takes a packet to have
          IDX_MOD,                  \* 2^16: the range of the packet index
          MaxRepeats                \* bound: times one packet arrives

ASSUME SizeAssumption == /\ APP_CONFIG_OTA_BUF_SIZE \in Nat
                         /\ APP_CONFIG_OTA_PKT_DATA \in Nat \ {0}
                         /\ IDX_MOD \in Nat \ {0}
                         /\ MaxRepeats \in Nat
ASSUME ImageAssumption == Images \subseteq Seq(Int)

VARIABLES active, done, total_size, next_idx, bytes_received, buf,  \* g_ota
          ble_unlocked,     \* the session app_auth_check_write("BLE") sees
          image, chunk,     \* the announced image, the link's packet size
          arrived,          \* how often each packet was taken since START
          last              \* the last command and its answer

ota == <<active, done, total_size, next_idx, bytes_received, buf>>
app == <<image, chunk, arrived>>
vars == <<ota, ble_unlocked, app, last>>

Cells == 0 .. APP_CONFIG_OTA_BUF_SIZE - 1
Index == 0 .. IDX_MOD - 1

\* Packet k of the image holds bytes k * chunk + 1 onwards; the last may be
\* short.
Packets == {k \in Index : k * chunk < Len(image)}
PktLen(k) == IF (k + 1) * chunk <= Len(image) THEN chunk
             ELSE Len(image) - k * chunk
Offset(k) == k * APP_CONFIG_OTA_PKT_DATA

Answer(cmd, status) == last' = [cmd |-> cmd, status |-> status]

Init ==
    /\ active = FALSE /\ done = FALSE
    /\ total_size = 0 /\ next_idx = 0 /\ bytes_received = 0
    /\ buf = [p \in Cells |-> 0]
    /\ ble_unlocked = FALSE
    /\ image = <<>> /\ chunk = APP_CONFIG_OTA_PKT_DATA
    /\ arrived = [k \in Index |-> 0]
    /\ last = [cmd |-> "NONE", status |-> "NONE"]
-----------------------------------------------------------------------------
\* The peer proves the password; it locks, fails a proof, or the link drops.
\* None of this touches the transfer.
Unlock == ble_unlocked' = TRUE /\ Answer("AUTH", "OK") /\ UNCHANGED <<ota, app>>
Drop == ble_unlocked' = FALSE /\ Answer("NONE", "NONE") /\ UNCHANGED <<ota, app>>

OtaDenied(cmd) ==
    /\ ~ble_unlocked
    /\ Answer(cmd, "AUTH_REQUIRED")
    /\ UNCHANGED <<ota, ble_unlocked, app>>

\* Everything in front of buf is cleared; buf keeps the bytes of the last
\* transfer.  A command without the size leaves total_size 0.
OtaStart(img, size, sized) ==
    /\ ble_unlocked
    /\ active' = TRUE /\ done' = FALSE
    /\ total_size' = IF sized THEN Len(img) ELSE 0
    /\ next_idx' = 0 /\ bytes_received' = 0
    /\ image' = img /\ chunk' = size
    /\ arrived' = [k \in Index |-> 0]
    /\ Answer("START", "OK")
    /\ UNCHANGED <<buf, ble_unlocked>>

\* Mutation: a packet that ends with the buffer is dropped.
Fits_strict(k) == Offset(k) + PktLen(k) < APP_CONFIG_OTA_BUF_SIZE

Fits(k) == Offset(k) + PktLen(k) <= APP_CONFIG_OTA_BUF_SIZE

Take(k) ==
    /\ ble_unlocked /\ active
    /\ k \in Packets /\ arrived[k] < MaxRepeats
    /\ arrived' = [arrived EXCEPT ![k] = @ + 1]
    /\ Answer("DATA", "NONE")
    /\ UNCHANGED <<active, done, total_size, ble_unlocked, image, chunk>>

\* Mutation: the 16-bit index does not wrap.
SetNextIdx_wide(k) == next_idx' = k + 1

SetNextIdx(k) == next_idx' = (k + 1) % IDX_MOD

\* DATA with a packet that fits.  No answer.
OtaData(k) ==
    /\ Take(k)
    /\ Fits(k)
    /\ buf' = [p \in Cells |-> IF p \in Offset(k) .. Offset(k) + PktLen(k) - 1
                               THEN image[k * chunk + (p - Offset(k)) + 1]
                               ELSE buf[p]]
    /\ bytes_received' = bytes_received + PktLen(k)
    /\ SetNextIdx(k)

\* Mutation: bytes are counted whether they are stored or not.
OtaDataDropped_counts(k) ==
    /\ Take(k)
    /\ ~Fits(k)
    /\ bytes_received' = bytes_received + PktLen(k)
    /\ SetNextIdx(k)
    /\ UNCHANGED buf

\* DATA beyond the buffer is dropped without an answer, but moves next_idx.
OtaDataDropped(k) ==
    /\ Take(k)
    /\ ~Fits(k)
    /\ SetNextIdx(k)
    /\ UNCHANGED <<bytes_received, buf>>

\* DATA without a byte of data.
OtaDataEmpty ==
    /\ ble_unlocked /\ active
    /\ Answer("DATA", "NONE")
    /\ UNCHANGED <<ota, ble_unlocked, app>>

\* DATA outside a transfer, late packets after END among them.
OtaDataRefused ==
    /\ ble_unlocked /\ ~active
    /\ Answer("DATA", "OTA_STATE")
    /\ UNCHANGED <<ota, ble_unlocked, app>>

\* Mutation: the transfer stays open.
OtaEnd_stays_active ==
    /\ ble_unlocked
    /\ done' = TRUE
    /\ Answer("END", "OK")
    /\ UNCHANGED <<active, total_size, next_idx, bytes_received, buf>>
    /\ UNCHANGED <<ble_unlocked, app>>

\* END is answered OK whatever has arrived, and without a START, too.
OtaEnd ==
    /\ ble_unlocked
    /\ active' = FALSE /\ done' = TRUE
    /\ Answer("END", "OK")
    /\ UNCHANGED <<total_size, next_idx, bytes_received, buf>>
    /\ UNCHANGED <<ble_unlocked, app>>

Next ==
    \/ Unlock
    \/ Drop
    \/ \E cmd \in {"START", "DATA", "END"} : OtaDenied(cmd)
    \/ \E img \in Images, size \in 1 .. APP_CONFIG_OTA_PKT_DATA, sized \in BOOLEAN :
          OtaStart(img, size, sized)
    \/ \E k \in Index : OtaData(k) \/ OtaDataDropped(k)
    \/ OtaDataEmpty
    \/ OtaDataRefused
    \/ OtaEnd

Spec == Init /\ [][Next]_vars
-----------------------------------------------------------------------------
(* Properties.                                                              *)

TypeOK ==
    /\ active \in BOOLEAN /\ done \in BOOLEAN /\ ble_unlocked \in BOOLEAN
    /\ total_size \in Nat /\ bytes_received \in Nat
    /\ next_idx \in Index
    /\ buf \in [Cells -> Int]
    /\ image \in Seq(Int)
    /\ chunk \in 1 .. APP_CONFIG_OTA_PKT_DATA
    /\ arrived \in [Index -> 0 .. MaxRepeats]

\* The link carries packets of the size the device places them by (doc 2.3:
\* 492 bytes at an MTU of 498).
FullPackets == chunk = APP_CONFIG_OTA_PKT_DATA

\* However the packets were lost, repeated or reordered, and however often
\* the link dropped and the APP resumed: each byte whose packet has arrived
\* since START and fits is in its place, so when all have arrived the buffer
\* holds the image (app_config.c:346).
ImageAssembled ==
    FullPackets =>
      \A p \in Cells :
         LET k == p \div APP_CONFIG_OTA_PKT_DATA
         IN  /\ p < Len(image) /\ k \in Index /\ arrived[k] > 0
             /\ Offset(k) + PktLen(k) - 1 \in Cells
             => buf[p] = image[p + 1]

\* The counter shown by "ota info" can be trusted as far as it goes: if no
\* packet came twice and as many bytes as announced were counted, the whole
\* image is in the buffer, that of no earlier transfer and with no packet
\* dropped at the end of the buffer (app_config.c:350).
CountTellsWhole ==
    /\ FullPackets
    /\ \A k \in Index : arrived[k] <= 1
    /\ total_size > 0 /\ bytes_received = total_size
    => \A p \in 0 .. Len(image) - 1 : p \in Cells /\ buf[p] = image[p + 1]

\* Once a transfer is reported done, its counters and bytes stay as they are
\* until a START, whatever late or repeated packets, ENDs and reconnections
\* follow: the shell reads them in several steps and without a lock
\* (app_config.c:77, shell_cmd.c:274).
DoneIsFrozen == [][done /\ last'.cmd # "START" => UNCHANGED ota]_vars

\* 通信对接文档.md:77: the device verifies the image at END; so an END answered OK
\* means that all packets of the announced image had arrived.
EndVouchesForImage ==
    [][last'.cmd = "END" /\ last'.status = "OK" =>
         \A k \in Packets : arrived[k] > 0]_vars
=============================================================================
