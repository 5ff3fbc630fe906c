----------------------------- MODULE AppFrames -----------------------------
(* The commands 0x01 and 0x02 byte by byte: the NDEF record around an NFC   *)
(* command (app_config.c), the dispatch and the two handlers                *)
(* (app_protocol.c), the TLV codec (app_tlv.c) and the conversion of field  *)
(* values (app_fields.c).  A write is granted in one step and then assigns  *)
(* its fields one at a time.  The other commands are those of AppProtocol.  *)
EXTENDS AppProtocol

CONSTANTS BleFrames,   \* byte sequences that arrive over BLE
          NdefMsgs,    \* what the tag's message area holds after a write:
                       \* the message, and old bytes behind it
          MSG_MAX      \* size of the area: NDEF_FILE_SIZE less two for NLEN

VARIABLES pc,          \* "idle", "apply" (phase 4 of a write), "reply", "fault"
          chan,        \* the channel of the command at work
          req,         \* its bytes
          cache,       \* cache[]: the validated TLVs still to be assigned
          resp,        \* the answer's bytes
          written      \* the bytes last written to each field since a reset

workVars == <<pc, chan, req, cache, resp>>
frameVars == <<workVars, written>>
allVars == <<vars, frameVars>>

Nothing == <<>>

STATUS == [OK |-> 0, UNSUPPORTED |-> 1, PARAM_LEN |-> 5, PARAM_VALUE |-> 6,
           AUTH_REQUIRED |-> 11, AUTH_EXPIRED |-> 12, UNKNOWN |-> 255]

FIELD_ID ==
    [DEVICE_STATE |-> 1, DEVICE_TYPE |-> 2, MODEL |-> 3, SN |-> 4, FW_VER |-> 5,
     HW_VER |-> 6, PROTOCOL_VERSION |-> 7, BATTERY |-> 16, TEMPERATURE |-> 17,
     DISTANCE |-> 18, POSITION |-> 19, MODE |-> 32, UPDATE_INTERVAL |-> 33,
     INSTALL_LOCATION |-> 34, GNSS_FIX |-> 35, LATITUDE |-> 36,
     LONGITUDE |-> 37, ALTITUDE |-> 38, NB_APN |-> 48]

FieldOf(b) == IF \E f \in DOMAIN FIELD_ID : FIELD_ID[f] = b
              THEN CHOOSE f \in DOMAIN FIELD_ID : FIELD_ID[f] = b ELSE "NONE"

ALL_READABLE_FIELDS ==
    <<1, 2, 3, 4, 5, 6, 7, 16, 17, 18, 19, 32, 33, 34, 35, 36, 37, 38>>
-----------------------------------------------------------------------------
(* Big-endian numbers, and the value of each field in bytes.                *)

POW_24 == 256 * 65536

\* \div and % give the two's complement.
put_u16_be(x) == <<(x \div 256) % 256, x % 256>>

\* Mutation: the bytes of a negative number come out as those of its absolute value.
put_u32_be_abs(x) ==
    LET n == IF x < 0 THEN -x ELSE x
    IN  <<(n \div POW_24) % 256, (n \div 65536) % 256, (n \div 256) % 256, n % 256>>

put_u32_be(x) ==
    <<(x \div POW_24) % 256, (x \div 65536) % 256, (x \div 256) % 256, x % 256>>

get_u16_be(b) == b[1] * 256 + b[2]
get_u32_be(b) == b[1] * POW_24 + b[2] * 65536 + b[3] * 256 + b[4]

\* get_u32_be() cast to int32_t.
get_s32_be(b) == (IF b[1] < 128 THEN b[1] ELSE b[1] - 256) * POW_24
                 + b[2] * 65536 + b[3] * 256 + b[4]

DecodeValue(fid, b) ==
    IF Len(b) # field_value_len(fid) THEN Nothing
    ELSE CASE fid = "MODE" -> <<b[1]>>
           [] fid = "UPDATE_INTERVAL" -> <<get_u16_be(b)>>
           [] fid = "INSTALL_LOCATION" ->
                 <<get_s32_be(b), get_s32_be(SubSeq(b, 5, 8))>>
           [] OTHER -> Nothing

StateCode == [FACTORY |-> 0, POWER_ON |-> 1, POWER_OFF |-> 2]

\* Model and serial number are text; only its length matters.
Text(n) == [i \in 1 .. n |-> 65]

\* app_field_get(): empty for a field that is not readable.
app_field_get(fid) ==
    CASE fid = "DEVICE_STATE" -> <<StateCode[device_state]>>
      [] fid = "DEVICE_TYPE" -> <<1>>
      [] fid = "MODEL" -> Text(8)
      [] fid = "SN" -> Text(6)
      [] fid \in {"FW_VER", "HW_VER"} -> <<1, 0, 0>>
      [] fid = "PROTOCOL_VERSION" -> <<32>>
      [] fid = "BATTERY" -> <<g["battery"]>>
      [] fid = "TEMPERATURE" -> put_u16_be(g["temperature"])
      [] fid = "DISTANCE" -> put_u16_be(g["distance"])
      [] fid = "POSITION" -> <<g["position"]>>
      [] fid = "MODE" -> <<g["mode"]>>
      [] fid = "UPDATE_INTERVAL" -> put_u16_be(g["update_interval"])
      [] fid = "INSTALL_LOCATION" ->
            put_u32_be(g["install_lat"]) \o put_u32_be(g["install_lng"])
      [] fid = "GNSS_FIX" -> <<g["gnss_fix"]>>
      [] fid = "LATITUDE" -> put_u32_be(g["latitude"])
      [] fid = "LONGITUDE" -> put_u32_be(g["longitude"])
      [] fid = "ALTITUDE" -> put_u16_be(g["altitude"])
      [] OTHER -> Nothing
-----------------------------------------------------------------------------
(* app_tlv.c.  Offsets count from 0, as in C.                               *)

tlv_encode_field(id, value) == <<id, Len(value)>> \o value

\* Mutation: the end of the value is not compared with the end of the data.
tlv_decode_field_trusting(data, offset) ==
    IF offset + 2 > Len(data) THEN [ok |-> FALSE]
    ELSE [ok |-> TRUE, id |-> data[offset + 1],
          value |-> [i \in 1 .. data[offset + 2] |->
                        IF offset + 2 + i <= Len(data) THEN data[offset + 2 + i] ELSE 0],
          offset |-> offset + 2 + data[offset + 2]]

tlv_decode_field(data, offset) ==
    IF offset + 2 > Len(data) THEN [ok |-> FALSE]
    ELSE LET end == offset + 2 + data[offset + 2]
         IN  IF end > Len(data) THEN [ok |-> FALSE]
             ELSE [ok |-> TRUE, id |-> data[offset + 1],
                   value |-> SubSeq(data, offset + 3, end), offset |-> end]

\* The offset after n calls of tlv_decode_field() from the start, -1 when one
\* of them failed.
tlv_offset(data, n) ==
    LET after(o) == LET r == tlv_decode_field(data, o)
                    IN  IF o >= 0 /\ r.ok THEN r.offset ELSE -1
    IN  Loop(Int, [p \in Nat \X Int |-> after(p[2])], n, 0)

\* The loop decodes until the end of the data; its count is a uint8_t.  A TLV
\* has at least two bytes.
tlv_validate_payload(data, field_count) ==
    \E n \in 0 .. Len(data) \div 2 :
       n % 256 = field_count /\ tlv_offset(data, n) >= Len(data)
-----------------------------------------------------------------------------
(* handle_cmd_read().                                                       *)

ReadError(status, b) == [status |-> status, bytes |-> <<1, STATUS[status], b>>]

\* append_field_to_resp() for the first n ids.
AppendFields(ids, n) ==
    LET field(b) == tlv_encode_field(b, app_field_get(FieldOf(b)))
        next(i)  == IF i < Len(ids) THEN field(ids[i + 1]) ELSE <<>>
    IN  Loop(Seq(Int), [p \in Nat \X Seq(Int) |-> p[2] \o next(p[1])], n,
             <<1, STATUS["OK"], Len(ids)>>)

\* The first id whose TLV does not fit ends the loop.
ReadFields(ids) ==
    LET full == {n \in 1 .. Len(ids) : Len(AppendFields(ids, n)) > APP_PROTO_RESP_MAX}
    IN  IF full = {} THEN [status |-> "OK", bytes |-> AppendFields(ids, Len(ids))]
        ELSE ReadError("UNKNOWN", ids[Min(full)])

handle_cmd_read(data) ==
    LET count == data[6]
        list  == SubSeq(data, 7, Len(data))
        bad   == {i \in 1 .. count : FieldOf(list[i]) \notin ReadableField}
    IN  IF count = 0 THEN ReadFields(ALL_READABLE_FIELDS)
        ELSE IF count > Len(list) % 256 THEN ReadError("PARAM_LEN", 0)
        ELSE IF bad # {} THEN ReadError("UNSUPPORTED", list[Min(bad)])
        ELSE ReadFields(SubSeq(list, 1, count))
-----------------------------------------------------------------------------
(* handle_cmd_write(), phases 1 and 2: a refusal or the filled cache.       *)

Refusal(status, b) == [status |-> status, id |-> b, cache |-> <<>>]

\* What app_field_validate() sees of a decoded field.
Decoded(r) == LET fid == FieldOf(r.id)
              IN  [fid |-> fid, len |-> Len(r.value), val |-> DecodeValue(fid, r.value)]

\* Phase 2: the first field that does not fit the cache or is not valid decides.
FillCache(data, count) ==
    LET field(i)  == tlv_decode_field(data, tlv_offset(data, i - 1))
        status(i) == IF i > WRITE_CACHE_MAX \/ ~field(i).ok THEN "PARAM_LEN"
                     ELSE app_field_validate(Decoded(field(i)))
        bad       == {i \in 1 .. count : status(i) # "OK"}
        first     == Min(bad)
        entry(i)  == [fid |-> FieldOf(field(i).id), value |-> field(i).value]
    IN  IF bad = {} THEN [status |-> "OK", id |-> 0, cache |-> [i \in 1 .. count |-> entry(i)]]
        ELSE IF first > WRITE_CACHE_MAX \/ ~field(first).ok THEN Refusal("PARAM_LEN", 0)
        ELSE Refusal(status(first), field(first).id)

CheckWrite(data) ==
    LET tlv_data == SubSeq(data, 3, Len(data))
    IN  IF Len(data) < 2 THEN Refusal("PARAM_LEN", 0)
        ELSE IF data[2] = 0 THEN Refusal("PARAM_LEN", 0)
        ELSE IF ~tlv_validate_payload(tlv_data, data[2]) THEN Refusal("PARAM_LEN", 0)
        ELSE FillCache(tlv_data, data[2])
-----------------------------------------------------------------------------
(* The steps.                                                               *)

\* The handler ran to its end and left these bytes in resp.
Respond(ch, data, bytes) ==
    /\ pc' = "reply" /\ chan' = ch /\ req' = data /\ resp' = bytes
    /\ UNCHANGED <<cache, written>>

ReadFrame(ch, data) ==
    /\ data[1] = 1
    /\ IF Len(data) < 6
       THEN /\ Reply(ch, "READ", "PARAM_LEN")
            /\ Respond(ch, data, <<1, STATUS["PARAM_LEN"], 0>>)
            /\ UNCHANGED unixtime
       ELSE LET r == handle_cmd_read(data)
            IN  /\ unixtime' = get_u32_be(SubSeq(data, 2, 5))
                /\ Reply(ch, "READ", r.status)
                /\ Respond(ch, data, r.bytes)
    /\ UNCHANGED <<authVars, issued, uptime, g, device_state, factory_init_done>>

WriteRefused(ch, data) ==
    LET w == CheckWrite(data)
    IN  /\ data[1] = 2
        /\ w.status # "OK"
        /\ Reply(ch, "WRITE", w.status)
        /\ Respond(ch, data, <<2, STATUS[w.status], w.id>>)
        /\ UNCHANGED <<authVars, issued, uptime, fieldVars>>

\* Phase 3 refuses.
WriteNotAllowed(ch, data) ==
    LET st == app_auth_check_write(ch)
    IN  /\ data[1] = 2
        /\ CheckWrite(data).status = "OK"
        /\ ~FactoryWindow /\ st # "OK"
        /\ Reply(ch, "WRITE", st)
        /\ Respond(ch, data, <<2, STATUS[st], 0>>)
        /\ AfterCheck(ch)
        /\ UNCHANGED <<password_hash, nonce, nonce_valid, ble_unlocked>>
        /\ UNCHANGED <<issued, uptime, fieldVars>>

\* Phase 3 grants: from here on nothing can stop the write but a reboot, so
\* this is where its answer is decided.
WriteGranted(ch, data) ==
    LET w == CheckWrite(data)
    IN  /\ data[1] = 2
        /\ w.status = "OK"
        /\ FactoryWindow \/ app_auth_check_write(ch) = "OK"
        /\ Reply(ch, "WRITE", "OK")
        /\ pc' = "apply" /\ chan' = ch /\ req' = data /\ cache' = w.cache
        /\ UNCHANGED <<resp, written, authVars, issued, uptime, fieldVars>>

\* Mutation: the two halves of the location are assigned the wrong way round.
ApplyField_swapped ==
    /\ pc = "apply" /\ cache # <<>>
    /\ LET e == Head(cache)
           v == DecodeValue(e.fid, e.value)
       IN  /\ g' = Assign(g, app_field_set(e.fid, IF Len(v) = 2 THEN <<v[2], v[1]>> ELSE v))
           /\ written' = [f \in DOMAIN written \cup {e.fid} |->
                             IF f = e.fid THEN e.value ELSE written[f]]
    /\ cache' = Tail(cache)
    /\ UNCHANGED <<pc, chan, req, resp, authVars, issued, uptime, observed>>
    /\ UNCHANGED <<device_state, factory_init_done, unixtime>>

\* One iteration of phase 4.
ApplyField ==
    /\ pc = "apply" /\ cache # <<>>
    /\ LET e == Head(cache)
       IN  /\ g' = Assign(g, app_field_set(e.fid, DecodeValue(e.fid, e.value)))
           /\ written' = [f \in DOMAIN written \cup {e.fid} |->
                             IF f = e.fid THEN e.value ELSE written[f]]
    /\ cache' = Tail(cache)
    /\ UNCHANGED <<pc, chan, req, resp, authVars, issued, uptime, observed>>
    /\ UNCHANGED <<device_state, factory_init_done, unixtime>>

\* Phase 5 and the answer.
WriteDone ==
    /\ pc = "apply" /\ cache = <<>>
    /\ factory_init_done' = (factory_init_done \/ FactoryWindow)
    /\ device_state' = IF FactoryWindow THEN "POWER_ON" ELSE device_state
    /\ pc' = "reply" /\ resp' = <<2, STATUS["OK"], 0>>
    /\ UNCHANGED <<chan, req, cache, written, authVars, issued, uptime, observed>>
    /\ UNCHANGED <<g, unixtime>>

UnknownCode(ch, data) ==
    /\ data[1] \notin 1 .. 4
    /\ Reply(ch, "OTHER", "UNSUPPORTED")
    /\ Respond(ch, data, <<data[1], STATUS["UNSUPPORTED"]>>)
    /\ UNCHANGED <<authVars, issued, uptime, fieldVars>>

process_frame(ch, data) ==
    /\ pc = "idle"
    /\ \/ ReadFrame(ch, data)
       \/ WriteRefused(ch, data)
       \/ WriteNotAllowed(ch, data)
       \/ WriteGranted(ch, data)
       \/ UnknownCode(ch, data)

\* The answer leaves: as the tag's new message, or towards the link.
Answered ==
    /\ pc = "reply"
    /\ pc' = "idle" /\ chan' = "NONE" /\ req' = <<>> /\ resp' = <<>>
    /\ UNCHANGED <<vars, cache, written>>
-----------------------------------------------------------------------------
(* The NDEF record of an NFC command.  The type names stand as 15 and 16    *)
(* equal bytes.                                                             *)

CMD_TYPE == [i \in 1 .. 15 |-> 99]
INFO_TYPE == [i \in 1 .. 16 |-> 105]

\* Where the type and the payload of a record start, and the payload's length.
\* The length of a long record is a uint32_t; here it is the signed number of
\* the same 32 bits.  No header is longer than the message area.
ndef_header(msg) ==
    LET short == (msg[1] \div 16) % 2 = 1
        fixed == IF short THEN 3 ELSE 6
        type  == IF (msg[1] \div 8) % 2 = 1 THEN fixed + 1 + msg[fixed + 1] ELSE fixed
    IN  [type |-> type, start |-> type + msg[2],
         len |-> IF short THEN msg[3] ELSE get_s32_be(SubSeq(msg, 3, 6))]

\* The sum of the lengths is a uint32_t, too, and is compared with the size of
\* the area, not of the message: 2^32 - n for a length is taken, for a small n.
IsCommand(msg) ==
    LET h == ndef_header(msg)
    IN  /\ msg[1] % 8 = 4
        /\ h.start + h.len \in 0 .. MSG_MAX
        /\ SubSeq(msg, h.type + 1, h.start) = CMD_TYPE
        /\ h.len # 0

\* The payload of a command, empty when there is none in the area.
ndef_parse_ext_cmd(msg) ==
    LET h == ndef_header(msg)
    IN  IF IsCommand(msg) /\ h.len > 0 THEN SubSeq(msg, h.start + 1, h.start + h.len)
        ELSE Nothing

\* Mutation: the length counts the type, too.
ndef_encode_with_type_len(payload) ==
    <<128 + 64 + 16 + 4, Len(INFO_TYPE), (Len(INFO_TYPE) + Len(payload)) % 256>>
    \o INFO_TYPE \o payload

\* ndef_encode_response(): the tag's new message, empty if it does not fit.
\* The payload length is one byte.
ndef_encode_response(payload) ==
    IF 3 + Len(INFO_TYPE) + Len(payload) > MSG_MAX THEN Nothing
    ELSE <<128 + 64 + 16 + 4, Len(INFO_TYPE), Len(payload) % 256>>
         \o INFO_TYPE \o payload

\* print_frame() before the handler reads as many bytes as the length says.
\* No memory has 2^32 - n of them: the processor faults, and no command is
\* served until a reboot.
print_frame_faults(msg) ==
    /\ pc = "idle" /\ IsCommand(msg) /\ ndef_header(msg).len < 0
    /\ pc' = "fault"
    /\ UNCHANGED <<vars, chan, req, cache, resp, written>>

\* A message that is no command leaves this state alone; NdefFlash has it.
app_config_handle_ndef(msg) ==
    LET payload == ndef_parse_ext_cmd(msg)
    IN  \/ payload # Nothing /\ process_frame("NFC", payload)
        \/ print_frame_faults(msg)

\* The commands 0x10 to 0x12 are OtaTransfer's.
app_config_handle_ble(data) ==
    data # <<>> /\ data[1] \notin 16 .. 18 /\ process_frame("BLE", data)
-----------------------------------------------------------------------------
\* The handlers run to their end before another command is taken up; only
\* the clock goes on, and the power may fail.
OtherCommand ==
    /\ pc = "idle"
    /\ \/ \E ch \in Channel :
             \/ app_auth_handle_cmd(ch) /\ UNCHANGED <<uptime, fieldVars>>
             \/ PowerOn(ch) \/ PowerOff(ch) \/ ActionDenied(ch)
             \/ Malformed(ch) /\ last'.cmd = "ACTION"
       \/ Disconnect
       \/ \E s \in ShellSets : ShellSet(s[1], s[2])
       \/ ShellGet
    /\ UNCHANGED frameVars

ResetCommand ==
    /\ pc = "idle"
    /\ \E ch \in Channel : FactoryReset(ch)
    /\ written' = <<>>
    /\ UNCHANGED workVars

FramesReboot ==
    /\ Reboot
    /\ pc' = "idle" /\ chan' = "NONE"
    /\ req' = <<>> /\ cache' = <<>> /\ resp' = <<>> /\ written' = <<>>

FramesInit ==
    /\ Init
    /\ pc = "idle" /\ chan = "NONE"
    /\ req = <<>> /\ cache = <<>> /\ resp = <<>> /\ written = <<>>

FramesNext ==
    \/ \E data \in BleFrames : app_config_handle_ble(data)
    \/ \E msg \in NdefMsgs : app_config_handle_ndef(msg)
    \/ ApplyField
    \/ WriteDone
    \/ Answered
    \/ OtherCommand
    \/ ResetCommand
    \/ Tick /\ UNCHANGED frameVars
    \/ FramesReboot

FramesSpec == FramesInit /\ [][FramesNext]_allVars
=============================================================================
