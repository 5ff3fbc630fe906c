------------------------------ MODULE AppPeer ------------------------------
(* The commands of AppFrames as a peer sees them: the frames it makes from  *)
(* its requests, how it reads the answers, and what it can rely on.  The    *)
(* peer's encoder and decoder are written down apart from the device's.     *)
EXTENDS AppFrames

Byte == 0 .. 255

\* Everything that reaches process_app_payload().
Payload == BleFrames \cup {ndef_parse_ext_cmd(msg) : msg \in NdefMsgs}
-----------------------------------------------------------------------------
(* Frames and requests.                                                     *)

\* Two's complement, from the upper and the lower half.
Int32(x) == LET hi == x \div 65536
                lo == x % 65536
            IN  <<(hi \div 256) % 256, hi % 256, lo \div 256, lo % 256>>

\* The value of a field that may be written, when it has the field's length.
ValueBytes(t) ==
    CASE t.fid = "MODE" -> t.val
      [] t.fid = "UPDATE_INTERVAL" -> <<t.val[1] \div 256, t.val[1] % 256>>
      [] t.fid = "INSTALL_LOCATION" -> Int32(t.val[1]) \o Int32(t.val[2])

\* The offset of the TLV after the first n: each has a header of two bytes.
FieldStart(q, n) ==
    LET size(i) == IF i < Len(q.tlvs) THEN 2 + q.tlvs[i + 1].len ELSE 0
    IN  Loop(Nat, [p \in Nat \X Nat |-> p[2] + size(p[1])], n, 2)

\* The bytes behind an offset are those of a TLV, as far as they are there.
CarriesField(data, start, t) ==
    /\ start + 1 <= Len(data) => FieldOf(data[start + 1]) = t.fid
    /\ start + 2 <= Len(data) => data[start + 2] = t.len
    /\ /\ t.fid \in WritableField /\ t.len = field_value_len(t.fid)
       /\ start + 2 + t.len <= Len(data)
       => SubSeq(data, start + 3, start + 2 + t.len) = ValueBytes(t)

\* A frame that is not whole breaks off inside its last TLV.
CarriesWrite(data, q) ==
    LET n == Len(q.tlvs)
    IN  /\ Len(data) >= 2 /\ data[1] = 2 /\ data[2] = q.count
        /\ IF q.whole THEN Len(data) = FieldStart(q, n)
           ELSE n > 0 /\ Len(data) \in FieldStart(q, n - 1) + 1 .. FieldStart(q, n) - 1
        /\ \A i \in 1 .. n : CarriesField(data, FieldStart(q, i - 1), q.tlvs[i])

CarriesRead(data, r) ==
    /\ Len(data) = 6 + Len(r.fields) /\ data[1] = 1
    /\ r.ts = ((data[2] * 256 + data[3]) * 256 + data[4]) * 256 + data[5]
    /\ data[6] = r.count
    /\ \A i \in 1 .. Len(r.fields) : FieldOf(data[6 + i]) = r.fields[i]

\* The requests a payload may have been made from.
Meaning == [data \in Payload |->
              [reads |-> {r \in ReadReqs : CarriesRead(data, r)},
               writes |-> {q \in WriteReqs : CarriesWrite(data, q)}]]

\* What arrives is bytes, and the message area holds as many of them as it
\* has room for, more than the longest header and type; what is long enough
\* for a read or a write carries one of the requests.
ASSUME FrameAssumption ==
    /\ MSG_MAX \in 277 .. MAX_UINT16
    /\ BleFrames \subseteq Seq(Byte)
    /\ NdefMsgs \subseteq [1 .. MSG_MAX -> Byte]
    /\ \A data \in Payload :
          /\ Len(data) >= 6 /\ data[1] = 1 => Meaning[data].reads # {}
          /\ Len(data) >= 2 /\ data[1] = 2 => Meaning[data].writes # {}
-----------------------------------------------------------------------------
(* Answers.                                                                 *)

\* The payload of an answer's record, or <<>>.
ReadInfo(msg) ==
    IF msg # <<>> /\ Len(msg) = 3 + msg[2] + msg[3] /\ SubSeq(msg, 4, 3 + msg[2]) = INFO_TYPE
    THEN SubSeq(msg, 4 + msg[2], Len(msg)) ELSE <<>>

\* The numbers a peer decodes from a value, and the registry's.
Signed16(b) == b[1] * 256 + b[2] - (IF b[1] >= 128 THEN 65536 ELSE 0)

Numbers(fid, b) ==
    CASE fid \in {"LATITUDE", "LONGITUDE"} -> <<Signed16(b) * 65536 + b[3] * 256 + b[4]>>
      [] fid = "INSTALL_LOCATION" -> <<Signed16(b) * 65536 + b[3] * 256 + b[4],
                                       Signed16(SubSeq(b, 5, 6)) * 65536 + b[7] * 256 + b[8]>>
      [] fid \in {"TEMPERATURE", "ALTITUDE"} -> <<Signed16(b)>>
      [] fid \in {"DISTANCE", "UPDATE_INTERVAL"} -> <<b[1] * 256 + b[2]>>
      [] fid \in {"MODE", "BATTERY", "POSITION", "GNSS_FIX"} -> <<b[1]>>
      [] OTHER -> <<>>

InRegistry(fid) ==
    CASE fid = "LATITUDE" -> <<g["latitude"]>>
      [] fid = "LONGITUDE" -> <<g["longitude"]>>
      [] fid = "INSTALL_LOCATION" -> <<g["install_lat"], g["install_lng"]>>
      [] fid = "TEMPERATURE" -> <<g["temperature"]>>
      [] fid = "ALTITUDE" -> <<g["altitude"]>>
      [] fid = "DISTANCE" -> <<g["distance"]>>
      [] fid = "UPDATE_INTERVAL" -> <<g["update_interval"]>>
      [] fid = "MODE" -> <<g["mode"]>>
      [] fid = "BATTERY" -> <<g["battery"]>>
      [] fid = "POSITION" -> <<g["position"]>>
      [] fid = "GNSS_FIX" -> <<g["gnss_fix"]>>
      [] OTHER -> <<>>

\* The ids an accepted read asks for, and where the answer has the TLV after
\* the first n of them.
Asked == IF req[6] = 0 THEN ALL_READABLE_FIELDS ELSE SubSeq(req, 7, 6 + req[6])
AnswerStart(ids, n) == AnswerLen([i \in 1 .. Len(ids) |-> FieldOf(ids[i])], n)

\* The bytes behind an offset are the TLV of a field with the registry's numbers.
AnswersField(bytes, start, b) ==
    LET fid == FieldOf(b)
        len == field_value_len(fid)
    IN  /\ bytes[start + 1] = b /\ bytes[start + 2] = len
        /\ Numbers(fid, SubSeq(bytes, start + 3, start + 2 + len)) = InRegistry(fid)
-----------------------------------------------------------------------------
(* Properties.                                                              *)

\* A value that has the width of its variable in the registry.
Fits(f, x) ==
    CASE f \in {"temperature", "altitude"} -> x \in Int /\ -32768 <= x /\ x < 32768
      [] f \in {"distance", "update_interval"} -> x \in 0 .. MAX_UINT16
      [] f \in {"install_lat", "install_lng", "latitude", "longitude"} -> x \in INT32
      [] OTHER -> x \in 0 .. MAX_UINT8
RegistryFits == \A f \in Stored : Fits(f, g[f])

\* A validated field: writable, of its length, and in range.
CacheEntry == {e \in [fid : WritableField, value : Seq(Byte)] :
                  /\ Len(e.value) = field_value_len(e.fid)
                  /\ InRange(e.fid, DecodeValue(e.fid, e.value))}

\* Between two steps of a write the cache has validated fields only, and every
\* entry of the registry keeps the width of its variable (app_fields.c:33).
FramesTypeOK ==
    /\ FieldsTypeOK /\ RegistryFits
    /\ pc \in {"idle", "apply", "reply", "fault"}
    /\ pc \in {"apply", "reply"} => chan \in Channel /\ req \in Payload /\ req # <<>>
    /\ pc = "apply" => req[1] = 2
    /\ cache \in Seq(CacheEntry) /\ (pc # "apply" => cache = <<>>)
    /\ resp \in Seq(Int)
    /\ DOMAIN written \subseteq WritableField

\* What the remaining assignments of a granted write make of the registry: an
\* entry ends with the value of the last of them that assigns it.
Remaining(i) == app_field_set(cache[i].fid, DecodeValue(cache[i].fid, cache[i].value))

Pending ==
    LET w == [i \in 1 .. Len(cache) |-> Remaining(i)]
    IN  IF cache = <<>> THEN g
        ELSE [f \in Stored |->
                LET writers == {i \in 1 .. Len(cache) : f \in DOMAIN w[i]}
                IN  IF writers = {} THEN g[f] ELSE w[Max(writers)][f]]

LeavesFactory == pc = "apply" /\ FactoryWindow

Proto == INSTANCE AppProtocol WITH
    g <- Pending,
    device_state <- IF LeavesFactory THEN "POWER_ON" ELSE device_state,
    factory_init_done <- factory_init_done \/ LeavesFactory

\* A granted write takes effect as one step, although it assigns field after
\* field with the clock and a reboot in between, and whatever arrives, the
\* handlers move the session, the registry and the factory window in no way
\* AppProtocol does not know (app_protocol.c:212, :269).
ImplementsProtocol == Proto!Spec

\* What is due to a request, without the widths of the device's counters: a
\* read lists the ids it counts, a write has exactly the fields it counts.
ReadDue(r) ==
    IF r.count = 0 THEN "OK"
    ELSE IF r.count > Len(r.fields) THEN "PARAM_LEN"
    ELSE IF \E i \in 1 .. r.count : r.fields[i] \notin ReadableField THEN "UNSUPPORTED"
    ELSE IF ReadLen(r) > APP_PROTO_RESP_MAX THEN "UNKNOWN" ELSE "OK"

WriteDue(q) == IF Len(q.tlvs) = q.count THEN WriteStatus(q) ELSE "PARAM_LEN"

\* The 8-bit count of the fields comes out as declared, and is wrong.
Miscounted(q) == Len(q.tlvs) # q.count /\ Len(q.tlvs) % 256 = q.count

\* The frame a peer made from a request gets the verdict due to the request,
\* and a grant is for the values the peer encoded, whatever the lengths and the
\* order of the fields.  Where 8-bit counters wrap, a read with more than 255
\* ids may be refused as too short (app_protocol.c:107), but is never answered
\* wrongly; a write with 256 fields too many is the one request that is taken
\* although it is wrong (app_tlv.c:49), and even then with the declared fields.
FrameMeansRequest ==
    [][pc = "idle" /\ pc' \in {"apply", "reply"} =>
         /\ \A r \in Meaning[req'].reads :
               \/ last'.status = ReadDue(r)
               \/ last'.status = "PARAM_LEN" /\ Len(r.fields) > 255
         /\ \A q \in Meaning[req'].writes :
               /\ pc' = "apply" => Pending' = Apply(g, q)
               /\ ~Miscounted(q) =>
                     IF WriteDue(q) # "OK" THEN last'.status = WriteDue(q)
                     ELSE pc' = "apply" \/ last'.status \in {"AUTH_REQUIRED", "AUTH_EXPIRED"}
      ]_allVars

\* An accepted read is answered with exactly the fields asked for, in order,
\* as TLVs that fill the answer to its end, and with the numbers of the
\* registry, negative ones included; also at the limit of 256 bytes and for a
\* list whose length wraps (app_protocol.c:107).
ReplyDecodes ==
    pc = "reply" /\ req[1] = 1 /\ resp[2] = STATUS["OK"] =>
       LET n == Len(Asked)
       IN  /\ Len(resp) <= APP_PROTO_RESP_MAX
           /\ resp[3] = n
           /\ Len(resp) = AnswerStart(Asked, n)
           /\ \A i \in 1 .. n : AnswersField(resp, AnswerStart(Asked, i - 1), Asked[i])

\* What an accepted write stored is read back with the same bytes until it is
\* overwritten or reset, over all conversions in between (app_fields.c:362).
WrittenReadsBack == \A f \in DOMAIN written : app_field_get(f) = written[f]

\* A command from NFC that changed the state has an answer on the tag: the
\* answer fits, and a reader of the tag finds it complete behind its header.
\* Answers of 256 bytes are left out: their length does not fit the header
\* (app_config.c:219, :266).
AnswerReadable ==
    pc = "reply" /\ chan = "NFC" /\ Len(resp) < 256 =>
       ReadInfo(ndef_encode_response(resp)) = resp
=============================================================================
