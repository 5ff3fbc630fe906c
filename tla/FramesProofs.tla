---------------------------- MODULE FramesProofs ----------------------------
(* Proofs about the steps of AppFrames: what a peer can rely on holds in    *)
(* every reachable state, for every value of the constants.                 *)
EXTENDS CodecProofs

\* What the console assigns has the width of the variable it assigns.
ShellFits == \A s \in ShellSets : Fits(s[1], s[2])

WorkTyped ==
    /\ pc \in {"idle", "apply", "reply", "fault"}
    /\ pc \in {"apply", "reply"} => chan \in Channel /\ req \in Payload /\ req # <<>>
    /\ pc = "apply" => req[1] = 2
    /\ cache \in Seq(CacheEntry) /\ (pc # "apply" => cache = <<>>)
    /\ resp \in Seq(Int)
    /\ DOMAIN written \subseteq WritableField

LEMMA TypeParts ==
    /\ FramesTypeOK <=> FieldsTypeOK /\ RegistryFits /\ WorkTyped
    /\ FramesTypeOK' <=> FieldsTypeOK' /\ RegistryFits' /\ WorkTyped'
  BY DEF FramesTypeOK, WorkTyped

\* What reaches process_app_payload().
Arrives(ch, data) ==
    ch \in Channel /\ data \in Payload /\ data # <<>> /\ process_frame(ch, data)

\* The area is a sequence of bytes, of MSG_MAX of them.
LEMMA AreaBytes ==
    ASSUME NEW msg \in NdefMsgs
    PROVE  msg \in Seq(Byte) /\ Len(msg) = MSG_MAX /\ MSG_MAX \in Nat /\ MSG_MAX >= 277
<1>1. MSG_MAX \in Nat /\ MSG_MAX >= 277
  BY FrameAssumption
<1>2. msg \in [1 .. MSG_MAX -> Byte]
  BY FrameAssumption
<1>3. msg \in Seq(Byte)
  BY <1>1, <1>2, SeqDef
<1>4. Len(msg) = MSG_MAX
  <2>1. PICK n \in Nat : n = Len(msg) /\ 1 .. n = 1 .. MSG_MAX
    <3>1. Len(msg) \in Nat /\ DOMAIN msg = 1 .. Len(msg)
      BY <1>3
    <3>2. DOMAIN msg = 1 .. MSG_MAX
      BY <1>2
    <3> QED BY <3>1, <3>2
  <2>2. PICK m \in Nat : m = MSG_MAX /\ m >= 277
    BY <1>1
  <2>3. m \in 1 .. n
    BY ONLY <2>1, <2>2
  <2>4. n \in 1 .. m
    <3>1. n \in 1 .. n
      BY ONLY <2>2, <2>3
    <3> QED BY ONLY <2>1, <2>2, <3>1
  <2>5. n = m
    BY ONLY <2>3, <2>4
  <2> QED BY <2>1, <2>2, <2>5
<1> QED BY <1>1, <1>3, <1>4

\* A header lies in the area.
LEMMA HeaderFits ==
    ASSUME NEW msg \in NdefMsgs
    PROVE  ndef_header(msg).start \in Nat /\ ndef_header(msg).len \in Int
<1> DEFINE short == (msg[1] \div 16) % 2 = 1
           fixed == IF short THEN 3 ELSE 6
           type  == IF (msg[1] \div 8) % 2 = 1 THEN fixed + 1 + msg[fixed + 1] ELSE fixed
           len   == IF short THEN msg[3] ELSE get_s32_be(SubSeq(msg, 3, 6))
<1>1. msg \in Seq(Byte) /\ Len(msg) \in Nat /\ Len(msg) >= 277
  BY AreaBytes
<1>2. \A i \in 1 .. 7 : msg[i] \in Nat
  <2>1. ASSUME NEW i \in 1 .. 7 PROVE msg[i] \in Byte
    BY <1>1, ElementOfSeq
  <2> QED BY <2>1, BytesAre
<1>3. ndef_header(msg) = [type |-> type, start |-> type + msg[2], len |-> len]
  BY DEF ndef_header
<1>4. type \in Nat
  <2>1. CASE short
    BY <1>2, <2>1
  <2>2. CASE ~short
    BY <1>2, <2>2
  <2> QED BY <2>1, <2>2
<1>5. len \in Int
  <2>1. SubSeq(msg, 3, 6) \in Seq(Byte) /\ Len(SubSeq(msg, 3, 6)) = 6 - 3 + 1
    BY <1>1, Piece
  <2>2. Len(SubSeq(msg, 3, 6)) >= 4
    BY <2>1
  <2>3. get_s32_be(SubSeq(msg, 3, 6)) \in Int
    <3>1. get_s32_be(SubSeq(msg, 3, 6)) \in INT32
      BY ONLY <2>1, <2>2, FourBytes
    <3> QED BY <3>1 DEF INT32
  <2>4. msg[3] \in Int
    BY <1>2
  <2> QED BY <2>3, <2>4
<1> HIDE DEF type, len
<1> QED BY <1>2, <1>3, <1>4, <1>5

\* Whatever lies in the area, a command's payload is bytes of it.
LEMMA PayloadIsBytes == Payload \subseteq Seq(Byte)
<1>1. ASSUME NEW msg \in NdefMsgs PROVE ndef_parse_ext_cmd(msg) \in Seq(Byte)
  <2> DEFINE h == ndef_header(msg)
  <2>1. h.start \in Nat /\ h.len \in Int
    BY HeaderFits
  <2>2. msg \in Seq(Byte) /\ Len(msg) = MSG_MAX /\ MSG_MAX \in Nat
    BY AreaBytes
  <2>3. CASE IsCommand(msg) /\ h.len > 0
    <3>1. h.start + h.len \in 0 .. MSG_MAX
      BY <2>3 DEF IsCommand
    <3>2. ndef_parse_ext_cmd(msg) = SubSeq(msg, h.start + 1, h.start + h.len)
      BY <2>3 DEF ndef_parse_ext_cmd
    <3> HIDE DEF h
    <3>3. /\ h.start + 1 \in Int /\ h.start + h.len \in Int /\ 1 <= h.start + 1
          /\ h.start + 1 <= (h.start + h.len) + 1 /\ h.start + h.len <= Len(msg)
      BY <2>1, <2>2, <2>3, <3>1
    <3>4. SubSeq(msg, h.start + 1, h.start + h.len) \in Seq(Byte)
      BY ONLY <2>2, <3>3, Piece
    <3> QED BY <3>2, <3>4
  <2>4. CASE ~(IsCommand(msg) /\ h.len > 0)
    <3>1. ndef_parse_ext_cmd(msg) = <<>>
      BY <2>4 DEF ndef_parse_ext_cmd, Nothing
    <3> QED BY <3>1
  <2> QED BY <2>3, <2>4
<1> QED BY <1>1, FrameAssumption DEF Payload

LEMMA PayloadBytes ==
    ASSUME NEW data \in Payload, data # <<>>
    PROVE  /\ data \in Seq(Byte) /\ Len(data) \in Nat /\ Len(data) >= 1
           /\ data[1] \in Byte /\ data[1] \in Int
<1>1. data \in Seq(Byte)
  BY PayloadIsBytes
<1>2. Len(data) \in Nat /\ Len(data) >= 1
  BY <1>1
<1>3. data[1] \in Byte
  <2>1. 1 \in 1 .. Len(data)
    BY <1>2
  <2> QED BY <1>1, <2>1, ElementOfSeq
<1> QED BY <1>1, <1>2, <1>3, BytesAre

\* The one step that is not of a command: the processor faults.
Fault == /\ pc = "idle" /\ pc' = "fault"
         /\ UNCHANGED <<vars, chan, req, cache, resp, written>>

\* The steps, with the two entry points made one.
LEMMA FrameSteps ==
    ASSUME FramesNext
    PROVE  \/ \E ch, data : Arrives(ch, data)
           \/ Fault
           \/ ApplyField
           \/ WriteDone
           \/ Answered
           \/ OtherCommand
           \/ ResetCommand
           \/ Tick /\ UNCHANGED frameVars
           \/ FramesReboot
<1>1. "BLE" \in Channel /\ "NFC" \in Channel
  BY DEF Channel
<1>2. ASSUME NEW data \in BleFrames, app_config_handle_ble(data)
      PROVE  Arrives("BLE", data)
  BY <1>1, <1>2 DEF app_config_handle_ble, Payload, Arrives
<1>3. ASSUME NEW msg \in NdefMsgs, app_config_handle_ndef(msg)
      PROVE  Arrives("NFC", ndef_parse_ext_cmd(msg)) \/ Fault
  BY <1>1, <1>3 DEF app_config_handle_ndef, Payload, Arrives, Nothing, print_frame_faults, Fault
<1> QED BY <1>2, <1>3 DEF FramesNext
-----------------------------------------------------------------------------
(* Types.                                                                   *)

\* The registry as it is after power-up and after a reset of its configuration.
LEMMA DefaultsFit == \A f \in Stored : Defaults[f] \in Int /\ Fits(f, Defaults[f])
<1>1. 246087800 \in INT32 /\ 1180689300 \in INT32
  BY SMT DEF INT32
<1> HIDE DEF INT32
<1>2. ASSUME NEW f \in {"battery", "position", "mode", "gnss_fix"}
      PROVE  Defaults[f] \in Int /\ Fits(f, Defaults[f])
  BY DEF Defaults, Fits, MAX_UINT8
<1>3. ASSUME NEW f \in {"temperature", "altitude"}
      PROVE  Defaults[f] \in Int /\ Fits(f, Defaults[f])
  BY DEF Defaults, Fits
<1>4. ASSUME NEW f \in {"distance", "update_interval"}
      PROVE  Defaults[f] \in Int /\ Fits(f, Defaults[f])
  <2>1. 15 \in 0 .. MAX_UINT16 /\ 0 \in 0 .. MAX_UINT16
    BY SMT DEF MAX_UINT16
  <2> QED BY <2>1 DEF Defaults, Fits
<1>5. ASSUME NEW f \in {"install_lat", "install_lng", "latitude", "longitude"}
      PROVE  Defaults[f] \in Int /\ Fits(f, Defaults[f])
  BY <1>1 DEF Defaults, Fits
<1> QED BY <1>2, <1>3, <1>4, <1>5 DEF Stored, Sensor, Config

LEMMA FitsInt ==
    ASSUME NEW f, NEW x, Fits(f, x)
    PROVE  x \in Int
<1>1. INT32 \subseteq Int
  BY DEF INT32
<1>2. 0 .. MAX_UINT16 \subseteq Int
  OBVIOUS
<1>3. 0 .. MAX_UINT8 \subseteq Int
  OBVIOUS
<1> HIDE DEF INT32, MAX_UINT16, MAX_UINT8
<1>4. CASE f \in {"temperature", "altitude"}
  BY <1>4 DEF Fits
<1>5. CASE f \in {"distance", "update_interval"}
  BY <1>2, <1>5 DEF Fits
<1>6. CASE f \in {"install_lat", "install_lng", "latitude", "longitude"}
  BY <1>1, <1>6 DEF Fits
<1>7. CASE f \notin {"temperature", "altitude", "distance", "update_interval",
                    "install_lat", "install_lng", "latitude", "longitude"}
  BY <1>3, <1>7 DEF Fits
<1> QED BY <1>4, <1>5, <1>6, <1>7

\* A handler's read of the payload, before its answer.
LEMMA ReadTyped ==
    ASSUME FramesTypeOK, NEW ch, NEW data, Arrives(ch, data), ReadFrame(ch, data)
    PROVE  /\ resp' \in Seq(Int) /\ unixtime' \in Nat
           /\ pc' = "reply" /\ chan' = ch /\ req' = data
           /\ UNCHANGED <<cache, written, g, device_state, factory_init_done>>
<1>1. data \in Seq(Byte) /\ Len(data) \in Nat
  BY PayloadBytes DEF Arrives
<1>2. CASE Len(data) < 6
  <2>1. resp' = <<1, STATUS["PARAM_LEN"], 0>> /\ unixtime' = unixtime
    BY <1>2 DEF ReadFrame, Respond
  <2>2. STATUS["PARAM_LEN"] \in Int
    BY DEF STATUS
  <2> QED BY <1>2, <2>1, <2>2 DEF ReadFrame, Respond, FramesTypeOK, FieldsTypeOK
<1>3. CASE ~(Len(data) < 6)
  <2>1. Len(data) >= 6
    BY <1>1, <1>3
  <2>2. RegistryTyped
    BY DEF FramesTypeOK, FieldsTypeOK, RegistryTyped
  <2>3. handle_cmd_read(data).bytes \in Seq(Int)
    BY <1>1, <2>1, <2>2, ReadHandled
  <2>4. resp' = handle_cmd_read(data).bytes /\ unixtime' = get_u32_be(SubSeq(data, 2, 5))
    BY <1>3 DEF ReadFrame, Respond
  <2>5. get_u32_be(SubSeq(data, 2, 5)) \in Nat
    <3>1. 1 <= 2 /\ 2 <= 5 + 1 /\ 5 <= Len(data) /\ 2 \in Int /\ 5 \in Int
      BY <1>1, <2>1
    <3>2. SubSeq(data, 2, 5) \in Seq(Byte) /\ Len(SubSeq(data, 2, 5)) = 5 - 2 + 1
      BY ONLY <1>1, <3>1, Piece
    <3>3. Len(SubSeq(data, 2, 5)) >= 4
      BY <3>2
    <3> QED BY <3>2, <3>3, FourBytes
  <2> QED BY <1>3, <2>3, <2>4, <2>5 DEF ReadFrame, Respond
<1> QED BY <1>2, <1>3

\* What the other commands do to the registry: the console assigns one entry,
\* the others none.
LEMMA OtherSteps ==
    ASSUME OtherCommand
    PROVE  /\ pc = "idle" /\ UNCHANGED frameVars
           /\ \/ \E s \in ShellSets : g' = [g EXCEPT ![s[1]] = s[2]]
                                   /\ UNCHANGED <<device_state, factory_init_done, unixtime>>
              \/ UNCHANGED <<g, factory_init_done>> /\ unixtime' \in {0, unixtime}
                 /\ device_state' \in {device_state, "POWER_ON", "POWER_OFF"}
<1> DEFINE Same == UNCHANGED <<g, factory_init_done>> /\ unixtime' \in {0, unixtime}
                   /\ device_state' \in {device_state, "POWER_ON", "POWER_OFF"}
<1>1. pc = "idle" /\ UNCHANGED frameVars
  BY DEF OtherCommand
<1>2. ASSUME UNCHANGED fieldVars PROVE Same
  BY <1>2 DEF fieldVars
<1>3. ASSUME NEW ch \in Channel,
             PowerOn(ch) \/ PowerOff(ch) \/ ActionDenied(ch) \/ Malformed(ch)
      PROVE  Same
  BY <1>3 DEF PowerOn, PowerOff, ActionDenied, Malformed, fieldVars
<1>4. ASSUME Disconnect PROVE Same
  <2>1. UNCHANGED fieldVars
    BY <1>4 DEF Disconnect
  <2> QED BY <1>2, <2>1
<1>5. ASSUME NEW s \in ShellSets, ShellSet(s[1], s[2])
      PROVE  /\ g' = [g EXCEPT ![s[1]] = s[2]]
             /\ UNCHANGED <<device_state, factory_init_done, unixtime>>
  BY <1>5 DEF ShellSet
<1>6. ASSUME ShellGet PROVE Same
  <2>1. UNCHANGED <<g, device_state, factory_init_done>> /\ unixtime' = 0
    BY <1>6 DEF ShellGet
  <2> QED BY <2>1
<1> HIDE DEF Same
<1>7. \/ \E s \in ShellSets : g' = [g EXCEPT ![s[1]] = s[2]]
                            /\ UNCHANGED <<device_state, factory_init_done, unixtime>>
      \/ Same
  <2>1. ASSUME NEW ch \in Channel, app_auth_handle_cmd(ch), UNCHANGED <<uptime, fieldVars>>
        PROVE  Same
    BY <1>2, <2>1
  <2> QED BY <1>3, <1>4, <1>5, <1>6, <2>1 DEF OtherCommand
<1> QED BY <1>1, <1>7 DEF Same

\* The steps keep the types; a write's validated fields fit what they assign.
LEMMA WorkTypeStep ==
    ASSUME FramesTypeOK, ShellAssumption, ShellFits, [FramesNext]_allVars
    PROVE  FramesTypeOK'
<1>1. CASE UNCHANGED allVars
  <2>1. UNCHANGED <<g, device_state, factory_init_done, unixtime, pc, chan, req, cache,
                    resp, written>>
    BY <1>1 DEF allVars, vars, fieldVars, frameVars, workVars
  <2> QED BY <2>1 DEF FramesTypeOK, FieldsTypeOK, RegistryFits
<1>2. ASSUME NEW ch, NEW data, Arrives(ch, data) PROVE FramesTypeOK'
  <2>1. data \in Seq(Byte) /\ data[1] \in Int /\ ch \in Channel /\ data \in Payload /\ data # <<>>
    BY <1>2, PayloadBytes DEF Arrives
  <2>2. pc = "idle" /\ cache = <<>>
    BY <1>2 DEF Arrives, process_frame, FramesTypeOK
  <2>3. \A st \in DOMAIN STATUS : STATUS[st] \in Int
    BY DEF STATUS
  <2>4. ASSUME UNCHANGED <<g, device_state, factory_init_done, written>>, unixtime' \in Nat,
               chan' = ch, req' = data
        PROVE  FieldsTypeOK' /\ RegistryFits' /\ DOMAIN written' \subseteq WritableField
               /\ chan' \in Channel /\ req' \in Payload /\ req' # <<>>
    BY <2>1, <2>4 DEF FramesTypeOK, FieldsTypeOK, RegistryFits
  <2>5. CASE ReadFrame(ch, data)
    <3>1. /\ resp' \in Seq(Int) /\ unixtime' \in Nat
          /\ pc' = "reply" /\ chan' = ch /\ req' = data
          /\ UNCHANGED <<cache, written, g, device_state, factory_init_done>>
      BY <1>2, <2>5, ReadTyped
    <3> QED BY <2>2, <2>4, <3>1, TypeParts DEF WorkTyped, FramesTypeOK
  <2>6. ASSUME UNCHANGED <<g, device_state, factory_init_done, unixtime>>,
               NEW bytes \in Seq(Int), Respond(ch, data, bytes)
        PROVE  FramesTypeOK'
    <3>1. /\ pc' = "reply" /\ chan' = ch /\ req' = data /\ resp' \in Seq(Int)
          /\ cache' = cache /\ UNCHANGED written
      BY <2>6 DEF Respond
    <3>2. unixtime' \in Nat
      BY <2>6 DEF FramesTypeOK, FieldsTypeOK
    <3> QED BY <2>2, <2>4, <2>6, <3>1, <3>2, TypeParts DEF WorkTyped, FramesTypeOK
  <2>7. CASE WriteRefused(ch, data)
    <3> DEFINE w == CheckWrite(data)
               bytes == <<2, STATUS[w.status], w.id>>
    <3>1. w.status \in DOMAIN STATUS /\ w.id \in Int
      BY <2>1, RefusalAnswered
    <3> HIDE DEF w
    <3>2. bytes \in Seq(Int)
      BY <2>3, <3>1
    <3>3. Respond(ch, data, bytes) /\ UNCHANGED <<g, device_state, factory_init_done, unixtime>>
      BY <2>7 DEF WriteRefused, fieldVars, w
    <3> HIDE DEF bytes
    <3> QED BY <2>6, <3>2, <3>3
  <2>8. CASE WriteNotAllowed(ch, data)
    <3> DEFINE st == app_auth_check_write(ch)
               bytes == <<2, STATUS[st], 0>>
    <3>1. st \in DOMAIN STATUS
      BY Statuses DEF STATUS
    <3> HIDE DEF st
    <3>2. bytes \in Seq(Int)
      BY <2>3, <3>1
    <3>3. Respond(ch, data, bytes) /\ UNCHANGED <<g, device_state, factory_init_done, unixtime>>
      BY <2>8 DEF WriteNotAllowed, fieldVars, st
    <3> HIDE DEF bytes
    <3> QED BY <2>6, <3>2, <3>3
  <2>9. CASE WriteGranted(ch, data)
    <3>1. /\ data[1] = 2 /\ CheckWrite(data).status = "OK"
          /\ pc' = "apply" /\ chan' = ch /\ req' = data /\ cache' = CheckWrite(data).cache
          /\ UNCHANGED <<resp, written, g, device_state, factory_init_done, unixtime>>
      BY <2>9 DEF WriteGranted, fieldVars
    <3>2. cache' \in Seq(CacheEntry)
      BY <2>1, <3>1, CacheFilled
    <3>3. unixtime' \in Nat /\ resp' \in Seq(Int)
      BY <3>1 DEF FramesTypeOK, FieldsTypeOK
    <3> QED BY <2>4, <3>1, <3>2, <3>3, TypeParts DEF WorkTyped
  <2>10. CASE UnknownCode(ch, data)
    <3> DEFINE bytes == <<data[1], STATUS["UNSUPPORTED"]>>
    <3>1. "UNSUPPORTED" \in DOMAIN STATUS
      BY DEF STATUS
    <3>2. bytes \in Seq(Int)
      BY <2>1, <2>3, <3>1
    <3>3. Respond(ch, data, bytes) /\ UNCHANGED <<g, device_state, factory_init_done, unixtime>>
      BY <2>10 DEF UnknownCode, fieldVars
    <3> HIDE DEF bytes
    <3> QED BY <2>6, <3>2, <3>3
  <2> QED BY <1>2, <2>5, <2>7, <2>8, <2>9, <2>10 DEF Arrives, process_frame
<1>3. CASE ApplyField
  <2> DEFINE e == Head(cache)
  <2>1. /\ pc = "apply" /\ cache # <<>> /\ cache' = Tail(cache)
        /\ g' = Assign(g, app_field_set(e.fid, DecodeValue(e.fid, e.value)))
        /\ DOMAIN written' = DOMAIN written \cup {e.fid}
        /\ UNCHANGED <<pc, chan, req, resp, device_state, factory_init_done, unixtime>>
    BY <1>3 DEF ApplyField
  <2>2. e \in CacheEntry /\ cache' \in Seq(CacheEntry)
    BY <2>1, HeadTailProperties DEF FramesTypeOK
  <2>3. e.fid \in WritableField /\ e.value \in Seq(Byte) /\ Len(e.value) = field_value_len(e.fid)
    BY <2>2 DEF CacheEntry
  <2> HIDE DEF e
  <2>4. RegistryFits'
    BY <2>1, <2>3, FieldStored DEF FramesTypeOK
  <2>5. g' \in [Stored -> Int]
    <3>1. \A f \in Stored : g'[f] \in Int
      BY <2>4, FitsInt DEF RegistryFits
    <3> QED BY <2>1, <3>1 DEF Assign
  <2>6. FieldsTypeOK'
    BY <2>1, <2>5 DEF FramesTypeOK, FieldsTypeOK
  <2>7. WorkTyped'
    BY <2>1, <2>2, <2>3, TypeParts DEF WorkTyped
  <2> QED BY <2>4, <2>6, <2>7, TypeParts
<1>4. CASE WriteDone
  <2>1. <<2, STATUS["OK"], 0>> \in Seq(Int)
    BY DEF STATUS
  <2>2. /\ pc = "apply" /\ cache = <<>> /\ pc' = "reply" /\ resp' \in Seq(Int)
        /\ UNCHANGED <<chan, req, cache, written, g, unixtime>>
        /\ device_state' \in {"POWER_ON", device_state}
        /\ factory_init_done' = (factory_init_done \/ FactoryWindow)
    BY <1>4, <2>1 DEF WriteDone
  <2>3. FieldsTypeOK' /\ RegistryFits'
    BY <2>2 DEF FramesTypeOK, FieldsTypeOK, RegistryFits, DeviceState
  <2>4. WorkTyped'
    BY <2>2, TypeParts DEF WorkTyped
  <2> QED BY <2>3, <2>4, TypeParts
<1>5. CASE Answered
  <2>1. /\ pc' = "idle" /\ resp' = <<>> /\ pc = "reply"
        /\ UNCHANGED <<cache, written, g, device_state, factory_init_done, unixtime>>
    BY <1>5 DEF Answered, vars, fieldVars
  <2>2. FieldsTypeOK' /\ RegistryFits'
    BY <2>1 DEF FramesTypeOK, FieldsTypeOK, RegistryFits
  <2>3. WorkTyped'
    BY <2>1, TypeParts DEF WorkTyped
  <2> QED BY <2>2, <2>3, TypeParts
<1>6. CASE OtherCommand
  <2>1. pc = "idle" /\ UNCHANGED <<pc, chan, req, cache, resp, written>>
    BY <1>6, OtherSteps DEF frameVars, workVars
  <2>2. WorkTyped'
    BY <2>1, TypeParts DEF WorkTyped
  <2>3. CASE \E s \in ShellSets : g' = [g EXCEPT ![s[1]] = s[2]]
                               /\ UNCHANGED <<device_state, factory_init_done, unixtime>>
    <3>1. PICK s \in ShellSets : /\ g' = [g EXCEPT ![s[1]] = s[2]]
                                /\ UNCHANGED <<device_state, factory_init_done, unixtime>>
      BY <2>3
    <3>2. s[1] \in Stored /\ s[2] \in Int /\ Fits(s[1], s[2])
      BY ShellAssumption DEF ShellFits
    <3> DEFINE f == s[1]
               x == s[2]
    <3> HIDE DEF f, x
    <3>3. g' = [g EXCEPT ![f] = x] /\ f \in Stored /\ x \in Int /\ Fits(f, x)
      BY <3>1, <3>2 DEF f, x
    <3>4. g \in [Stored -> Int] /\ RegistryFits
      BY DEF FramesTypeOK, FieldsTypeOK
    <3>5. g' \in [Stored -> Int]
      BY <3>3, <3>4
    <3>6. \A h \in Stored : g'[h] = IF h = f THEN x ELSE g[h]
      BY <3>3, <3>4
    <3>7. RegistryFits'
      BY <3>3, <3>4, <3>6 DEF RegistryFits
    <3> QED BY <2>2, <3>1, <3>5, <3>7, TypeParts DEF FramesTypeOK, FieldsTypeOK
  <2>4. CASE /\ UNCHANGED <<g, factory_init_done>> /\ unixtime' \in {0, unixtime}
             /\ device_state' \in {device_state, "POWER_ON", "POWER_OFF"}
    <3>1. FieldsTypeOK' /\ RegistryFits'
      BY <2>4 DEF FramesTypeOK, FieldsTypeOK, RegistryFits, DeviceState
    <3> QED BY <2>2, <3>1, TypeParts
  <2> QED BY <1>6, <2>3, <2>4, OtherSteps
<1>7. CASE ResetCommand
  <2>1. /\ g' = [f \in Stored |-> IF f \in Config THEN Defaults[f] ELSE g[f]]
        /\ device_state' = "FACTORY" /\ factory_init_done' = FALSE /\ unixtime' = unixtime
        /\ pc = "idle" /\ written' = <<>> /\ UNCHANGED <<pc, chan, req, cache, resp>>
    BY <1>7 DEF ResetCommand, FactoryReset, app_fields_init, workVars
  <2>2. g' \in [Stored -> Int] /\ RegistryFits'
    BY <2>1, DefaultsFit DEF FramesTypeOK, FieldsTypeOK, RegistryFits
  <2>3. FieldsTypeOK'
    BY <2>1, <2>2 DEF FramesTypeOK, FieldsTypeOK, DeviceState
  <2>4. WorkTyped'
    BY <2>1, TypeParts DEF WorkTyped
  <2> QED BY <2>2, <2>3, <2>4, TypeParts
<1>8. CASE Tick /\ UNCHANGED frameVars
  <2>1. UNCHANGED <<g, device_state, factory_init_done, unixtime, pc, chan, req, cache,
                    resp, written>>
    BY <1>8 DEF Tick, fieldVars, frameVars, workVars
  <2> QED BY <2>1 DEF FramesTypeOK, FieldsTypeOK, RegistryFits
<1>9. CASE FramesReboot
  <2>1. /\ g' = Defaults /\ device_state' = "FACTORY" /\ factory_init_done' = FALSE
        /\ unixtime' = 0 /\ pc' = "idle" /\ cache' = <<>> /\ resp' = <<>> /\ written' = <<>>
    BY <1>9 DEF FramesReboot, Reboot, FieldsRestart
  <2>2. g' \in [Stored -> Int] /\ RegistryFits'
    <3>1. Defaults \in [Stored -> Int]
      BY DEF Defaults, Stored, Sensor, Config
    <3> QED BY <2>1, <3>1, DefaultsFit DEF RegistryFits
  <2>3. FieldsTypeOK'
    BY <2>1, <2>2 DEF FieldsTypeOK, DeviceState
  <2>4. WorkTyped'
    BY <2>1 DEF WorkTyped
  <2> QED BY <2>2, <2>3, <2>4, TypeParts
<1>10. CASE Fault
  <2>1. /\ pc = "idle" /\ pc' = "fault"
        /\ UNCHANGED <<g, device_state, factory_init_done, unixtime, cache, resp, written>>
    BY <1>10 DEF Fault, vars, fieldVars
  <2>2. FieldsTypeOK' /\ RegistryFits'
    BY <2>1 DEF FramesTypeOK, FieldsTypeOK, RegistryFits
  <2>3. WorkTyped'
    BY <2>1, TypeParts DEF WorkTyped
  <2> QED BY <2>2, <2>3, TypeParts
<1> QED BY <1>1, <1>2, <1>3, <1>4, <1>5, <1>6, <1>7, <1>8, <1>9, <1>10, FrameSteps

\* Between the steps of a write the cache holds validated fields, and every
\* entry of the registry keeps its width, whatever bytes arrive (app_fields.c:33).
THEOREM FramesTyped ==
    ASSUME ShellFits
    PROVE  FramesSpec => []FramesTypeOK
<1>1. FramesInit => FramesTypeOK
  <2> SUFFICES ASSUME FramesInit PROVE FramesTypeOK
    OBVIOUS
  <2>1. FieldsTypeOK
    BY InitTyped DEF FramesInit
  <2>2. RegistryFits
    BY DefaultsFit DEF FramesInit, Init, FieldsInit, RegistryFits
  <2>3. WorkTyped
    BY DEF FramesInit, WorkTyped
  <2> QED BY <2>1, <2>2, <2>3, TypeParts
<1>2. FramesTypeOK /\ [FramesNext]_allVars => FramesTypeOK'
  BY ShellAssumption, WorkTypeStep
<1> QED BY <1>1, <1>2, PTL DEF FramesSpec
-----------------------------------------------------------------------------
(* What the answers and the fields are worth to a peer.                     *)

\* Every answer of less than 256 bytes fits the tag, and is found complete
\* behind the record's header (app_config.c:219).
THEOREM AnswersAreReadable ==
    ASSUME ShellFits
    PROVE  FramesSpec => []AnswerReadable
<1>1. FramesTypeOK => AnswerReadable
  <2>1. MSG_MAX \in Nat /\ MSG_MAX >= 274
    BY FrameAssumption
  <2> SUFFICES ASSUME FramesTypeOK, Len(resp) < 256
               PROVE  ReadInfo(ndef_encode_response(resp)) = resp
    BY DEF AnswerReadable
  <2>2. resp \in Seq(Int)
    BY DEF FramesTypeOK
  <2> QED BY <2>1, <2>2, RecordReads
<1> QED BY <1>1, FramesTyped, PTL

\* A field that may be written is read from these entries of the registry.
WrittenEntry == {"mode", "update_interval", "install_lat", "install_lng"}

LEMMA SameEntries ==
    ASSUME \A f \in WrittenEntry : g'[f] = g[f]
    PROVE  \A fid \in WritableField : app_field_get(fid)' = app_field_get(fid)
<1>1. /\ g'["mode"] = g["mode"] /\ g'["update_interval"] = g["update_interval"]
      /\ g'["install_lat"] = g["install_lat"] /\ g'["install_lng"] = g["install_lng"]
  BY DEF WrittenEntry
<1>2. app_field_get("MODE")' = app_field_get("MODE")
  BY <1>1 DEF app_field_get
<1>3. app_field_get("UPDATE_INTERVAL")' = app_field_get("UPDATE_INTERVAL")
  BY <1>1 DEF app_field_get
<1>4. app_field_get("INSTALL_LOCATION")' = app_field_get("INSTALL_LOCATION")
  BY <1>1 DEF app_field_get
<1> QED BY <1>2, <1>3, <1>4 DEF WritableField

LEMMA ReadsBackStep ==
    ASSUME FramesTypeOK, WrittenReadsBack, [FramesNext]_allVars,
           ShellAssumption, \A s \in ShellSets : s[1] \notin WrittenEntry
    PROVE  WrittenReadsBack'
<1>1. DOMAIN written \subseteq WritableField /\ g \in [Stored -> Int]
  BY DEF FramesTypeOK, FieldsTypeOK
<1>2. ASSUME \A f \in WrittenEntry : g'[f] = g[f], UNCHANGED written
      PROVE  WrittenReadsBack'
  BY <1>1, <1>2, SameEntries DEF WrittenReadsBack
<1>3. ASSUME written' = <<>> PROVE WrittenReadsBack'
  BY <1>3 DEF WrittenReadsBack
<1>4. CASE UNCHANGED allVars
  BY <1>2, <1>4 DEF allVars, vars, fieldVars, frameVars
<1>5. ASSUME NEW ch, NEW data, Arrives(ch, data) PROVE WrittenReadsBack'
  <2>1. UNCHANGED <<g, written>>
    BY <1>5 DEF Arrives, process_frame, ReadFrame, WriteRefused, WriteNotAllowed,
                WriteGranted, UnknownCode, Respond, fieldVars
  <2> QED BY <1>2, <2>1
<1>6. CASE ApplyField
  <2> DEFINE e == Head(cache)
  <2>1. /\ cache # <<>>
        /\ g' = Assign(g, app_field_set(e.fid, DecodeValue(e.fid, e.value)))
        /\ written' = [f \in DOMAIN written \cup {e.fid} |->
                          IF f = e.fid THEN e.value ELSE written[f]]
    BY <1>6 DEF ApplyField
  <2>2. e \in CacheEntry
    BY <2>1, HeadTailProperties DEF FramesTypeOK
  <2>3. e.fid \in WritableField /\ e.value \in Seq(Byte) /\ Len(e.value) = field_value_len(e.fid)
    BY <2>2 DEF CacheEntry
  <2>4. PICK fid, b :
           /\ g' = Assign(g, app_field_set(fid, DecodeValue(fid, b)))
           /\ written' = [f \in DOMAIN written \cup {fid} |-> IF f = fid THEN b ELSE written[f]]
           /\ fid \in WritableField /\ b \in Seq(Byte) /\ Len(b) = field_value_len(fid)
    BY <2>1, <2>3
  <2>5. /\ app_field_get(fid)' = b
        /\ \A f \in WritableField \ {fid} : app_field_get(f)' = app_field_get(f)
    BY <2>4, FieldStored
  <2>6. ASSUME NEW f \in DOMAIN written'
        PROVE  app_field_get(f)' = written'[f]
    <3>1. CASE f = fid
      BY ONLY <2>4, <2>5, <2>6, <3>1
    <3>2. CASE f # fid
      <4>1. f \in DOMAIN written /\ written'[f] = written[f]
        BY ONLY <2>4, <2>6, <3>2
      <4>2. app_field_get(f) = written[f] /\ f \in WritableField
        BY <1>1, <4>1 DEF WrittenReadsBack
      <4> QED BY ONLY <2>5, <3>2, <4>1, <4>2
    <3> QED BY <3>1, <3>2
  <2> QED BY <2>6 DEF WrittenReadsBack
<1>7. CASE WriteDone
  BY <1>2, <1>7 DEF WriteDone
<1>8. CASE Answered
  BY <1>2, <1>8 DEF Answered, vars, fieldVars
<1>9. CASE OtherCommand
  <2>1. UNCHANGED written
    BY <1>9, OtherSteps DEF frameVars
  <2>2. ASSUME NEW s \in ShellSets, g' = [g EXCEPT ![s[1]] = s[2]], NEW f \in WrittenEntry
        PROVE  g'[f] = g[f]
    BY <1>1, <2>2 DEF WrittenEntry, Stored, Config
  <2>3. \A f \in WrittenEntry : g'[f] = g[f]
    BY <1>9, <2>2, OtherSteps
  <2> QED BY <1>2, <2>1, <2>3
<1>10. CASE ResetCommand
  BY <1>3, <1>10 DEF ResetCommand
<1>11. CASE Tick /\ UNCHANGED frameVars
  BY <1>2, <1>11 DEF Tick, fieldVars, frameVars
<1>12. CASE FramesReboot
  BY <1>3, <1>12 DEF FramesReboot
<1>13. CASE Fault
  BY <1>2, <1>13 DEF Fault, vars, fieldVars
<1> QED BY <1>4, <1>5, <1>6, <1>7, <1>8, <1>9, <1>10, <1>11, <1>12, <1>13, FrameSteps

\* A field reads back the bytes last written to it, until a reset, over every
\* conversion in between; the console is to leave the fields that may be
\* written alone, whatever else it assigns (app_fields.c:362).
THEOREM WritesReadBack ==
    ASSUME ShellFits, \A s \in ShellSets : s[1] \notin WrittenEntry
    PROVE  FramesSpec => []WrittenReadsBack
<1>1. FramesInit => WrittenReadsBack
  BY DEF FramesInit, WrittenReadsBack
<1>2. FramesTypeOK /\ WrittenReadsBack /\ [FramesNext]_allVars => WrittenReadsBack'
  BY ShellAssumption, ReadsBackStep
<1> QED BY <1>1, <1>2, FramesTyped, PTL DEF FramesSpec

\* The answer to a read lies in resp from the handler's end on, while nothing
\* but the clock moves.
LEMMA ReplyStep ==
    ASSUME FramesTypeOK, ReplyDecodes, [FramesNext]_allVars
    PROVE  ReplyDecodes'
<1>1. ASSUME UNCHANGED <<g, req, resp, pc>> PROVE ReplyDecodes'
  <2>1. \A fid : InRegistry(fid)' = InRegistry(fid)
    BY <1>1 DEF InRegistry
  <2>2. Asked' = Asked
    BY <1>1 DEF Asked
  <2> QED BY <1>1, <2>1, <2>2 DEF ReplyDecodes, AnswersField
<1>2. ASSUME pc' # "reply" PROVE ReplyDecodes'
  BY <1>2 DEF ReplyDecodes
<1>3. ASSUME req'[1] # 1 PROVE ReplyDecodes'
  BY <1>3 DEF ReplyDecodes
<1>4. CASE UNCHANGED allVars
  BY <1>1, <1>4 DEF allVars, vars, fieldVars, frameVars, workVars
<1>5. ASSUME NEW ch, NEW data, Arrives(ch, data), ReadFrame(ch, data)
      PROVE  ReplyDecodes'
  <2>1. data \in Seq(Byte) /\ Len(data) \in Nat
    BY <1>5, PayloadBytes DEF Arrives
  <2>2. CASE Len(data) < 6
    <3>1. resp' = <<1, STATUS["PARAM_LEN"], 0>>
      BY <1>5, <2>2 DEF ReadFrame, Respond
    <3> QED BY <3>1 DEF ReplyDecodes, STATUS
  <2>3. CASE ~(Len(data) < 6)
    <3> DEFINE r == handle_cmd_read(data)
    <3>1. Len(data) >= 6
      BY <2>1, <2>3
    <3>2. RegistryTyped /\ RegistryFits
      BY DEF FramesTypeOK, FieldsTypeOK, RegistryTyped
    <3>3. resp' = r.bytes /\ req' = data /\ g' = g
      BY <1>5, <2>3 DEF ReadFrame, Respond
    <3>4. /\ r.bytes[2] = STATUS[r.status]
          /\ r.status \in {"OK", "PARAM_LEN", "UNSUPPORTED", "UNKNOWN"}
      BY <2>1, <3>1, <3>2, ReadHandled
    <3> HIDE DEF r
    <3>5. resp'[2] = STATUS["OK"] => r.status = "OK"
      BY <3>3, <3>4 DEF STATUS
    <3>6. Asked' = AskedIn(data)
      BY <3>3 DEF Asked, AskedIn
    <3>7. ASSUME r.status = "OK"
          PROVE  LET n == Len(AskedIn(data))
                 IN  /\ Len(resp') <= APP_PROTO_RESP_MAX
                     /\ resp'[3] = n
                     /\ Len(resp') = AnswerStart(AskedIn(data), n)
                     /\ \A i \in 1 .. n :
                           AnswersField(resp', AnswerStart(AskedIn(data), i - 1), AskedIn(data)[i])
      BY <2>1, <3>1, <3>2, <3>3, <3>7, ReadDecodes DEF r
    <3>8. \A fid : InRegistry(fid)' = InRegistry(fid)
      BY <3>3 DEF InRegistry
    <3> QED BY <3>5, <3>6, <3>7, <3>8 DEF ReplyDecodes, AnswersField
  <2> QED BY <2>2, <2>3
<1>6. ASSUME NEW ch, NEW data, Arrives(ch, data), ~ReadFrame(ch, data)
      PROVE  ReplyDecodes'
  <2>1. req' = data /\ data[1] # 1
    <3>1. data[1] \in Int
      BY <1>6, PayloadBytes DEF Arrives
    <3> QED BY <1>6, <3>1 DEF Arrives, process_frame, WriteRefused, WriteNotAllowed,
                             WriteGranted, UnknownCode, Respond
  <2> QED BY <1>3, <2>1
<1>7. CASE ApplyField
  BY <1>2, <1>7 DEF ApplyField
<1>8. CASE WriteDone
  <2>1. req' = req /\ req[1] = 2
    BY <1>8 DEF WriteDone, FramesTypeOK
  <2> QED BY <1>3, <2>1
<1>9. CASE Answered
  BY <1>2, <1>9 DEF Answered
<1>10. CASE OtherCommand
  BY <1>2, <1>10, OtherSteps DEF frameVars, workVars
<1>11. CASE ResetCommand
  BY <1>2, <1>11 DEF ResetCommand, workVars
<1>12. CASE Tick /\ UNCHANGED frameVars
  BY <1>1, <1>12 DEF Tick, fieldVars, frameVars, workVars
<1>13. CASE FramesReboot
  BY <1>2, <1>13 DEF FramesReboot
<1>14. CASE Fault
  BY <1>2, <1>14 DEF Fault
<1> QED BY <1>4, <1>5, <1>6, <1>7, <1>8, <1>9, <1>10, <1>11, <1>12, <1>13, <1>14, FrameSteps

\* The answer to an accepted read has the fields asked for, in order, as TLVs
\* that fill it to its end, with the numbers of the registry
\* (app_protocol.c:107).
THEOREM RepliesDecode ==
    ASSUME ShellFits
    PROVE  FramesSpec => []ReplyDecodes
<1>1. FramesInit => ReplyDecodes
  BY DEF FramesInit, ReplyDecodes
<1>2. FramesTypeOK /\ ReplyDecodes /\ [FramesNext]_allVars => ReplyDecodes'
  BY ReplyStep
<1> QED BY <1>1, <1>2, FramesTyped, PTL DEF FramesSpec
-----------------------------------------------------------------------------
(* The configuration stays in range, between the assignments of a write too. *)

\* A validated field as a TLV of AppProtocol.
AsTLV(e) == [fid |-> e.fid, len |-> Len(e.value), val |-> DecodeValue(e.fid, e.value)]

LEMMA EntryAccepted ==
    ASSUME NEW e \in CacheEntry
    PROVE  Accepted(AsTLV(e)) /\ Stores(e) = app_field_set(AsTLV(e).fid, AsTLV(e).val)
<1>1. PICK fid, b, v, t : /\ fid = e.fid /\ b = e.value /\ v = DecodeValue(fid, b)
                          /\ t = AsTLV(e)
  OBVIOUS
<1>2. /\ fid \in WritableField /\ b \in Seq(Byte) /\ Len(b) = field_value_len(fid)
      /\ InRange(fid, v)
  BY <1>1 DEF CacheEntry
<1>3. t.fid = fid /\ t.len = Len(b) /\ t.val = v
  BY <1>1 DEF AsTLV
<1>4. Decodes(t)
  <2>1. CASE fid = "MODE"
    <3>1. b[1] \in Byte /\ v = <<b[1]>>
      BY <1>1, <1>2, <2>1, Decoding
    <3> QED BY <1>3, <2>1, <3>1 DEF Decodes, Byte, MAX_UINT8
  <2>2. CASE fid = "UPDATE_INTERVAL"
    <3>1. v = <<get_u16_be(b)>> /\ get_u16_be(b) \in 0 .. MAX_UINT16
      BY <1>1, <1>2, <2>2, Decoding
    <3> QED BY <1>3, <2>2, <3>1 DEF Decodes
  <2>3. CASE fid = "INSTALL_LOCATION"
    <3>1. /\ v = <<get_s32_be(b), get_s32_be(SubSeq(b, 5, 8))>>
          /\ get_s32_be(b) \in INT32 /\ get_s32_be(SubSeq(b, 5, 8)) \in INT32
      BY <1>1, <1>2, <2>3, Decoding
    <3> QED BY <1>3, <2>3, <3>1 DEF Decodes
  <2> QED BY <1>2, <2>1, <2>2, <2>3 DEF WritableField
<1>5. Accepted(t)
  BY <1>2, <1>3, <1>4 DEF Accepted
<1>6. Stores(e) = app_field_set(t.fid, t.val)
  BY <1>1, <1>3 DEF Stores
<1> QED BY <1>1, <1>5, <1>6

LEMMA EntryInRange ==
    ASSUME NEW h, RegistryInRange(h), NEW e \in CacheEntry
    PROVE  RegistryInRange(Assign(h, Stores(e)))
<1> DEFINE t == AsTLV(e)
           w == Stores(e)
<1>1. Accepted(t) /\ w = app_field_set(t.fid, t.val)
  BY EntryAccepted
<1> HIDE DEF t, w
<1>2. {"mode", "update_interval"} \cup LocationEntry \subseteq Stored
  BY DEF LocationEntry, Stored, Config
<1>3. \A f \in Stored : Assign(h, w)[f] = IF f \in DOMAIN w THEN w[f] ELSE h[f]
  BY DEF Assign
<1>4. Assign(h, w)["mode"] \in 1 .. 3
  <2>1. "mode" \in DOMAIN w => w["mode"] \in 1 .. 3
    BY <1>1, Assigned
  <2> QED BY <1>2, <1>3, <2>1 DEF RegistryInRange
<1>5. Assign(h, w)["update_interval"] \in 0 .. MAX_UINT16
  <2>1. "update_interval" \in DOMAIN w => w["update_interval"] \in 0 .. MAX_UINT16
    BY <1>1, Assigned
  <2> QED BY <1>2, <1>3, <2>1 DEF RegistryInRange
<1>6. /\ Assign(h, w)["install_lat"] \in -MAX_LAT .. MAX_LAT
      /\ Assign(h, w)["install_lng"] \in -MAX_LNG .. MAX_LNG
      /\ Assign(h, w)["latitude"] = Assign(h, w)["install_lat"]
      /\ Assign(h, w)["longitude"] = Assign(h, w)["install_lng"]
  <2>1. /\ "install_lat" \in LocationEntry /\ "install_lng" \in LocationEntry
        /\ "latitude" \in LocationEntry /\ "longitude" \in LocationEntry
    BY DEF LocationEntry
  <2>2. \A f \in LocationEntry : f \in DOMAIN w <=> t.fid = "INSTALL_LOCATION"
    BY <1>1, LocationAssigned
  <2>3. CASE t.fid = "INSTALL_LOCATION"
    <3>1. /\ w["latitude"] = w["install_lat"] /\ w["longitude"] = w["install_lng"]
          /\ w["install_lat"] \in -MAX_LAT .. MAX_LAT
          /\ w["install_lng"] \in -MAX_LNG .. MAX_LNG
      BY <1>1, <2>3, LocationAssigned
    <3> QED BY <1>2, <1>3, <2>1, <2>2, <2>3, <3>1
  <2>4. CASE t.fid # "INSTALL_LOCATION"
    BY <1>2, <1>3, <2>1, <2>2, <2>4 DEF RegistryInRange
  <2> QED BY <2>3, <2>4
<1> QED BY <1>4, <1>5, <1>6 DEF RegistryInRange, w

\* Where the console does not assign, the configuration is in range after every
\* single assignment of a write, and whenever the power may fail
\* (app_protocol.c:269).
THEOREM ConfigAlwaysInRange ==
    ASSUME ShellSets = {}
    PROVE  FramesSpec => []ConfigInRange
<1>1. FramesInit => ConfigInRange
  BY DefaultsInRange, RangeMeaning DEF FramesInit, Init, FieldsInit
<1>2. ASSUME FramesTypeOK, RegistryInRange(g), [FramesNext]_allVars
      PROVE  RegistryInRange(g')
  <2>1. ASSUME g' = g PROVE RegistryInRange(g')
    BY <1>2, <2>1
  <2>2. CASE UNCHANGED allVars
    BY <2>1, <2>2 DEF allVars, vars, fieldVars
  <2>3. ASSUME NEW ch, NEW data, Arrives(ch, data) PROVE RegistryInRange(g')
    <3>1. g' = g
      BY <2>3 DEF Arrives, process_frame, ReadFrame, WriteRefused, WriteNotAllowed,
                  WriteGranted, UnknownCode, fieldVars
    <3> QED BY <2>1, <3>1
  <2>4. CASE ApplyField
    <3>1. cache # <<>> /\ g' = Assign(g, Stores(Head(cache)))
      BY <2>4 DEF ApplyField, Stores
    <3>2. Head(cache) \in CacheEntry
      BY <1>2, <3>1, HeadTailProperties DEF FramesTypeOK
    <3> QED BY <1>2, <3>1, <3>2, EntryInRange
  <2>5. CASE WriteDone \/ Answered
    BY <2>1, <2>5 DEF WriteDone, Answered, vars, fieldVars
  <2>6. CASE OtherCommand
    <3>1. g' = g
      BY <2>6, OtherSteps
    <3> QED BY <2>1, <3>1
  <2>7. CASE ResetCommand
    <3>1. \A f \in Config : g'[f] = Defaults[f]
      BY <2>7 DEF ResetCommand, FactoryReset, app_fields_init, Stored
    <3> QED BY <3>1, DefaultsInRange DEF RegistryInRange, Config
  <2>8. CASE Tick /\ UNCHANGED frameVars
    BY <2>1, <2>8 DEF Tick, fieldVars
  <2>9. CASE FramesReboot
    <3>1. g' = Defaults
      BY <2>9 DEF FramesReboot, Reboot, FieldsRestart
    <3> QED BY <3>1, DefaultsInRange
  <2>10. CASE Fault
    BY <2>1, <2>10 DEF Fault, vars, fieldVars
  <2> QED BY <1>2, <2>2, <2>3, <2>4, <2>5, <2>6, <2>7, <2>8, <2>9, <2>10, FrameSteps
<1>3. FramesTypeOK /\ ConfigInRange /\ [FramesNext]_allVars => ConfigInRange'
  BY <1>2, RangeMeaning
<1>4. ShellFits
  BY DEF ShellFits
<1> QED BY <1>1, <1>3, <1>4, FramesTyped, PTL DEF FramesSpec
-----------------------------------------------------------------------------
(* What the remaining assignments of a write make of the registry.          *)

\* The fields of a cache that assign an entry; the last of them has its value.
Assigns(c, f) == {i \in 1 .. Len(c) : f \in DOMAIN Stores(c[i])}
PendingOf(h, c) ==
    [f \in Stored |-> IF Assigns(c, f) = {} THEN h[f] ELSE Stores(c[Max(Assigns(c, f))])[f]]

LEMMA NothingPending ==
    ASSUME NEW h \in [Stored -> Int]
    PROVE  PendingOf(h, <<>>) = h
<1>1. \A f : Assigns(<<>>, f) = {}
  BY DEF Assigns
<1> QED BY <1>1 DEF PendingOf

PendingVia(h, c, w) ==
    [f \in Stored |->
        LET writers == {i \in 1 .. Len(c) : f \in DOMAIN w[i]}
        IN  IF writers = {} THEN h[f] ELSE w[Max(writers)][f]]

LEMMA PendingTable ==
    ASSUME NEW h, NEW c, Len(c) \in Nat
    PROVE  PendingVia(h, c, [i \in 1 .. Len(c) |-> Stores(c[i])]) = PendingOf(h, c)
<1> DEFINE w == [i \in 1 .. Len(c) |-> Stores(c[i])]
<1>1. \A i \in 1 .. Len(c) : w[i] = Stores(c[i])
  OBVIOUS
<1> HIDE DEF w
<1>2. ASSUME NEW f \in Stored
      PROVE  PendingVia(h, c, w)[f] = PendingOf(h, c)[f]
  <2>1. {i \in 1 .. Len(c) : f \in DOMAIN w[i]} = Assigns(c, f)
    BY <1>1 DEF Assigns
  <2>2. PendingVia(h, c, w)[f] = IF Assigns(c, f) = {} THEN h[f] ELSE w[Max(Assigns(c, f))][f]
    BY <2>1 DEF PendingVia
  <2>3. Assigns(c, f) # {} => Max(Assigns(c, f)) \in 1 .. Len(c)
    <3>1. Assigns(c, f) \subseteq 1 .. Len(c)
      BY DEF Assigns
    <3> QED BY <3>1, LastPosition
  <2>4. Assigns(c, f) # {} => w[Max(Assigns(c, f))] = Stores(c[Max(Assigns(c, f))])
    BY <1>1, <2>3
  <2>5. PendingOf(h, c)[f] = IF Assigns(c, f) = {} THEN h[f]
                             ELSE Stores(c[Max(Assigns(c, f))])[f]
    BY DEF PendingOf
  <2> QED BY ONLY <2>2, <2>4, <2>5
<1>3. PendingVia(h, c, w) = PendingOf(h, c)
  BY <1>2 DEF PendingVia, PendingOf
<1> QED BY <1>3 DEF w

LEMMA PendingIs ==
    /\ g \in [Stored -> Int] /\ cache \in Seq(CacheEntry) => Pending = PendingOf(g, cache)
    /\ g' \in [Stored -> Int] /\ cache' \in Seq(CacheEntry) => Pending' = PendingOf(g', cache')
    /\ cache = <<>> => Pending = g
    /\ cache' = <<>> => Pending' = g'
<1>1. (cache = <<>> => Pending = g) /\ (cache' = <<>> => Pending' = g')
  BY DEF Pending
<1>2. \A c \in Seq(CacheEntry) : Len(c) \in Nat
  OBVIOUS
<1>3. ASSUME cache \in Seq(CacheEntry), cache # <<>>
      PROVE  Pending = PendingOf(g, cache)
  <2>1. Pending = PendingVia(g, cache, [i \in 1 .. Len(cache) |-> Stores(cache[i])])
    BY <1>3 DEF Pending, PendingVia, Remaining, Stores
  <2> QED BY <1>2, <1>3, <2>1, PendingTable
<1>4. ASSUME cache' \in Seq(CacheEntry), cache' # <<>>
      PROVE  Pending' = PendingOf(g', cache')
  <2>1. Pending' = PendingVia(g', cache', [i \in 1 .. Len(cache') |-> Stores(cache'[i])])
    BY <1>4 DEF Pending, PendingVia, Remaining, Stores
  <2> QED BY <1>2, <1>4, <2>1, PendingTable
<1> QED BY <1>1, <1>3, <1>4, NothingPending

LEMMA LastIsLargest ==
    ASSUME NEW n \in Nat, NEW S, S \subseteq 1 .. n, S # {}
    PROVE  \A j \in S : j <= Max(S)
<1>1. \E m \in S : \A j \in S : m >= j
  <2> DEFINE T == {n - i : i \in S}
  <2>1. T \subseteq Nat /\ T # {}
    <3>1. PICK i \in S : TRUE
      OBVIOUS
    <3>2. n - i \in T
      OBVIOUS
    <3>3. T \subseteq Nat
      OBVIOUS
    <3> QED BY <3>2, <3>3
  <2> HIDE DEF T
  <2>2. PICK x \in T : \A y \in T : x <= y
    BY <2>1, Least
  <2>3. PICK m \in S : x = n - m
    BY DEF T
  <2>4. ASSUME NEW j \in S PROVE m >= j
    <3>1. n - j \in T
      BY DEF T
    <3>2. n - m <= n - j
      BY <2>2, <2>3, <3>1
    <3>3. m \in Int /\ j \in Int
      BY S \subseteq 1 .. n
    <3> QED BY <3>2, <3>3
  <2> QED BY <2>4
<1>2. Max(S) \in S /\ \A j \in S : Max(S) >= j
  BY <1>1 DEF Max
<1>3. \A j \in S : j \in Int
  BY S \subseteq 1 .. n
<1> QED BY ONLY <1>2, <1>3

LEMMA MaxIs ==
    ASSUME NEW n \in Nat, NEW S, S \subseteq 1 .. n, NEW m \in S, \A j \in S : j <= m
    PROVE  Max(S) = m
<1>1. \A j \in S : m >= j
  BY S \subseteq 1 .. n
<1>2. Max(S) \in S /\ \A j \in S : Max(S) >= j
  BY <1>1 DEF Max
<1>3. Max(S) \in Int /\ m \in Int
  <2>1. \A j \in S : j \in Int
    BY S \subseteq 1 .. n
  <2> QED BY Zenon, <1>2, <2>1
<1>4. Max(S) >= m /\ Max(S) <= m
  BY <1>2
<1> QED BY ONLY <1>3, <1>4

\* The next assignment is one of those that were pending.
LEMMA PendingStep ==
    ASSUME NEW h, NEW c \in Seq(CacheEntry), c # <<>>
    PROVE  PendingOf(Assign(h, Stores(Head(c))), Tail(c)) = PendingOf(h, c)
<1> DEFINE n == Len(c)
           t == Tail(c)
           k == Assign(h, Stores(Head(c)))
<1>1. /\ n \in Nat /\ n >= 1 /\ Len(t) = n - 1 /\ Head(c) = c[1]
      /\ \A i \in 1 .. n - 1 : t[i] = c[i + 1]
  BY HeadTailProperties
<1>2. \A f \in Stored : k[f] = IF f \in DOMAIN Stores(c[1]) THEN Stores(c[1])[f] ELSE h[f]
  BY <1>1 DEF Assign
<1> HIDE DEF n, t, k
<1>3. ASSUME NEW f \in Stored
      PROVE  PendingOf(k, t)[f] = PendingOf(h, c)[f]
  <2> DEFINE A == Assigns(c, f)
             B == Assigns(t, f)
  <2>1. /\ A \subseteq 1 .. n /\ B \subseteq 1 .. n - 1
        /\ 1 \in A <=> f \in DOMAIN Stores(c[1])
        /\ \A i \in 1 .. n - 1 : i \in B <=> i + 1 \in A
    <3>1. \A i : i \in A <=> i \in 1 .. n /\ f \in DOMAIN Stores(c[i])
      BY DEF Assigns, n
    <3>2. \A i : i \in B <=> i \in 1 .. n - 1 /\ f \in DOMAIN Stores(t[i])
      BY <1>1 DEF Assigns
    <3> HIDE DEF A, B
    <3>3. \A i \in 1 .. n - 1 : i + 1 \in 1 .. n /\ 1 \in 1 .. n
      BY <1>1
    <3>4. 1 \in 1 .. n
      BY <1>1
    <3>5. A \subseteq 1 .. n /\ B \subseteq 1 .. n - 1
      BY <3>1, <3>2
    <3>6. ASSUME NEW i \in 1 .. n - 1 PROVE i \in B <=> i + 1 \in A
      BY <1>1, <3>1, <3>2, <3>3
    <3> QED BY <3>1, <3>4, <3>5, <3>6
  <2>2. /\ PendingOf(h, c)[f] = IF A = {} THEN h[f] ELSE Stores(c[Max(A)])[f]
        /\ PendingOf(k, t)[f] = IF B = {} THEN k[f] ELSE Stores(t[Max(B)])[f]
    BY DEF PendingOf
  <2> HIDE DEF A, B
  <2>3. CASE B # {}
    <3> DEFINE m == Max(B)
    <3>1. n - 1 \in Nat
      BY <1>1
    <3>2. m \in B
      BY <2>1, <2>3, <3>1, LastPosition
    <3>3. \A j \in B : j <= m
      BY <2>1, <2>3, <3>1, <3>2, LastIsLargest DEF m
    <3> HIDE DEF m
    <3>4. m \in 1 .. n - 1 /\ m + 1 \in A /\ t[m] = c[m + 1]
      BY <1>1, <2>1, <3>2
    <3>5. \A j \in A : j <= m + 1
      <4> SUFFICES ASSUME NEW j \in A PROVE j <= m + 1
        OBVIOUS
      <4>1. j \in 1 .. n /\ n \in Nat /\ m \in Nat
        BY <1>1, <2>1, <3>4
      <4>2. CASE j = 1
        BY <4>1, <4>2
      <4>3. CASE j # 1
        <5>1. j - 1 \in 1 .. n - 1 /\ (j - 1) + 1 = j
          BY <4>1, <4>3
        <5>2. j - 1 \in B
          BY <2>1, <5>1
        <5> QED BY <3>3, <4>1, <5>2
      <4> QED BY <4>2, <4>3
    <3>6. Max(A) = m + 1
      BY <1>1, <2>1, <3>4, <3>5, MaxIs
    <3> QED BY <2>2, <2>3, <3>4, <3>6 DEF m
  <2>4. CASE B = {} /\ 1 \in A
    <3>1. A \subseteq {1}
      <4> SUFFICES ASSUME NEW j \in A, j # 1 PROVE FALSE
        OBVIOUS
      <4>1. j - 1 \in 1 .. n - 1 /\ (j - 1) + 1 = j
        BY <1>1, <2>1
      <4> QED BY <2>1, <2>4, <4>1
    <3>2. \A j \in A : j <= 1
      BY <3>1
    <3>3. Max(A) = 1
      BY <1>1, <2>1, <2>4, <3>2, MaxIs
    <3> QED BY <1>2, <2>1, <2>2, <2>4, <3>3
  <2>5. CASE B = {} /\ 1 \notin A
    <3>1. A = {}
      <4> SUFFICES ASSUME NEW j \in A PROVE FALSE
        OBVIOUS
      <4>1. j - 1 \in 1 .. n - 1 /\ (j - 1) + 1 = j
        BY <1>1, <2>1, <2>5
      <4> QED BY <2>1, <2>5, <4>1
    <3> QED BY <1>2, <2>1, <2>2, <2>5, <3>1
  <2> QED BY <2>3, <2>4, <2>5
<1>4. PendingOf(k, t) = PendingOf(h, c)
  BY <1>3 DEF PendingOf
<1> QED BY <1>4 DEF k, t

\* A granted write is about to do what the request asks for.
LEMMA GrantedPending ==
    ASSUME NEW h, NEW data \in Seq(Byte), NEW q \in WriteReqs, CarriesWrite(data, q),
           CheckWrite(data).status = "OK"
    PROVE  /\ WriteStatus(q) = "OK"
           /\ PendingOf(h, CheckWrite(data).cache) = Apply(h, q)
<1>1. WriteStatus(q) = "OK"
  BY WriteJudged
<1>2. PICK c : c = CheckWrite(data).cache
  OBVIOUS
<1>3. /\ q.count \in Nat /\ Len(c) = q.count
      /\ \A i \in 1 .. q.count : Stores(c[i]) = Assignment(q, i)
  BY <1>1, <1>2, WriteJudged DEF Assignment
<1>4. ASSUME NEW f \in Stored
      PROVE  PendingOf(h, c)[f] = Apply(h, q)[f]
  <2>1. Assigns(c, f) = Writers(q, f)
    BY <1>3 DEF Assigns, Writers
  <2>2. Writers(q, f) # {} => Max(Writers(q, f)) \in 1 .. q.count
    BY <1>1, LastWriter DEF Writers
  <2>3. PendingOf(h, c)[f] = IF Writers(q, f) = {} THEN h[f]
                             ELSE Stores(c[Max(Writers(q, f))])[f]
    BY <2>1 DEF PendingOf
  <2> QED BY <1>3, <2>2, <2>3, ApplyEntry
<1>5. PendingOf(h, c) = Apply(h, q)
  BY <1>4 DEF PendingOf, Apply
<1> QED BY <1>1, <1>2, <1>5
-----------------------------------------------------------------------------
(* A frame is judged as the request it was made from.                       *)

LEMMA FrameJudged ==
    ASSUME FramesTypeOK, NEW ch, NEW data, Arrives(ch, data)
    PROVE  /\ req' = data
           /\ \A r \in Meaning[data].reads : last'.status = ReadStatus(r)
           /\ \A q \in Meaning[data].writes :
                 /\ pc' = "apply" => Pending' = Apply(g, q)
                 /\ IF WriteStatus(q) # "OK" THEN last'.status = WriteStatus(q)
                    ELSE pc' = "apply" \/ last'.status \in {"AUTH_REQUIRED", "AUTH_EXPIRED"}
<1>1. /\ data \in Seq(Byte) /\ data \in Payload /\ data[1] \in Int
      /\ process_frame(ch, data)
  BY PayloadBytes DEF Arrives
<1>2. req' = data
  BY <1>1 DEF process_frame, ReadFrame, WriteRefused, WriteNotAllowed, WriteGranted,
              UnknownCode, Respond
<1>3. ASSUME NEW r \in Meaning[data].reads
      PROVE  last'.status = ReadStatus(r)
  <2>1. r \in ReadReqs /\ CarriesRead(data, r)
    BY <1>1, <1>3 DEF Meaning
  <2>2. RegistryTyped
    BY DEF FramesTypeOK, FieldsTypeOK, RegistryTyped
  <2>3. Len(data) >= 6 /\ handle_cmd_read(data).status = ReadStatus(r)
    BY <1>1, <2>1, <2>2, ReadJudged
  <2>4. data[1] = 1
    BY <2>1 DEF CarriesRead
  <2>5. ReadFrame(ch, data)
    BY <1>1, <2>4 DEF process_frame, WriteRefused, WriteNotAllowed, WriteGranted, UnknownCode
  <2>6. ~(Len(data) < 6)
    BY <1>1, <2>3
  <2>7. Reply(ch, "READ", handle_cmd_read(data).status)
    BY <2>5, <2>6 DEF ReadFrame
  <2> QED BY <2>3, <2>7 DEF Reply
<1>4. ASSUME NEW q \in Meaning[data].writes
      PROVE  /\ pc' = "apply" => Pending' = Apply(g, q)
             /\ IF WriteStatus(q) # "OK" THEN last'.status = WriteStatus(q)
                ELSE pc' = "apply" \/ last'.status \in {"AUTH_REQUIRED", "AUTH_EXPIRED"}
  <2>1. q \in WriteReqs /\ CarriesWrite(data, q)
    BY <1>1, <1>4 DEF Meaning
  <2>2. CheckWrite(data).status = WriteStatus(q) /\ data[1] = 2
    BY <1>1, <2>1, WriteJudged DEF CarriesWrite
  <2>3. CASE WriteRefused(ch, data)
    BY <2>2, <2>3 DEF WriteRefused, Reply, Respond
  <2>4. CASE WriteNotAllowed(ch, data)
    <3>1. last'.status = app_auth_check_write(ch) /\ app_auth_check_write(ch) # "OK"
      BY <2>4 DEF WriteNotAllowed, Reply
    <3>2. pc' = "reply" /\ WriteStatus(q) = "OK"
      BY <2>2, <2>4 DEF WriteNotAllowed, Respond
    <3> QED BY <3>1, <3>2, Statuses
  <2>5. CASE WriteGranted(ch, data)
    <3>1. /\ CheckWrite(data).status = "OK" /\ pc' = "apply" /\ g' = g
          /\ cache' = CheckWrite(data).cache
      BY <2>5 DEF WriteGranted, fieldVars
    <3>2. cache' \in Seq(CacheEntry) /\ g' \in [Stored -> Int]
      BY <1>1, <3>1, CacheFilled DEF FramesTypeOK, FieldsTypeOK
    <3>3. Pending' = PendingOf(g', cache')
      BY <3>2, PendingIs
    <3>4. WriteStatus(q) = "OK" /\ PendingOf(g, CheckWrite(data).cache) = Apply(g, q)
      BY <1>1, <2>1, <3>1, GrantedPending
    <3> QED BY <3>1, <3>3, <3>4
  <2> QED BY <1>1, <2>2, <2>3, <2>4, <2>5 DEF process_frame, ReadFrame, UnknownCode
<1> QED BY <1>2, <1>3, <1>4

\* The device's counters, of 8 bits, and what is due without them.
LEMMA DueVerdicts ==
    /\ \A r \in ReadReqs : \/ ReadStatus(r) = ReadDue(r)
                           \/ ReadStatus(r) = "PARAM_LEN" /\ Len(r.fields) > 255
    /\ \A q : ~Miscounted(q) => WriteStatus(q) = WriteDue(q)
<1>1. ASSUME NEW r \in ReadReqs
      PROVE  \/ ReadStatus(r) = ReadDue(r)
             \/ ReadStatus(r) = "PARAM_LEN" /\ Len(r.fields) > 255
  <2>1. PICK n : n = Len(r.fields)
    OBVIOUS
  <2>2. n \in Nat /\ r.count \in Nat
    <3>1. r.count \in 0 .. MAX_UINT8 /\ Len(r.fields) \in Nat
      BY RequestAssumption
    <3>2. 0 .. MAX_UINT8 \subseteq Nat
      BY SMT DEF MAX_UINT8
    <3> QED BY <2>1, <3>1, <3>2
  <2>3. n % 256 <= n /\ n % 256 \in Nat
    BY <2>2
  <2>4. n <= 255 => n % 256 = n
    BY <2>2
  <2>5. CASE (r.count > n % 256) <=> (r.count > n)
    BY <2>1, <2>5 DEF ReadStatus, ReadDue
  <2>6. CASE r.count > n % 256 /\ ~(r.count > n)
    <3>1. n > 255
      BY <2>2, <2>4, <2>6
    <3>2. r.count # 0
      BY <2>2, <2>3, <2>6
    <3> QED BY <2>1, <2>6, <3>1, <3>2 DEF ReadStatus
  <2>7. r.count > n => r.count > n % 256
    BY <2>2, <2>3
  <2> QED BY <2>5, <2>6, <2>7
<1>2. ASSUME NEW q, ~Miscounted(q) PROVE WriteStatus(q) = WriteDue(q)
  BY <1>2 DEF Miscounted, WriteStatus, WriteDue
<1> QED BY <1>1, <1>2

\* The device judges a frame, byte by byte, as is due to the request the peer
\* made it from, and grants the values the peer encoded, whatever the lengths
\* and the order of the fields; where its counters wrap, it refuses a read it
\* could answer, and takes a write with 256 fields too many (app_protocol.c:107,
\* app_tlv.c:49).
THEOREM FramesMeanRequests ==
    ASSUME ShellFits
    PROVE  FramesSpec => FrameMeansRequest
<1> DEFINE Judged ==
      pc = "idle" /\ pc' \in {"apply", "reply"} =>
         /\ \A r \in Meaning[req'].reads :
               \/ last'.status = ReadDue(r)
               \/ last'.status = "PARAM_LEN" /\ Len(r.fields) > 255
         /\ \A q \in Meaning[req'].writes :
               /\ pc' = "apply" => Pending' = Apply(g, q)
               /\ ~Miscounted(q) =>
                     IF WriteDue(q) # "OK" THEN last'.status = WriteDue(q)
                     ELSE pc' = "apply" \/ last'.status \in {"AUTH_REQUIRED", "AUTH_EXPIRED"}
<1>1. ASSUME FramesTypeOK, FramesNext PROVE Judged
  <2>1. ASSUME NEW ch, NEW data, Arrives(ch, data) PROVE Judged
    <3>1. Meaning[data].reads \subseteq ReadReqs
      BY <2>1 DEF Arrives, Meaning
    <3> QED BY <1>1, <2>1, <3>1, FrameJudged, DueVerdicts
  <2>2. ASSUME ~(\E ch, data : Arrives(ch, data))
        PROVE  pc # "idle" \/ pc' \in {"idle", "fault"}
    <3>1. CASE ApplyField \/ WriteDone \/ Answered
      BY <3>1 DEF ApplyField, WriteDone, Answered
    <3>2. CASE OtherCommand
      BY <3>2, OtherSteps DEF frameVars, workVars
    <3>3. CASE ResetCommand
      BY <3>3 DEF ResetCommand, workVars
    <3>4. CASE Tick /\ UNCHANGED frameVars
      BY <3>4 DEF frameVars, workVars
    <3>5. CASE FramesReboot
      BY <3>5 DEF FramesReboot
    <3>6. CASE Fault
      BY <3>6 DEF Fault
    <3> QED BY <1>1, <2>2, <3>1, <3>2, <3>3, <3>4, <3>5, <3>6, FrameSteps
  <2> QED BY <2>1, <2>2
<1>2. FramesTypeOK /\ [FramesNext]_allVars => [Judged]_allVars
  BY <1>1
<1> QED BY <1>2, FramesTyped, PTL DEF FramesSpec, FrameMeansRequest
-----------------------------------------------------------------------------
(* The frames implement AppProtocol.  First what the mapping leaves as it   *)
(* is: everything but the registry, the device state and the window.        *)

LEMMA SameSets ==
    /\ Proto!Channel = Channel /\ Proto!Stored = Stored /\ Proto!Config = Config
    /\ Proto!Defaults = Defaults /\ Proto!Token = Token
    /\ Proto!WritableField = WritableField /\ Proto!ReadableField = ReadableField
  BY DEF Proto!Channel, Channel, Proto!Stored, Stored, Proto!Sensor, Sensor,
         Proto!Config, Config, Proto!Defaults, Defaults, Proto!Token, Token,
         Proto!Hmac, Hmac, Proto!Nonce, Nonce, Proto!WritableField, WritableField,
         Proto!ReadableField, ReadableField

LEMMA SameOperators ==
    /\ \A fid : Proto!field_value_len(fid) = field_value_len(fid)
    /\ \A fid, v : Proto!InRange(fid, v) <=> InRange(fid, v)
    /\ \A t : Proto!app_field_validate(t) = app_field_validate(t)
    /\ \A fid, v : Proto!app_field_set(fid, v) = app_field_set(fid, v)
    /\ \A S : Proto!Min(S) = Min(S) /\ Proto!Max(S) = Max(S)
    /\ \A S, b, n, x : Proto!Loop(S, b, n, x) = Loop(S, b, n, x)
<1>1. \A fid : Proto!field_value_len(fid) = field_value_len(fid)
  BY DEF Proto!field_value_len, field_value_len
<1>2. \A fid, v : Proto!InRange(fid, v) <=> InRange(fid, v)
  <2>1. Proto!MAX_LAT = MAX_LAT /\ Proto!MAX_LNG = MAX_LNG
    BY DEF Proto!MAX_LAT, MAX_LAT, Proto!MAX_LNG, MAX_LNG
  <2> QED BY <2>1 DEF Proto!InRange, InRange
<1>3. \A t : Proto!app_field_validate(t) = app_field_validate(t)
  BY <1>1, <1>2, SameSets DEF Proto!app_field_validate, app_field_validate
<1>4. \A fid, v : Proto!app_field_set(fid, v) = app_field_set(fid, v)
  BY DEF Proto!app_field_set, app_field_set
<1>5. \A S : Proto!Min(S) = Min(S) /\ Proto!Max(S) = Max(S)
  BY DEF Proto!Min, Min, Proto!Max, Max
<1>6. \A S, b, n, x : Proto!Loop(S, b, n, x) = Loop(S, b, n, x)
  BY DEF Proto!Loop, Loop
<1> QED BY <1>1, <1>2, <1>3, <1>4, <1>5, <1>6

LEMMA SameJudgement ==
    /\ \A r : Proto!ReadStatus(r) = ReadStatus(r)
    /\ \A q : Proto!WriteStatus(q) = WriteStatus(q)
    /\ \A h, q : Proto!Apply(h, q) = Apply(h, q)
<1>1. \A fields, n : Proto!AnswerLen(fields, n) = AnswerLen(fields, n)
  BY SameOperators DEF Proto!AnswerLen, AnswerLen
<1>2. \A r : Proto!ReadLen(r) = ReadLen(r)
  BY <1>1 DEF Proto!ReadLen, ReadLen
<1>3. \A r : Proto!ReadStatus(r) = ReadStatus(r)
  BY <1>2, SameSets DEF Proto!ReadStatus, ReadStatus, Proto!APP_PROTO_RESP_MAX, APP_PROTO_RESP_MAX
<1>4. \A q : Proto!Wrong(q) = Wrong(q)
  BY SameOperators DEF Proto!Wrong, Wrong, Proto!WRITE_CACHE_MAX, WRITE_CACHE_MAX
<1>5. \A q : Proto!WriteStatus(q) = WriteStatus(q)
  BY <1>4, SameOperators DEF Proto!WriteStatus, WriteStatus, Proto!WRITE_CACHE_MAX, WRITE_CACHE_MAX
<1>6. \A h, q : Proto!Apply(h, q) = Apply(h, q)
  BY ZenonT(60), SameSets, SameOperators DEF Proto!Apply, Apply
<1> QED BY <1>3, <1>5, <1>6

LEMMA SameReply ==
    /\ \A ch, cmd, status : Proto!Reply(ch, cmd, status) <=> Reply(ch, cmd, status)
    /\ \A ch : Proto!app_auth_check_write(ch) = app_auth_check_write(ch)
    /\ \A ch : Proto!AfterCheck(ch) <=> AfterCheck(ch)
    /\ Proto!authVars = authVars
    /\ (UNCHANGED Proto!authVars) <=> UNCHANGED authVars
<1>1. \A ch, cmd, status : Proto!Reply(ch, cmd, status) <=> Reply(ch, cmd, status)
  BY SameSets DEF Proto!Reply, Reply, Proto!Never, Never
<1>2. \A ch : Proto!app_auth_check_write(ch) = app_auth_check_write(ch)
  BY DEF Proto!app_auth_check_write, app_auth_check_write
<1>3. \A ch : Proto!AfterCheck(ch) <=> AfterCheck(ch)
  BY <1>2 DEF Proto!AfterCheck, AfterCheck
<1>4. Proto!authVars = authVars /\ ((UNCHANGED Proto!authVars) <=> UNCHANGED authVars)
  BY DEF Proto!authVars, authVars
<1> QED BY <1>1, <1>2, <1>3, <1>4

LEMMA SameAuth ==
    /\ \A ch : app_auth_handle_cmd(ch) => Proto!app_auth_handle_cmd(ch)
    /\ app_auth_ble_disconnect => Proto!app_auth_ble_disconnect
    /\ AuthRestart => Proto!AuthRestart
    /\ AuthInit => Proto!AuthInit
<1>1. ASSUME NEW ch, app_auth_handle_cmd(ch) PROVE Proto!app_auth_handle_cmd(ch)
  <2>1. CASE NonceCmd(ch)
    <3>1. Proto!NonceCmd(ch)
      BY <2>1, SameReply DEF NonceCmd, Proto!NonceCmd
    <3> QED BY <3>1 DEF Proto!app_auth_handle_cmd
  <2>2. ASSUME NEW token \in Token, TokenJudged(ch, token)
        PROVE  Proto!app_auth_handle_cmd(ch)
    <3>1. Proto!TokenJudged(ch, token)
      BY <2>2, SameReply DEF TokenJudged, Proto!TokenJudged, Hmac, Proto!Hmac, channel_unlock,
         Proto!channel_unlock, channel_lock, Proto!channel_lock
    <3> QED BY <3>1, SameSets DEF Proto!app_auth_handle_cmd
  <2>3. CASE TokenRefused(ch)
    <3>1. Proto!TokenRefused(ch)
      BY <2>3, SameReply DEF TokenRefused, Proto!TokenRefused
    <3> QED BY <3>1 DEF Proto!app_auth_handle_cmd
  <2>4. ASSUME NEW hash \in Hash, ChangePwd(ch, hash)
        PROVE  Proto!app_auth_handle_cmd(ch)
    <3>1. Proto!ChangePwd(ch, hash)
      BY <2>4, SameReply DEF ChangePwd, Proto!ChangePwd
    <3> QED BY <3>1 DEF Proto!app_auth_handle_cmd
  <2>5. CASE ChangePwdRefused(ch)
    <3>1. Proto!ChangePwdRefused(ch)
      BY <2>5, SameReply DEF ChangePwdRefused, Proto!ChangePwdRefused
    <3> QED BY <3>1 DEF Proto!app_auth_handle_cmd
  <2>6. CASE LockCmd(ch)
    <3>1. Proto!LockCmd(ch)
      BY <2>6, SameReply DEF LockCmd, Proto!LockCmd, channel_lock, Proto!channel_lock
    <3> QED BY <3>1 DEF Proto!app_auth_handle_cmd
  <2>7. CASE AuthUnsupported(ch)
    <3>1. Proto!AuthUnsupported(ch)
      BY <2>7, SameReply DEF AuthUnsupported, Proto!AuthUnsupported
    <3> QED BY <3>1 DEF Proto!app_auth_handle_cmd
  <2> QED BY <1>1, <2>1, <2>2, <2>3, <2>4, <2>5, <2>6, <2>7 DEF app_auth_handle_cmd
<1>2. app_auth_ble_disconnect => Proto!app_auth_ble_disconnect
  BY SameReply DEF app_auth_ble_disconnect, Proto!app_auth_ble_disconnect
<1>3. AuthRestart => Proto!AuthRestart
  BY SameSets DEF AuthRestart, Proto!AuthRestart
<1>4. AuthInit => Proto!AuthInit
  BY SameSets DEF AuthInit, Proto!AuthInit
<1> QED BY <1>1, <1>2, <1>3, <1>4
\* The values the mapping gives to the device state and the window's flag.
ProtoState == IF LeavesFactory THEN "POWER_ON" ELSE device_state
ProtoDone == factory_init_done \/ LeavesFactory

\* Between two commands nothing is pending, and the mapping is the identity.
Settled == Pending = g /\ ProtoState = device_state /\ ProtoDone = factory_init_done

LEMMA IdleIsSettled ==
    /\ FramesTypeOK /\ pc # "apply" => Settled
    /\ FramesTypeOK' /\ pc' # "apply" => Settled'
<1>1. ASSUME FramesTypeOK, pc # "apply" PROVE Settled
  <2>1. cache = <<>> /\ LeavesFactory = FALSE /\ factory_init_done \in BOOLEAN
    BY <1>1 DEF FramesTypeOK, FieldsTypeOK, LeavesFactory
  <2>2. ProtoState = device_state
    BY <2>1 DEF ProtoState
  <2>3. ProtoDone = factory_init_done
    BY <2>1 DEF ProtoDone
  <2> QED BY <2>1, <2>2, <2>3, PendingIs DEF Settled
<1>2. ASSUME FramesTypeOK', pc' # "apply" PROVE Settled'
  <2>1. cache' = <<>> /\ LeavesFactory' = FALSE /\ factory_init_done' \in BOOLEAN
    BY <1>2 DEF FramesTypeOK, FieldsTypeOK, LeavesFactory
  <2>2. ProtoState' = device_state'
    BY <2>1 DEF ProtoState
  <2>3. ProtoDone' = factory_init_done'
    BY <2>1 DEF ProtoDone
  <2> QED BY <2>1, <2>2, <2>3, PendingIs DEF Settled
<1> QED BY <1>1, <1>2

\* The steps that take the system from one settled state to another, with the
\* mapped values by their names.
LEMMA SettledFields ==
    ASSUME Settled, Settled'
    PROVE  /\ Proto!FactoryWindow <=> FactoryWindow
           /\ UNCHANGED fieldVars => UNCHANGED Proto!fieldVars
<1>1. /\ Pending = g /\ ProtoState = device_state /\ ProtoDone = factory_init_done
      /\ Pending' = g' /\ ProtoState' = device_state' /\ ProtoDone' = factory_init_done'
  BY DEF Settled
<1> HIDE DEF ProtoState, ProtoDone
<1>2. Proto!FactoryWindow <=> ProtoState = "FACTORY" /\ ~ProtoDone
  BY DEF Proto!FactoryWindow, ProtoState, ProtoDone
<1>3. Proto!fieldVars = <<Pending, ProtoState, ProtoDone, unixtime>>
      /\ Proto!fieldVars' = <<Pending', ProtoState', ProtoDone', unixtime'>>
  BY DEF Proto!fieldVars, ProtoState, ProtoDone
<1>4. Proto!FactoryWindow <=> FactoryWindow
  BY <1>1, <1>2 DEF FactoryWindow
<1>5. UNCHANGED fieldVars => UNCHANGED Proto!fieldVars
  BY <1>1, <1>3 DEF fieldVars
<1> QED BY <1>4, <1>5
\* The commands other than reads and writes are the protocol's own.
LEMMA OthersImplement ==
    ASSUME Settled, Settled', OtherCommand \/ ResetCommand
    PROVE  Proto!Next
<1>1. /\ Pending = g /\ ProtoState = device_state /\ ProtoDone = factory_init_done
      /\ Pending' = g' /\ ProtoState' = device_state' /\ ProtoDone' = factory_init_done'
  BY DEF Settled
<1> HIDE DEF ProtoState, ProtoDone
<1>2. ASSUME NEW ch \in Channel, Proto!process_app_payload(ch) PROVE Proto!Next
  BY <1>2, SameSets DEF Proto!Next
<1>3. ASSUME NEW ch \in Channel, app_auth_handle_cmd(ch), UNCHANGED <<uptime, fieldVars>>
      PROVE  Proto!Next
  <2>1. UNCHANGED Proto!fieldVars /\ uptime' = uptime
    BY <1>3, SettledFields
  <2>2. Proto!process_app_payload(ch)
    BY <1>3, <2>1, SameAuth DEF Proto!process_app_payload
  <2> QED BY <1>2, <2>2
<1>4. ASSUME NEW ch \in Channel, PowerOn(ch) PROVE Proto!Next
  <2>1. /\ ProtoState' = "POWER_ON" /\ Reply(ch, "POWER_ON", "OK")
        /\ UNCHANGED <<authVars, issued, uptime, Pending, ProtoDone, unixtime>>
    BY <1>1, <1>4 DEF PowerOn
  <2>2. Proto!PowerOn(ch)
    BY <2>1, SameReply DEF Proto!PowerOn, ProtoState, ProtoDone
  <2> QED BY <1>2, <2>2 DEF Proto!process_app_payload
<1>5. ASSUME NEW ch \in Channel, PowerOff(ch) PROVE Proto!Next
  <2>1. /\ app_auth_check_write(ch) = "OK"
        /\ ProtoState' = "POWER_OFF" /\ Reply(ch, "POWER_OFF", "OK")
        /\ UNCHANGED <<authVars, issued, uptime, Pending, ProtoDone, unixtime>>
    BY <1>1, <1>5 DEF PowerOff
  <2>2. Proto!PowerOff(ch)
    BY <2>1, SameReply DEF Proto!PowerOff, ProtoState, ProtoDone
  <2> QED BY <1>2, <2>2 DEF Proto!process_app_payload
<1>6. ASSUME NEW ch \in Channel, ActionDenied(ch) PROVE Proto!Next
  <2>1. UNCHANGED Proto!fieldVars
    BY <1>6, SettledFields DEF ActionDenied
  <2>2. Proto!ActionDenied(ch)
    BY <1>6, <2>1, SameReply DEF ActionDenied, Proto!ActionDenied
  <2> QED BY <1>2, <2>2 DEF Proto!process_app_payload
<1>6a. ASSUME NEW ch \in Channel, Malformed(ch) PROVE Proto!Next
  <2>1. UNCHANGED Proto!fieldVars
    BY <1>6a, SettledFields DEF Malformed
  <2>2. Proto!Malformed(ch)
    BY <1>6a, <2>1, SameReply DEF Malformed, Proto!Malformed
  <2> QED BY <1>2, <2>2 DEF Proto!process_app_payload
<1>7. ASSUME Disconnect PROVE Proto!Next
  <2>1. UNCHANGED Proto!fieldVars
    BY <1>7, SettledFields DEF Disconnect
  <2>2. Proto!Disconnect
    BY <1>7, <2>1, SameAuth DEF Disconnect, Proto!Disconnect
  <2> QED BY <2>2 DEF Proto!Next
<1>8. ASSUME NEW s \in ShellSets, ShellSet(s[1], s[2]) PROVE Proto!Next
  <2>1. /\ Pending' = [Pending EXCEPT ![s[1]] = s[2]] /\ Reply("SHELL", "SET", "OK")
        /\ UNCHANGED <<authVars, issued, uptime, ProtoState, ProtoDone, unixtime>>
    BY <1>1, <1>8 DEF ShellSet
  <2>2. Proto!ShellSet(s[1], s[2])
    BY <2>1, SameReply DEF Proto!ShellSet, ProtoState, ProtoDone
  <2> QED BY <2>2 DEF Proto!Next
<1>9. ASSUME ShellGet PROVE Proto!Next
  <2>1. /\ unixtime' = 0 /\ Reply("SHELL", "READ", "OK")
        /\ UNCHANGED <<authVars, issued, uptime, Pending, ProtoState, ProtoDone>>
    BY <1>1, <1>9 DEF ShellGet
  <2>2. Proto!ShellGet
    BY <2>1, SameReply DEF Proto!ShellGet, ProtoState, ProtoDone
  <2> QED BY <2>2 DEF Proto!Next
<1>10. ASSUME NEW ch \in Channel, FactoryReset(ch) PROVE Proto!Next
  <2>1. /\ Pending' = [f \in Stored |-> IF f \in Config THEN Defaults[f] ELSE Pending[f]]
        /\ ProtoState' = "FACTORY" /\ ProtoDone' = FALSE /\ UNCHANGED unixtime
    BY <1>1, <1>10 DEF FactoryReset, app_fields_init
  <2>2. Proto!app_fields_init
    BY <2>1, SameSets DEF Proto!app_fields_init, ProtoState, ProtoDone
  <2>3. Proto!FactoryReset(ch)
    BY <1>10, <2>2, SameReply DEF FactoryReset, Proto!FactoryReset
  <2> QED BY <1>2, <2>3 DEF Proto!process_app_payload
<1>11. CASE OtherCommand
  BY <1>3, <1>4, <1>5, <1>6, <1>6a, <1>7, <1>8, <1>9, <1>11 DEF OtherCommand
<1>12. CASE ResetCommand
  BY <1>10, <1>12 DEF ResetCommand
<1> QED BY <1>11, <1>12

\* The clock and a reboot, also in the middle of a write.
LEMMA ClockImplements ==
    ASSUME Tick, UNCHANGED frameVars
    PROVE  Proto!Next
<1>1. UNCHANGED <<g, device_state, factory_init_done, unixtime, cache, pc>>
  BY DEF Tick, fieldVars, frameVars, workVars
<1>2. UNCHANGED <<Pending, ProtoState, ProtoDone, unixtime>>
  <2>1. Pending' = Pending
    BY <1>1 DEF Pending, Remaining
  <2>2. ProtoState' = ProtoState /\ ProtoDone' = ProtoDone
    BY <1>1 DEF ProtoState, ProtoDone, LeavesFactory, FactoryWindow
  <2> QED BY <1>1, <2>1, <2>2
<1>3. UNCHANGED Proto!fieldVars
  BY <1>2 DEF Proto!fieldVars, ProtoState, ProtoDone
<1>4. Proto!Tick
  BY <1>3, SameReply DEF Tick, Proto!Tick
<1> QED BY <1>4 DEF Proto!Next

LEMMA RebootImplements ==
    ASSUME FramesReboot, Settled'
    PROVE  Proto!Next
<1>1. Reboot /\ g' = Defaults /\ device_state' = "FACTORY" /\ factory_init_done' = FALSE
      /\ unixtime' = 0
  BY DEF FramesReboot, Reboot, FieldsRestart
<1>2. Pending' = Defaults /\ ProtoState' = "FACTORY" /\ ProtoDone' = FALSE /\ unixtime' = 0
  BY <1>1 DEF Settled
<1>3. Proto!FieldsRestart
  BY <1>2, SameSets DEF Proto!FieldsRestart, ProtoState, ProtoDone
<1>4. Proto!Reboot
  BY <1>1, <1>3, SameAuth, SameReply DEF Reboot, Proto!Reboot
<1> QED BY <1>4 DEF Proto!Next

LEMMA FramesInitImplements ==
    ASSUME FramesInit, Settled
    PROVE  Proto!Init
<1>1. Init /\ Pending = Defaults /\ ProtoState = "FACTORY" /\ ProtoDone = FALSE /\ unixtime = 0
  BY DEF FramesInit, Init, FieldsInit, Settled
<1>2. Proto!FieldsInit
  BY <1>1, SameSets DEF Proto!FieldsInit, ProtoState, ProtoDone
<1> QED BY <1>1, <1>2, SameAuth, SameSets DEF Init, Proto!Init, Proto!Never, Never
\* A frame answered at once is one of the protocol's commands.
LEMMA AnswerImplements ==
    ASSUME FramesTypeOK, Settled, Settled', NEW ch, NEW data, Arrives(ch, data),
           ~WriteGranted(ch, data)
    PROVE  Proto!Next
<1>1. /\ data \in Seq(Byte) /\ data \in Payload /\ Len(data) \in Nat
      /\ ch \in Channel /\ process_frame(ch, data)
  BY PayloadBytes DEF Arrives
<1>2. /\ Pending = g /\ ProtoState = device_state /\ ProtoDone = factory_init_done
      /\ Pending' = g' /\ ProtoState' = device_state' /\ ProtoDone' = factory_init_done'
  BY DEF Settled
<1> HIDE DEF ProtoState, ProtoDone
<1>3. ASSUME Proto!process_app_payload(ch) PROVE Proto!Next
  BY <1>1, <1>3, SameSets DEF Proto!Next
<1>4. ASSUME NEW cmd, NEW status, Reply(ch, cmd, status),
             \/ cmd \in {"READ", "WRITE", "ACTION"} /\ status = "PARAM_LEN"
             \/ cmd \in {"ACTION", "OTHER"} /\ status = "UNSUPPORTED",
             UNCHANGED <<authVars, issued, uptime, fieldVars>>
      PROVE  Proto!Next
  <2>1. UNCHANGED Proto!fieldVars /\ Proto!Reply(ch, cmd, status)
    BY <1>4, SettledFields, SameReply
  <2>2. Proto!Malformed(ch)
    BY <1>4, <2>1, SameReply DEF Proto!Malformed
  <2> QED BY <1>3, <2>2 DEF Proto!process_app_payload
<1>5. CASE ReadFrame(ch, data)
  <2>1. /\ data[1] = 1
        /\ UNCHANGED <<authVars, issued, uptime, g, device_state, factory_init_done>>
    BY <1>5 DEF ReadFrame
  <2>2. CASE Len(data) < 6
    <3>1. Reply(ch, "READ", "PARAM_LEN") /\ UNCHANGED unixtime
      BY <1>5, <2>2 DEF ReadFrame
    <3>2. UNCHANGED <<authVars, issued, uptime, fieldVars>>
      BY <2>1, <3>1 DEF fieldVars
    <3> QED BY <1>4, <3>1, <3>2
  <2>3. CASE ~(Len(data) < 6)
    <3>1. Len(data) >= 6
      BY <1>1, <2>3
    <3>2. PICK r \in Meaning[data].reads : TRUE
      BY <1>1, <2>1, <3>1, FrameAssumption
    <3>3. r \in ReadReqs /\ CarriesRead(data, r)
      BY <1>1, <3>2 DEF Meaning
    <3>4. RegistryTyped
      BY DEF FramesTypeOK, FieldsTypeOK, RegistryTyped
    <3>5. handle_cmd_read(data).status = ReadStatus(r) /\ get_u32_be(SubSeq(data, 2, 5)) = r.ts
      BY <1>1, <3>3, <3>4, ReadJudged
    <3>6. Reply(ch, "READ", ReadStatus(r)) /\ unixtime' = r.ts
      BY <1>5, <2>3, <3>5 DEF ReadFrame
    <3>7. UNCHANGED <<Pending, ProtoState, ProtoDone>>
      BY <1>2, <2>1
    <3>8. Proto!Read(ch, r)
      BY <2>1, <3>6, <3>7, SameReply, SameJudgement DEF Proto!Read, ProtoState, ProtoDone
    <3> QED BY <1>3, <3>3, <3>8 DEF Proto!process_app_payload
  <2> QED BY <2>2, <2>3
<1>6. CASE WriteRefused(ch, data)
  <2>1. /\ data[1] = 2 /\ CheckWrite(data).status # "OK"
        /\ Reply(ch, "WRITE", CheckWrite(data).status)
        /\ UNCHANGED <<authVars, issued, uptime, fieldVars>>
    BY <1>6 DEF WriteRefused
  <2>2. CASE Len(data) < 2
    <3>1. CheckWrite(data).status = "PARAM_LEN"
      BY <2>2 DEF CheckWrite, Refusal
    <3> QED BY <1>4, <2>1, <3>1
  <2>3. CASE ~(Len(data) < 2)
    <3>1. Len(data) >= 2
      BY <1>1, <2>3
    <3>2. PICK q \in Meaning[data].writes : TRUE
      BY <1>1, <2>1, <3>1, FrameAssumption
    <3>3. q \in WriteReqs /\ CarriesWrite(data, q)
      BY <1>1, <3>2 DEF Meaning
    <3>4. CheckWrite(data).status = WriteStatus(q)
      BY <1>1, <3>3, WriteJudged
    <3>5. UNCHANGED Proto!fieldVars
      BY <2>1, SettledFields
    <3>6. Proto!WriteInvalid(ch, q)
      BY <2>1, <3>4, <3>5, SameReply, SameJudgement DEF Proto!WriteInvalid
    <3> QED BY <1>3, <3>3, <3>6 DEF Proto!process_app_payload
  <2> QED BY <2>2, <2>3
<1>7. CASE WriteNotAllowed(ch, data)
  <2> DEFINE st == app_auth_check_write(ch)
  <2>1. /\ data[1] = 2 /\ CheckWrite(data).status = "OK"
        /\ ~FactoryWindow /\ st # "OK" /\ Reply(ch, "WRITE", st) /\ AfterCheck(ch)
        /\ UNCHANGED <<password_hash, nonce, nonce_valid, ble_unlocked>>
        /\ UNCHANGED <<issued, uptime, fieldVars>>
    BY <1>7 DEF WriteNotAllowed
  <2>2. Len(data) >= 2
    <3>1. Len(data) < 2 => CheckWrite(data).status = "PARAM_LEN"
      BY DEF CheckWrite, Refusal
    <3> QED BY <1>1, <2>1, <3>1
  <2>3. PICK q \in Meaning[data].writes : TRUE
    BY <1>1, <2>1, <2>2, FrameAssumption
  <2>4. q \in WriteReqs /\ CarriesWrite(data, q)
    BY <1>1, <2>3 DEF Meaning
  <2>5. WriteStatus(q) = "OK"
    BY <1>1, <2>1, <2>4, WriteJudged
  <2>6. UNCHANGED Proto!fieldVars /\ ~Proto!FactoryWindow
    BY <2>1, SettledFields
  <2>7. Proto!WriteDenied(ch, q)
    BY <2>1, <2>5, <2>6, SameReply, SameJudgement DEF Proto!WriteDenied
  <2> QED BY <1>3, <2>4, <2>7 DEF Proto!process_app_payload
<1>8. CASE UnknownCode(ch, data)
  <2>1. Reply(ch, "OTHER", "UNSUPPORTED") /\ UNCHANGED <<authVars, issued, uptime, fieldVars>>
    BY <1>8 DEF UnknownCode
  <2> QED BY <1>4, <2>1
<1> QED BY <1>1, <1>5, <1>6, <1>7, <1>8 DEF process_frame

\* A grant is the protocol's whole write: the values are pending, and the
\* window is about to close.
LEMMA GrantImplements ==
    ASSUME FramesTypeOK, Settled, NEW ch, NEW data, Arrives(ch, data), WriteGranted(ch, data)
    PROVE  Proto!Next
<1>1. /\ data \in Seq(Byte) /\ data \in Payload /\ Len(data) \in Nat /\ ch \in Channel
  BY PayloadBytes DEF Arrives
<1>2. /\ data[1] = 2 /\ CheckWrite(data).status = "OK"
      /\ FactoryWindow \/ app_auth_check_write(ch) = "OK"
      /\ Reply(ch, "WRITE", "OK") /\ pc' = "apply" /\ cache' = CheckWrite(data).cache
      /\ UNCHANGED <<authVars, issued, uptime, g, device_state, factory_init_done, unixtime>>
  BY DEF WriteGranted, fieldVars
<1>3. Len(data) >= 2
  <2>1. Len(data) < 2 => CheckWrite(data).status = "PARAM_LEN"
    BY DEF CheckWrite, Refusal
  <2> QED BY <1>1, <1>2, <2>1
<1>4. PICK q \in Meaning[data].writes : TRUE
  BY <1>1, <1>2, <1>3, FrameAssumption
<1>5. q \in WriteReqs /\ CarriesWrite(data, q)
  BY <1>1, <1>4 DEF Meaning
<1>6. WriteStatus(q) = "OK" /\ PendingOf(g, CheckWrite(data).cache) = Apply(g, q)
  BY <1>1, <1>2, <1>5, GrantedPending
<1>7. Pending = g /\ ProtoState = device_state /\ ProtoDone = factory_init_done
  BY DEF Settled
<1>8. Pending' = Apply(Pending, q)
  <2>1. cache' \in Seq(CacheEntry) /\ g' \in [Stored -> Int]
    BY <1>1, <1>2, CacheFilled DEF FramesTypeOK, FieldsTypeOK
  <2>2. Pending' = PendingOf(g', cache')
    BY <2>1, PendingIs
  <2> QED BY <1>2, <1>6, <1>7, <2>2
<1>9. LeavesFactory' <=> FactoryWindow
  BY <1>2 DEF LeavesFactory, FactoryWindow
<1>10. Proto!FactoryWindow <=> FactoryWindow
  BY <1>7 DEF Proto!FactoryWindow, FactoryWindow, ProtoState, ProtoDone
<1>11. /\ ProtoDone' = (ProtoDone \/ Proto!FactoryWindow)
       /\ ProtoState' = IF Proto!FactoryWindow THEN "POWER_ON" ELSE ProtoState
  <2>1. ProtoState' = IF FactoryWindow THEN "POWER_ON" ELSE device_state
    BY <1>2, <1>9 DEF ProtoState
  <2>2. ProtoDone' = (factory_init_done \/ FactoryWindow)
    BY <1>2, <1>9 DEF ProtoDone
  <2> QED BY <1>7, <1>10, <2>1, <2>2
<1>12. Proto!Write(ch, q)
  BY <1>2, <1>6, <1>8, <1>10, <1>11, SameReply, SameJudgement
  DEF Proto!Write, ProtoState, ProtoDone
<1>13. Proto!process_app_payload(ch)
  BY <1>5, <1>12 DEF Proto!process_app_payload
<1> QED BY <1>1, <1>13, SameSets DEF Proto!Next
\* What a granted write still does, and the answer's way out, change nothing.
LEMMA RestIsPending ==
    ASSUME FramesTypeOK, FramesTypeOK', ApplyField \/ WriteDone \/ Answered \/ Fault
    PROVE  UNCHANGED Proto!vars
<1>1. ASSUME UNCHANGED <<Pending, ProtoState, ProtoDone, unixtime>>,
             UNCHANGED <<authVars, uptime, issued, observed>>
      PROVE  UNCHANGED Proto!vars
  <2>1. UNCHANGED Proto!fieldVars
    BY <1>1 DEF Proto!fieldVars, ProtoState, ProtoDone
  <2>2. UNCHANGED Proto!observed
    BY <1>1 DEF Proto!observed, observed
  <2> QED BY <1>1, <2>1, <2>2, SameReply DEF Proto!vars
<1>2. CASE ApplyField
  <2>1. /\ pc = "apply" /\ cache # <<>> /\ cache' = Tail(cache)
        /\ g' = Assign(g, Stores(Head(cache)))
        /\ UNCHANGED <<pc, authVars, issued, uptime, observed>>
        /\ UNCHANGED <<device_state, factory_init_done, unixtime>>
    BY <1>2 DEF ApplyField, Stores
  <2>2. Pending = PendingOf(g, cache) /\ Pending' = PendingOf(g', cache')
    BY PendingIs DEF FramesTypeOK, FieldsTypeOK
  <2>3. PendingOf(Assign(g, Stores(Head(cache))), Tail(cache)) = PendingOf(g, cache)
    BY <2>1, PendingStep DEF FramesTypeOK
  <2>4. Pending' = Pending
    BY <2>1, <2>2, <2>3
  <2>5. UNCHANGED <<ProtoState, ProtoDone>>
    BY <2>1 DEF ProtoState, ProtoDone, LeavesFactory, FactoryWindow
  <2> QED BY <1>1, <2>1, <2>4, <2>5
<1>3. CASE WriteDone
  <2>1. /\ pc = "apply" /\ cache = <<>> /\ pc' = "reply"
        /\ factory_init_done' = (factory_init_done \/ FactoryWindow)
        /\ device_state' = IF FactoryWindow THEN "POWER_ON" ELSE device_state
        /\ UNCHANGED <<cache, authVars, issued, uptime, observed, g, unixtime>>
    BY <1>3 DEF WriteDone
  <2>2. Pending' = Pending
    BY <2>1, PendingIs
  <2>3. LeavesFactory <=> FactoryWindow
    BY <2>1 DEF LeavesFactory
  <2>4. ProtoState = device_state' /\ ProtoDone = factory_init_done'
    BY <2>1, <2>3 DEF ProtoState, ProtoDone
  <2>5. ProtoState' = device_state' /\ ProtoDone' = factory_init_done'
    <3>1. pc' # "apply"
      BY <2>1
    <3> QED BY <3>1, IdleIsSettled DEF Settled
  <2> QED BY <1>1, <2>1, <2>2, <2>4, <2>5
<1>4. CASE Answered \/ Fault
  <2>1. pc # "apply" /\ pc' # "apply" /\ UNCHANGED vars
    BY <1>4 DEF Answered, Fault
  <2>2. Settled /\ Settled'
    BY <2>1, IdleIsSettled
  <2>3. UNCHANGED <<Pending, ProtoState, ProtoDone, unixtime>>
    BY <2>1, <2>2 DEF Settled, vars, fieldVars
  <2>4. UNCHANGED <<authVars, uptime, issued, observed>>
    BY <2>1 DEF vars
  <2> QED BY <1>1, <2>3, <2>4
<1> QED BY <1>2, <1>3, <1>4

\* Every step of the frames is one of the protocol's, or none.
LEMMA ProtocolStep ==
    ASSUME FramesTypeOK, FramesTypeOK', [FramesNext]_allVars
    PROVE  [Proto!Next]_(Proto!vars)
<1>1. CASE UNCHANGED allVars
  <2>1. UNCHANGED <<vars, pc, cache, g, device_state, factory_init_done, unixtime>>
    BY <1>1 DEF allVars, frameVars, workVars, vars, fieldVars
  <2>2. Pending' = Pending
    BY <2>1 DEF Pending, Remaining
  <2>3. ProtoState' = ProtoState /\ ProtoDone' = ProtoDone
    BY <2>1 DEF ProtoState, ProtoDone, LeavesFactory, FactoryWindow
  <2>4. UNCHANGED Proto!fieldVars
    BY <2>1, <2>2, <2>3 DEF Proto!fieldVars, ProtoState, ProtoDone
  <2>5. UNCHANGED <<authVars, uptime, issued, observed>>
    BY <2>1 DEF vars
  <2>6. UNCHANGED Proto!observed
    BY <2>5 DEF Proto!observed, observed
  <2> QED BY <2>4, <2>5, <2>6, SameReply DEF Proto!vars
<1>2. ASSUME NEW ch, NEW data, Arrives(ch, data) PROVE Proto!Next
  <2>1. Settled
    BY <1>2, IdleIsSettled DEF Arrives, process_frame
  <2>2. CASE WriteGranted(ch, data)
    BY <1>2, <2>1, <2>2, GrantImplements
  <2>3. CASE ~WriteGranted(ch, data)
    <3>1. pc' = "reply"
      BY <1>2, <2>3 DEF Arrives, process_frame, ReadFrame, WriteRefused, WriteNotAllowed,
                        UnknownCode, Respond
    <3>2. Settled'
      BY <3>1, IdleIsSettled
    <3> QED BY <1>2, <2>1, <2>3, <3>2, AnswerImplements
  <2> QED BY <2>2, <2>3
<1>3. ASSUME ApplyField \/ WriteDone \/ Answered \/ Fault PROVE UNCHANGED Proto!vars
  BY <1>3, RestIsPending
<1>4. ASSUME OtherCommand \/ ResetCommand PROVE Proto!Next
  <2>1. pc = "idle" /\ pc' = "idle"
    BY <1>4, OtherSteps DEF ResetCommand, frameVars, workVars
  <2>2. Settled /\ Settled'
    BY <2>1, IdleIsSettled
  <2> QED BY <1>4, <2>2, OthersImplement
<1>5. ASSUME Tick, UNCHANGED frameVars PROVE Proto!Next
  BY <1>5, ClockImplements
<1>6. ASSUME FramesReboot PROVE Proto!Next
  <2>1. pc' # "apply"
    BY <1>6 DEF FramesReboot
  <2>2. Settled'
    BY <2>1, IdleIsSettled
  <2> QED BY <1>6, <2>2, RebootImplements
<1> QED BY <1>1, <1>2, <1>3, <1>4, <1>5, <1>6, FrameSteps

\* Byte by byte and field by field, with the clock and a reboot between any
\* two fields, the handlers do what AppProtocol does in one step
\* (app_protocol.c:212, :269).
THEOREM FramesImplementProtocol ==
    ASSUME ShellFits
    PROVE  FramesSpec => ImplementsProtocol
<1>1. FramesInit => pc # "apply"
  BY DEF FramesInit
<1>2. FramesTypeOK /\ FramesInit => Proto!Init
  BY <1>1, IdleIsSettled, FramesInitImplements
<1>3. FramesTypeOK /\ FramesTypeOK' /\ [FramesNext]_allVars => [Proto!Next]_(Proto!vars)
  BY ProtocolStep
<1> QED
  BY <1>2, <1>3, FramesTyped, PTL DEF FramesSpec, ImplementsProtocol, Proto!Spec-----------------------------------------------------------------------------
(* What is proved of AppProtocol is so proved of the frames.  P is the      *)
(* instance Proto once more, now with the theorems about AppProtocol.       *)

P == INSTANCE GateProofs WITH
    g <- Pending,
    device_state <- IF LeavesFactory THEN "POWER_ON" ELSE device_state,
    factory_init_done <- factory_init_done \/ LeavesFactory

LEMMA SameValues ==
    /\ Proto!Channel = P!Channel /\ Proto!Token = P!Token
    /\ Proto!Config = P!Config /\ Proto!Stored = P!Stored /\ Proto!Defaults = P!Defaults
    /\ Proto!authVars = P!authVars /\ Proto!fieldVars = P!fieldVars /\ Proto!vars = P!vars
    /\ \A ch : Proto!app_auth_check_write(ch) = P!app_auth_check_write(ch)
    /\ \A r : Proto!ReadStatus(r) = P!ReadStatus(r)
    /\ \A q : Proto!WriteStatus(q) = P!WriteStatus(q)
    /\ \A h, q : Proto!Apply(h, q) = P!Apply(h, q)
<1>1. /\ Proto!Channel = P!Channel /\ Proto!Token = P!Token
      /\ Proto!Config = P!Config /\ Proto!Stored = P!Stored /\ Proto!Defaults = P!Defaults
      /\ Proto!ReadableField = P!ReadableField
  BY DEF Proto!Channel, P!Channel, Proto!Token, P!Token, Proto!Hmac, P!Hmac,
         Proto!Nonce, P!Nonce, Proto!Config, P!Config, Proto!Stored, P!Stored,
         Proto!Sensor, P!Sensor, Proto!Defaults, P!Defaults,
         Proto!ReadableField, P!ReadableField, Proto!WritableField, P!WritableField
<1>2. /\ Proto!authVars = P!authVars /\ Proto!fieldVars = P!fieldVars
      /\ Proto!vars = P!vars
  BY DEF Proto!authVars, P!authVars, Proto!fieldVars, P!fieldVars, Proto!vars, P!vars,
         Proto!observed, P!observed
<1>3. \A ch : Proto!app_auth_check_write(ch) = P!app_auth_check_write(ch)
  BY DEF Proto!app_auth_check_write, P!app_auth_check_write
<1>4. \A fid : Proto!field_value_len(fid) = P!field_value_len(fid)
  BY DEF Proto!field_value_len, P!field_value_len
<1>5. \A t : Proto!app_field_validate(t) = P!app_field_validate(t)
  <2>1. \A fid, v : Proto!InRange(fid, v) <=> P!InRange(fid, v)
    <3>1. Proto!MAX_LAT = P!MAX_LAT /\ Proto!MAX_LNG = P!MAX_LNG
      BY DEF Proto!MAX_LAT, P!MAX_LAT, Proto!MAX_LNG, P!MAX_LNG
    <3> QED BY <3>1 DEF Proto!InRange, P!InRange
  <2> QED BY <1>4, <2>1 DEF Proto!app_field_validate, P!app_field_validate,
                            Proto!WritableField, P!WritableField
<1>6. \A S : Proto!Min(S) = P!Min(S) /\ Proto!Max(S) = P!Max(S)
  BY DEF Proto!Min, P!Min, Proto!Max, P!Max
<1>7. \A r : Proto!ReadStatus(r) = P!ReadStatus(r)
  <2>1. \A S, b, n, x : Proto!Loop(S, b, n, x) = P!Loop(S, b, n, x)
    BY DEF Proto!Loop, P!Loop
  <2>2. \A fields, n : Proto!AnswerLen(fields, n) = P!AnswerLen(fields, n)
    BY <1>4, <2>1 DEF Proto!AnswerLen, P!AnswerLen
  <2> QED BY <1>1, <2>2 DEF Proto!ReadStatus, P!ReadStatus, Proto!ReadLen, P!ReadLen,
                            Proto!APP_PROTO_RESP_MAX, P!APP_PROTO_RESP_MAX
<1>8. \A q : Proto!WriteStatus(q) = P!WriteStatus(q)
  <2>1. \A q : Proto!Wrong(q) = P!Wrong(q)
    BY <1>5 DEF Proto!Wrong, P!Wrong, Proto!WRITE_CACHE_MAX, P!WRITE_CACHE_MAX
  <2> QED BY <1>5, <1>6, <2>1 DEF Proto!WriteStatus, P!WriteStatus,
                                  Proto!WRITE_CACHE_MAX, P!WRITE_CACHE_MAX
<1>9. \A h, q : Proto!Apply(h, q) = P!Apply(h, q)
  <2>1. \A fid, v : Proto!app_field_set(fid, v) = P!app_field_set(fid, v)
    BY DEF Proto!app_field_set, P!app_field_set
  <2> QED BY ZenonT(60), <1>1, <1>6, <2>1 DEF Proto!Apply, P!Apply
<1> QED BY <1>1, <1>2, <1>3, <1>7, <1>8, <1>9

LEMMA SameActions ==
    /\ Proto!FactoryWindow <=> P!FactoryWindow
    /\ Proto!Init <=> P!Init
    /\ Proto!Next <=> P!Next
<1>1. \A ch, cmd, status : Proto!Reply(ch, cmd, status) <=> P!Reply(ch, cmd, status)
  BY SameValues DEF Proto!Reply, P!Reply, Proto!Never, P!Never
<1>2. \A ch : Proto!AfterCheck(ch) <=> P!AfterCheck(ch)
  BY SameValues DEF Proto!AfterCheck, P!AfterCheck
<1>3. UNCHANGED Proto!authVars <=> UNCHANGED P!authVars
  BY DEF Proto!authVars, P!authVars
<1>4. UNCHANGED Proto!fieldVars <=> UNCHANGED P!fieldVars
  BY DEF Proto!fieldVars, P!fieldVars
<1>5. ASSUME NEW ch PROVE Proto!app_auth_handle_cmd(ch) <=> P!app_auth_handle_cmd(ch)
  <2>1. \A token : Proto!TokenJudged(ch, token) <=> P!TokenJudged(ch, token)
    BY <1>1 DEF Proto!TokenJudged, P!TokenJudged, Proto!Hmac, P!Hmac,
                Proto!channel_unlock, P!channel_unlock, Proto!channel_lock, P!channel_lock
  <2>2. \A hash : Proto!ChangePwd(ch, hash) <=> P!ChangePwd(ch, hash)
    BY <1>1, SameValues DEF Proto!ChangePwd, P!ChangePwd
  <2>3. Proto!NonceCmd(ch) <=> P!NonceCmd(ch)
    BY <1>1 DEF Proto!NonceCmd, P!NonceCmd
  <2>4. Proto!TokenRefused(ch) <=> P!TokenRefused(ch)
    BY <1>1, <1>3 DEF Proto!TokenRefused, P!TokenRefused
  <2>5. Proto!ChangePwdRefused(ch) <=> P!ChangePwdRefused(ch)
    BY <1>1, <1>2, SameValues DEF Proto!ChangePwdRefused, P!ChangePwdRefused
  <2>6. Proto!LockCmd(ch) <=> P!LockCmd(ch)
    BY <1>1 DEF Proto!LockCmd, P!LockCmd, Proto!channel_lock, P!channel_lock
  <2>7. Proto!AuthUnsupported(ch) <=> P!AuthUnsupported(ch)
    BY <1>1, <1>3 DEF Proto!AuthUnsupported, P!AuthUnsupported
  <2> QED BY <2>1, <2>2, <2>3, <2>4, <2>5, <2>6, <2>7, SameValues
          DEF Proto!app_auth_handle_cmd, P!app_auth_handle_cmd
<1>6. Proto!FactoryWindow <=> P!FactoryWindow
  BY DEF Proto!FactoryWindow, P!FactoryWindow
<1>7. ASSUME NEW ch
      PROVE  Proto!process_app_payload(ch) <=> P!process_app_payload(ch)
  <2>1. \A r : Proto!Read(ch, r) <=> P!Read(ch, r)
    BY <1>1, <1>3, SameValues DEF Proto!Read, P!Read
  <2>2. \A q : Proto!Write(ch, q) <=> P!Write(ch, q)
    BY <1>1, <1>3, <1>6, SameValues DEF Proto!Write, P!Write
  <2>3. \A q : Proto!WriteInvalid(ch, q) <=> P!WriteInvalid(ch, q)
    BY <1>1, <1>3, <1>4, SameValues DEF Proto!WriteInvalid, P!WriteInvalid
  <2>4. \A q : Proto!WriteDenied(ch, q) <=> P!WriteDenied(ch, q)
    BY <1>1, <1>2, <1>4, <1>6, SameValues DEF Proto!WriteDenied, P!WriteDenied
  <2>5. Proto!PowerOn(ch) <=> P!PowerOn(ch)
    BY <1>1, <1>3 DEF Proto!PowerOn, P!PowerOn
  <2>6. Proto!PowerOff(ch) <=> P!PowerOff(ch)
    BY <1>1, <1>3, SameValues DEF Proto!PowerOff, P!PowerOff
  <2>7. Proto!FactoryReset(ch) <=> P!FactoryReset(ch)
    BY <1>1, SameValues DEF Proto!FactoryReset, P!FactoryReset,
                            Proto!app_fields_init, P!app_fields_init
  <2>8. Proto!ActionDenied(ch) <=> P!ActionDenied(ch)
    BY <1>1, <1>2, <1>4, SameValues DEF Proto!ActionDenied, P!ActionDenied
  <2>9. Proto!Malformed(ch) <=> P!Malformed(ch)
    BY <1>1, <1>3, <1>4 DEF Proto!Malformed, P!Malformed
  <2> QED BY <1>4, <1>5, <2>1, <2>2, <2>3, <2>4, <2>5, <2>6, <2>7, <2>8, <2>9
          DEF Proto!process_app_payload, P!process_app_payload
<1>8. Proto!Disconnect <=> P!Disconnect
  BY <1>1, <1>4 DEF Proto!Disconnect, P!Disconnect, Proto!app_auth_ble_disconnect,
                    P!app_auth_ble_disconnect
<1>9. \A name, value : Proto!ShellSet(name, value) <=> P!ShellSet(name, value)
  BY <1>1, <1>3 DEF Proto!ShellSet, P!ShellSet
<1>10. Proto!ShellGet <=> P!ShellGet
  BY <1>1, <1>3 DEF Proto!ShellGet, P!ShellGet
<1>11. Proto!Tick <=> P!Tick
  BY <1>1, <1>3, <1>4 DEF Proto!Tick, P!Tick
<1>12. Proto!Reboot <=> P!Reboot
  BY <1>1, SameValues DEF Proto!Reboot, P!Reboot, Proto!AuthRestart, P!AuthRestart,
                          Proto!FieldsRestart, P!FieldsRestart
<1>13. Proto!Init <=> P!Init
  BY SameValues DEF Proto!Init, P!Init, Proto!AuthInit, P!AuthInit,
                    Proto!FieldsInit, P!FieldsInit, Proto!Never, P!Never
<1>14. Proto!Next <=> P!Next
  BY <1>7, <1>8, <1>9, <1>10, <1>11, <1>12, SameValues DEF Proto!Next, P!Next
<1> QED BY <1>6, <1>13, <1>14

LEMMA ProtocolFacts ==
    /\ P!Spec => []P!NonceUsedOnce
    /\ P!Spec => P!AuthenticatedChange
    /\ P!Spec => P!FactoryWindowOnce
    /\ P!Spec => P!RefusedChangesNothing
    /\ P!Spec => P!ChannelsIndependent
    /\ P!Spec => P!ImplementsGate
<1>1. /\ ShellSets \subseteq P!Stored \X Int
      /\ MaxNonce \in Nat /\ MaxUptime \in Nat
      /\ NFC_AUTH_WINDOW_MS \in Nat \ {0}
      /\ DefaultHash \in Hash
  BY ShellAssumption, BoundAssumption, WindowAssumption, HashAssumption
  DEF P!Stored, Stored, P!Sensor, Sensor, P!Config, Config
<1>2. \A t : Decodes(t) => P!Decodes(t)
  <2>1. INT32 = P!INT32 /\ MAX_UINT8 = P!MAX_UINT8 /\ MAX_UINT16 = P!MAX_UINT16
    BY DEF INT32, P!INT32, MAX_UINT8, P!MAX_UINT8, MAX_UINT16, P!MAX_UINT16
  <2>2. \A fid : field_value_len(fid) = P!field_value_len(fid)
    BY DEF field_value_len, P!field_value_len
  <2> QED BY <2>1, <2>2 DEF Decodes, P!Decodes
<1>3. /\ \A r \in ReadReqs :
            r.ts \in Nat /\ r.count \in 0 .. P!MAX_UINT8 /\ Len(r.fields) \in Nat
      /\ \A q \in WriteReqs :
            /\ q.count \in 0 .. P!MAX_UINT8
            /\ Len(q.tlvs) \in Nat
            /\ \A i \in 1 .. Len(q.tlvs) :
                  q.tlvs[i].len \in 0 .. P!MAX_UINT8 /\ P!Decodes(q.tlvs[i])
  BY <1>2, RequestAssumption DEF MAX_UINT8, P!MAX_UINT8
<1>4. P!Spec => []P!NonceUsedOnce
  BY <1>1, <1>3, P!NonceJudgedOnce
<1>5. P!Spec => P!AuthenticatedChange
  BY <1>1, <1>3, P!ChangesAreAuthenticated
<1>6. P!Spec => P!FactoryWindowOnce
  BY <1>1, <1>3, P!WindowServesOneWrite
<1>7. P!Spec => P!RefusedChangesNothing
  BY <1>1, <1>3, P!RefusalsAreHarmless
<1>8. P!Spec => P!ChannelsIndependent
  BY <1>1, <1>3, P!ChannelsAreIndependent
<1>9. P!Spec => P!ImplementsGate
  BY <1>1, <1>3, P!ProtocolIsGate
<1> QED BY <1>4, <1>5, <1>6, <1>7, <1>8, <1>9

LEMMA FramesReachProtocol ==
    ASSUME ShellFits
    PROVE  FramesSpec => P!Spec
<1>1. Proto!Init => P!Init
  BY SameActions
<1>2. [Proto!Next]_(Proto!vars) => [P!Next]_(P!vars)
  <2>1. UNCHANGED Proto!vars => UNCHANGED P!vars
    BY DEF Proto!vars, P!vars, Proto!authVars, P!authVars, Proto!fieldVars, P!fieldVars,
           Proto!observed, P!observed
  <2> QED BY <2>1, SameActions
<1> QED
  BY <1>1, <1>2, FramesImplementProtocol, PTL DEF ImplementsProtocol, Proto!Spec, P!Spec

\* Whatever bytes arrive on the two channels, the device is a configuration
\* behind a gate (app_auth.c:328, app_protocol.c:391).
THEOREM FramesAreGate ==
    ASSUME ShellFits
    PROVE  FramesSpec => P!ImplementsGate
  BY ProtocolFacts, FramesReachProtocol, PTL

\* What AppProtocol promises of its commands holds of the bytes on the wire,
\* with a granted write taken as done: protected changes are authenticated, the
\* factory window serves one write, refusals change nothing, and the channels
\* are independent (app_auth.c:489, app_protocol.c:212, :256).
THEOREM FramesKeepPromises ==
    ASSUME ShellFits
    PROVE  FramesSpec => /\ P!AuthenticatedChange
                         /\ P!FactoryWindowOnce
                         /\ P!RefusedChangesNothing
                         /\ P!ChannelsIndependent
  BY ProtocolFacts, FramesReachProtocol, PTL

\* A nonce serves one answer, whatever bytes arrive in between (app_auth.c:421).
THEOREM FramesUseNoncesOnce ==
    ASSUME ShellFits
    PROVE  FramesSpec => []NonceUsedOnce
<1>1. P!NonceUsedOnce => NonceUsedOnce
  BY DEF P!NonceUsedOnce, NonceUsedOnce, P!Channel, Channel
<1> QED BY <1>1, ProtocolFacts, FramesReachProtocol, PTL
=============================================================================
