---------------------------- MODULE MCAppFrames ----------------------------
(* Instances of AppPeer.  The frames are made from requests by what a peer  *)
(* does: it encodes them and, for NFC, wraps them in a record.  So the      *)
(* decoder of the device is checked against an encoder written down         *)
(* independently of it.                                                     *)
EXTENDS AppPeer, SequencesExt

TLV(fid, len, val) == [fid |-> fid, len |-> len, val |-> val]
mode(m) == TLV("MODE", 1, <<m>>)
interval(n) == TLV("UPDATE_INTERVAL", 2, <<n>>)
location(lat, lng) == TLV("INSTALL_LOCATION", 8, <<lat, lng>>)
WriteReq(tlvs) == [count |-> Len(tlvs), tlvs |-> tlvs, whole |-> TRUE]
ReadReq(fields) == [ts |-> 7, count |-> Len(fields), fields |-> fields]
Repeat(n, t) == [i \in 1 .. n |-> t]

\* Boundary values, repeated fields, a bad TLV behind a good one, wrong counts
\* and lengths, a value and a header cut off, the limit of the cache, the
\* 8-bit counters that wrap, and the limit of the answer.
ReadRequests ==
    {ReadReq(<<>>), ReadReq(<<"INSTALL_LOCATION", "SN", "LATITUDE">>),
     ReadReq(<<"MODE", "NB_APN">>),
     [ts |-> 0, count |-> 2, fields |-> <<"MODE">>],
     [ts |-> 7, count |-> 1, fields |-> Repeat(256, "MODE")],
     [ts |-> 7, count |-> 1, fields |-> Repeat(257, "MODE")],
     ReadReq(Repeat(25, "INSTALL_LOCATION")), ReadReq(Repeat(26, "INSTALL_LOCATION"))}

\* 256 fields more than declared; and two fields followed by 247 zeros, which
\* are 123 fields more and the first byte of another.
Overcounted ==
    [count |-> 1, tlvs |-> <<mode(3)>> \o Repeat(256, TLV("NONE", 0, <<>>)), whole |-> TRUE]
BrokenOff ==
    [count |-> 2, tlvs |-> <<mode(1), mode(3)>> \o Repeat(124, TLV("NONE", 0, <<>>)),
     whole |-> FALSE]

WriteRequests ==
    {WriteReq(<<mode(1), mode(3)>>), WriteReq(<<mode(3), mode(0)>>),
     WriteReq(<<location(900000000, -1800000000), interval(65534)>>),
     WriteReq(<<location(-5, 5), mode(1), location(6, -70000)>>),
     WriteReq(<<location(900000001, 0)>>), WriteReq(<<location(0, 1800000001)>>),
     WriteReq(<<mode(1), TLV("MODE", 2, <<1>>)>>), WriteReq(<<TLV("SN", 6, <<>>)>>),
     WriteReq(<<mode(1), TLV("NONE", 0, <<>>)>>),
     [count |-> 0, tlvs |-> <<>>, whole |-> TRUE],
     [count |-> 1, tlvs |-> <<mode(1)>>, whole |-> FALSE],
     [count |-> 2, tlvs |-> <<mode(1), TLV("MODE", 0, <<>>)>>, whole |-> FALSE],
     [count |-> 1, tlvs |-> <<mode(1), interval(5)>>, whole |-> TRUE],
     Overcounted, BrokenOff,
     WriteReq(Repeat(16, mode(3))), WriteReq(Repeat(17, mode(3)))}

-----------------------------------------------------------------------------
(* What a peer sends.                                                       *)

Id(fid) == IF fid \in DOMAIN FIELD_ID THEN FIELD_ID[fid] ELSE 200

\* A value the device is not to look at is zeros.
TLVBytes(t) ==
    <<Id(t.fid), t.len>>
    \o (IF t.fid \in WritableField /\ t.len = field_value_len(t.fid)
        THEN ValueBytes(t) ELSE Repeat(t.len, 0))

RECURSIVE Concat(_)
Concat(seqs) ==
    IF seqs = <<>> THEN <<>>
    ELSE IF Len(seqs) = 1 THEN Head(seqs)
    ELSE LET half == Len(seqs) \div 2
         IN  Concat(SubSeq(seqs, 1, half)) \o Concat(SubSeq(seqs, half + 1, Len(seqs)))

WriteBytes(q) ==
    LET tlvs == Concat([i \in 1 .. Len(q.tlvs) |-> TLVBytes(q.tlvs[i])])
    IN  <<2, q.count>> \o (IF q.whole THEN tlvs ELSE Front(tlvs))

ReadBytes(r) == <<1>> \o Int32(r.ts) \o <<r.count>>
                \o [i \in 1 .. Len(r.fields) |-> Id(r.fields[i])]

\* The encoder makes frames that carry the request it was given.
ASSUME EncoderAssumption ==
    /\ \A q \in WriteReqs : WriteBytes(q) \in Payload => q \in Meaning[WriteBytes(q)].writes
    /\ \A r \in ReadReqs : ReadBytes(r) \in Payload => r \in Meaning[ReadBytes(r)].reads

\* Two commands cut off in their header, an unknown code, and nothing at all.
Stubs == {<<1, 0, 0>>, <<2>>, <<9, 1>>, <<>>}

Commands == {WriteBytes(q) : q \in WriteRequests} \cup
            {ReadBytes(r) : r \in ReadRequests} \cup Stubs

\* A record of the NFC Forum: flags, lengths, type, id, payload.
Record(tnf, type, id, short, payload) ==
    <<192 + tnf + (IF short THEN 16 ELSE 0) + (IF id = <<>> THEN 0 ELSE 8), Len(type)>>
    \o (IF short THEN <<Len(payload)>> ELSE Int32(Len(payload)))
    \o (IF id = <<>> THEN <<>> ELSE <<Len(id[1])>>)
    \o type \o (IF id = <<>> THEN <<>> ELSE id[1]) \o payload

\* Over BLE, everything a link of at most 495 bytes carries.  By NFC, in
\* records, what is longer and one command of each kind, one of them in all
\* the forms a record without an identifier has; records that are none; one
\* that is shorter than it says; and lengths on both sides of the one from
\* which on the 32-bit sum wraps.
OverBle == {c \in Commands : Len(c) <= 495}
OneMode == WriteBytes(WriteReq(<<mode(1), mode(3)>>))
ByNfc == (Commands \ OverBle) \cup
         {ReadBytes(ReadReq(<<>>)), ReadBytes(ReadReq(Repeat(25, "INSTALL_LOCATION"))),
          WriteBytes(WriteReq(<<location(-5, 5), mode(1), location(6, -70000)>>)),
          WriteBytes(WriteReq(<<mode(1), TLV("MODE", 2, <<1>>)>>))}
Records ==
    {Record(4, CMD_TYPE, <<>>, Len(c) <= 255, c) : c \in ByNfc} \cup
    {Record(4, CMD_TYPE, id, short, OneMode) : id \in {<<>>, <<(<<>>)>>}, short \in BOOLEAN} \cup
    {Record(1, CMD_TYPE, <<>>, TRUE, OneMode), Record(4, INFO_TYPE, <<>>, TRUE, OneMode),
     <<212, 15, 0, 0, 16, 0>> \o CMD_TYPE, <<196, 15, 0, 0, 16, 0>> \o CMD_TYPE \o OneMode,
     <<212, 15, 255>> \o CMD_TYPE \o OneMode,
     <<196, 15, 255, 255, 255, 234>> \o CMD_TYPE \o OneMode,
     <<196, 15, 255, 255, 255, 235>> \o CMD_TYPE \o OneMode}

\* Behind the record the area holds zeros.
Area(records) == {r \o Repeat(MSG_MAX - Len(r), 0) : r \in records}
AsRecords == Area(Records)

-----------------------------------------------------------------------------
(* Statements that do not hold.                                             *)

\* app_config.h:61: a recognised command is replaced by its answer, as an NDEF
\* message; so a reader of the tag finds every answer, whatever its length.
EveryAnswerReadable ==
    pc = "reply" /\ chan = "NFC" => ReadInfo(ndef_encode_response(resp)) = resp

LongRead == {ReadReq(Repeat(24, "INSTALL_LOCATION") \o <<"SN", "HW_VER">>)}
LongAnswerRecord == Area({Record(4, CMD_TYPE, <<>>, TRUE, ReadBytes(r)) : r \in LongRead})

\* app_tlv.h:54, app_tlv.c:61: a payload is valid when it has as many fields as
\* it declares; so a write is granted only if it has.
DeclaredCountHolds ==
    pc = "apply" => \A q \in Meaning[req].writes : Len(q.tlvs) = q.count

OvercountedWrite == {Overcounted}
OvercountedRecord == Area({Record(4, CMD_TYPE, <<>>, FALSE, WriteBytes(Overcounted))})

NoShell == {}
NoFrames == {}

\* No step and no invariant reads the last answer's entry in the history, so
\* states that differ only in it need not be told apart.
StateView == <<authVars, uptime, issued, proved, spent, fieldVars, frameVars>>
=============================================================================
