--------------------------- MODULE MCAppProtocol ---------------------------
(* Instances of AppProtocol for TLC.                                        *)
EXTENDS AppProtocol

TLV(fid, len, val) == [fid |-> fid, len |-> len, val |-> val]
mode(m) == TLV("MODE", 1, <<m>>)
WriteReq(tlvs) == [count |-> Len(tlvs), tlvs |-> tlvs, whole |-> TRUE]

\* The authentication instance: one good and one bad request of each kind.
OneRead == {[ts |-> 0, count |-> 1, fields |-> <<"MODE">>]}
OneWrite == {WriteReq(<<mode(3)>>), WriteReq(<<mode(9)>>)}
ShellMode == {<<"mode", 9>>}
=============================================================================
