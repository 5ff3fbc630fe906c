------------------------------- MODULE MCBoot -------------------------------
(* An instance of Boot for TLC: one read, one write.                        *)
EXTENDS Boot

ModeRead == {[ts |-> 0, count |-> 1, fields |-> <<"MODE">>]}
ModeWrite == {[count |-> 1, whole |-> TRUE,
               tlvs |-> <<[fid |-> "MODE", len |-> 1, val |-> <<3>>]>>]}
NoShell == {}
=============================================================================
