--------------------------- MODULE MCOtaTransfer ---------------------------
(* Instance of OtaTransfer: a buffer of five bytes and packets of two, so   *)
(* that, as with 32768 and 492, the end of the buffer is inside a packet.   *)
(* One image fills the buffer, one is shorter, one exceeds it.              *)
EXTENDS OtaTransfer

ThreeImages == {<<1, 2, 3>>, <<4, 5, 6, 7, 8>>, <<9, 9, 9, 9, 9, 9>>}
=============================================================================
