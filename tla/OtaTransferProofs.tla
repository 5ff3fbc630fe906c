------------------------- MODULE OtaTransferProofs -------------------------
(* Proofs about OtaTransfer, for every image, buffer and packet size.       *)
EXTENDS OtaTransfer, FiniteSetTheorems, TLAPS

\* A transfer is never open and done at once.
NotBoth == ~(active /\ done)

IInv == TypeOK /\ ImageAssembled /\ NotBoth

USE DEF Index, Cells

LEMMA Division ==
    ASSUME NEW p \in Nat, NEW d \in Nat \ {0}
    PROVE  /\ p \div d \in Nat
           /\ (p \div d) * d <= p
           /\ p < (p \div d) * d + d
  OBVIOUS

\* A taken packet has at least one byte and at most chunk of them.
LEMMA PacketLength ==
    ASSUME TypeOK, NEW k \in Packets
    PROVE  /\ k \in Nat /\ k * chunk \in Nat
           /\ PktLen(k) \in Nat
           /\ 0 < PktLen(k) /\ PktLen(k) <= chunk
           /\ k * chunk + PktLen(k) <= Len(image)
           /\ Offset(k) \in Nat
  <1>1. k \in Nat /\ chunk \in Nat \ {0} /\ Len(image) \in Nat
    BY SizeAssumption DEF TypeOK, Packets
  <1>2. k * chunk \in Nat /\ (k + 1) * chunk = k * chunk + chunk
    BY <1>1
  <1>3. k * chunk < Len(image)
    BY DEF Packets
  <1>4. Offset(k) \in Nat
    BY <1>1, SizeAssumption DEF Offset
  <1>5. CASE k * chunk + chunk <= Len(image)
    <2>1. PktLen(k) = chunk
      BY <1>2, <1>5 DEF PktLen
    <2> QED
      BY <1>1, <1>2, <1>3, <1>4, <1>5, <2>1
  <1>6. CASE ~ (k * chunk + chunk <= Len(image))
    <2>1. PktLen(k) = Len(image) - k * chunk
      BY <1>2, <1>6 DEF PktLen
    <2> QED
      BY <1>1, <1>2, <1>3, <1>4, <1>6, <2>1
  <1> QED
    BY <1>5, <1>6

\* Init satisfies the invariant: no packet has arrived.
LEMMA InitInv == Init => IInv
  <1> SUFFICES ASSUME Init PROVE IInv
    OBVIOUS
  <1>1. TypeOK
    <2>1. <<>> \in Seq(Int)
      OBVIOUS
    <2>2. APP_CONFIG_OTA_PKT_DATA \in 1 .. APP_CONFIG_OTA_PKT_DATA
      BY SizeAssumption
    <2>3. arrived \in [Index -> 0 .. MaxRepeats] /\ buf \in [Cells -> Int]
      BY SizeAssumption DEF Init
    <2>4. total_size \in Nat /\ bytes_received \in Nat /\ next_idx \in Index
      BY SizeAssumption DEF Init
    <2>5. active \in BOOLEAN /\ done \in BOOLEAN /\ ble_unlocked \in BOOLEAN
      BY DEF Init
    <2> QED
      BY <2>1, <2>2, <2>3, <2>4, <2>5 DEF Init, TypeOK
  <1>2. ImageAssembled
    BY SizeAssumption DEF Init, ImageAssembled
  <1> QED
    BY <1>1, <1>2 DEF Init, NotBoth, IInv

\* Types are preserved; SetNextIdx wraps the index.
LEMMA TypeStep == TypeOK /\ [Next]_vars => TypeOK'
  <1> SUFFICES ASSUME TypeOK, [Next]_vars PROVE TypeOK'
    OBVIOUS
  <1> USE SizeAssumption
  <1>1. ASSUME NEW k \in Index, OtaData(k)
        PROVE  TypeOK'
    <2>1. k \in Packets
      BY <1>1 DEF OtaData, Take
    <2>2. bytes_received' \in Nat
      BY <1>1, <2>1, PacketLength DEF OtaData, TypeOK
    <2>3. buf' \in [Cells -> Int]
      <3> SUFFICES ASSUME NEW p \in Cells,
                          p \in Offset(k) .. Offset(k) + PktLen(k) - 1
                   PROVE  image[k * chunk + (p - Offset(k)) + 1] \in Int
        BY <1>1 DEF OtaData, TypeOK
      <3>1. /\ k * chunk \in Nat /\ PktLen(k) \in Nat /\ Offset(k) \in Nat
            /\ k * chunk + PktLen(k) <= Len(image) /\ Len(image) \in Nat
        BY <2>1, PacketLength DEF TypeOK
      <3>2. /\ p \in Int /\ 0 <= p - Offset(k) /\ p - Offset(k) < PktLen(k)
        BY <3>1
      <3>3. k * chunk + (p - Offset(k)) + 1 \in 1 .. Len(image)
        BY <3>1, <3>2
      <3> QED
        BY <3>3 DEF TypeOK
    <2>4. arrived' \in [Index -> 0 .. MaxRepeats]
      BY <1>1 DEF OtaData, Take, TypeOK
    <2>5. next_idx' \in Index
      BY <1>1 DEF OtaData, SetNextIdx
    <2> QED
      BY <1>1, <2>2, <2>3, <2>4, <2>5 DEF OtaData, Take, TypeOK
  <1>2. ASSUME NEW k \in Index, OtaDataDropped(k)
        PROVE  TypeOK'
    <2>1. arrived' \in [Index -> 0 .. MaxRepeats]
      BY <1>2 DEF OtaDataDropped, Take, TypeOK
    <2>2. next_idx' \in Index
      BY <1>2 DEF OtaDataDropped, SetNextIdx
    <2> QED
      BY <1>2, <2>1, <2>2 DEF OtaDataDropped, Take, TypeOK
  <1>3. ASSUME NEW img \in Images, NEW size \in 1 .. APP_CONFIG_OTA_PKT_DATA,
               NEW sized \in BOOLEAN, OtaStart(img, size, sized)
        PROVE  TypeOK'
    <2>1. img \in Seq(Int) /\ Len(img) \in Nat
      BY ImageAssumption
    <2>2. arrived' \in [Index -> 0 .. MaxRepeats]
      BY <1>3 DEF OtaStart
    <2>3. total_size' \in Nat /\ next_idx' \in Index /\ bytes_received' \in Nat
      BY <1>3, <2>1 DEF OtaStart
    <2>4. active' \in BOOLEAN /\ done' \in BOOLEAN /\ ble_unlocked' \in BOOLEAN
      BY <1>3 DEF OtaStart, TypeOK
    <2> QED
      BY <1>3, <2>1, <2>2, <2>3, <2>4 DEF OtaStart, TypeOK
  <1>4. CASE OtaEnd
    <2>1. active' \in BOOLEAN /\ done' \in BOOLEAN
      BY <1>4 DEF OtaEnd
    <2> QED
      BY <1>4, <2>1 DEF OtaEnd, TypeOK, app
  <1>5. CASE Unlock \/ Drop
    BY <1>5 DEF Unlock, Drop, ota, app, TypeOK
  <1>6. ASSUME UNCHANGED <<ota, ble_unlocked, app>>
        PROVE  TypeOK'
    BY <1>6 DEF ota, app, TypeOK
  <1> QED
    BY <1>1, <1>2, <1>3, <1>4, <1>5, <1>6
       DEF Next, vars, OtaDenied, OtaDataEmpty, OtaDataRefused

\* A packet that fits writes each byte of it to that byte's place in the
\* image, so an overlap of packets would do no harm.
LEMMA DataAssembles ==
    ASSUME TypeOK, ImageAssembled, NEW k2 \in Index, OtaData(k2)
    PROVE  ImageAssembled'
  <1> DEFINE W == APP_CONFIG_OTA_PKT_DATA
  <1> SUFFICES ASSUME FullPackets, NEW p \in Cells,
                      p < Len(image), p \div W \in Index,
                      arrived'[p \div W] > 0,
                      Offset(p \div W) + PktLen(p \div W) - 1 \in Cells
               PROVE  buf'[p] = image[p + 1]
    BY DEF ImageAssembled, FullPackets, OtaData, Take, PktLen, Offset
  <1>1. k2 \in Packets /\ chunk = W /\ p \in Nat
    BY DEF OtaData, Take, FullPackets
  <1>2. buf'[p] = IF p \in Offset(k2) .. Offset(k2) + PktLen(k2) - 1
                  THEN image[k2 * W + (p - Offset(k2)) + 1] ELSE buf[p]
    BY <1>1 DEF OtaData
  <1>3. CASE p \in Offset(k2) .. Offset(k2) + PktLen(k2) - 1
    <2>1. k2 * W + (p - Offset(k2)) + 1 = p + 1
      BY <1>1, PacketLength DEF Offset
    <2> QED
      BY <1>2, <1>3, <2>1
  <1>4. CASE p \notin Offset(k2) .. Offset(k2) + PktLen(k2) - 1
    <2>1. p \div W # k2
      <3> SUFFICES ASSUME p \div W = k2 PROVE FALSE
        OBVIOUS
      <3>1. Offset(k2) <= p /\ p < Offset(k2) + W
        BY <1>1, Division, SizeAssumption DEF Offset
      <3>2. k2 \in Nat /\ W \in Nat /\ (k2 + 1) * W = k2 * W + W
        BY <1>1, SizeAssumption DEF Packets
      <3>3. Len(image) \in Nat
        BY DEF TypeOK
      <3>4. PktLen(k2) \in Nat /\ Offset(k2) \in Nat
        BY <1>1, PacketLength
      <3>5. p < Offset(k2) + PktLen(k2)
        <4>1. CASE (k2 + 1) * W <= Len(image)
          BY <1>1, <3>1, <4>1 DEF PktLen
        <4>2. CASE ~ ((k2 + 1) * W <= Len(image))
          <5>1. PktLen(k2) = Len(image) - Offset(k2)
            BY <1>1, <4>2 DEF PktLen, Offset
          <5> QED
            BY <1>1, <3>3, <3>4, <5>1
        <4> QED
          BY <4>1, <4>2
      <3> QED
        BY <1>1, <1>4, <3>1, <3>4, <3>5
    <2>2. arrived[p \div W] > 0
      BY <2>1 DEF OtaData, Take, TypeOK
    <2>3. buf[p] = image[p + 1]
      BY <2>2 DEF ImageAssembled, FullPackets
    <2> QED
      BY <1>2, <1>4, <2>3
  <1> QED
    BY <1>3, <1>4

LEMMA DroppedAssembles ==
    ASSUME TypeOK, ImageAssembled, NEW k2 \in Index, OtaDataDropped(k2)
    PROVE  ImageAssembled'
  <1> DEFINE W == APP_CONFIG_OTA_PKT_DATA
  <1> SUFFICES ASSUME FullPackets, NEW p \in Cells,
                      p < Len(image), p \div W \in Index,
                      arrived'[p \div W] > 0,
                      Offset(p \div W) + PktLen(p \div W) - 1 \in Cells
               PROVE  buf[p] = image[p + 1]
    BY DEF ImageAssembled, FullPackets, OtaDataDropped, Take, PktLen, Offset
  \* The dropped packet ends outside of the buffer.
  <1>1. p \div W # k2
    <2>1. k2 \in Packets
      BY DEF OtaDataDropped, Take
    <2>2. Offset(k2) + PktLen(k2) - 1 \notin Cells
      BY <2>1, PacketLength, SizeAssumption DEF OtaDataDropped, Fits
    <2> QED
      BY <2>2
  <1>2. arrived[p \div W] > 0
    BY <1>1 DEF OtaDataDropped, Take, TypeOK
  <1> QED
    BY <1>2 DEF ImageAssembled, FullPackets

LEMMA InvStep == IInv /\ [Next]_vars => IInv'
  <1> SUFFICES ASSUME IInv, [Next]_vars PROVE IInv'
    OBVIOUS
  <1>1. TypeOK'
    BY TypeStep DEF IInv
  <1>2. ASSUME UNCHANGED <<ota, app>>
        PROVE  ImageAssembled' /\ NotBoth'
    BY <1>2 DEF IInv, ImageAssembled, FullPackets, Offset, PktLen, NotBoth, ota, app
  <1>3. ASSUME NEW k \in Index, OtaData(k)
        PROVE  ImageAssembled' /\ NotBoth'
    BY <1>3, DataAssembles DEF IInv, NotBoth, OtaData, Take
  <1>4. ASSUME NEW k \in Index, OtaDataDropped(k)
        PROVE  ImageAssembled' /\ NotBoth'
    BY <1>4, DroppedAssembles DEF IInv, NotBoth, OtaDataDropped, Take
  <1>5. ASSUME NEW img \in Images, NEW size \in 1 .. APP_CONFIG_OTA_PKT_DATA,
               NEW sized \in BOOLEAN, OtaStart(img, size, sized)
        PROVE  ImageAssembled' /\ NotBoth'
    <2>1. \A k \in Index : arrived'[k] = 0
      BY <1>5 DEF OtaStart
    <2>2. ImageAssembled'
      BY <2>1 DEF ImageAssembled
    <2>3. NotBoth'
      BY <1>5 DEF OtaStart, NotBoth
    <2> QED
      BY <2>2, <2>3
  <1>6. ASSUME OtaEnd
        PROVE  ImageAssembled' /\ NotBoth'
    <2>1. ImageAssembled'
      BY <1>6 DEF OtaEnd, IInv, ImageAssembled, FullPackets, Offset, PktLen, app
    <2>2. NotBoth'
      BY <1>6 DEF OtaEnd, NotBoth
    <2> QED
      BY <2>1, <2>2
  <1>7. ImageAssembled' /\ NotBoth'
    BY <1>2, <1>3, <1>4, <1>5, <1>6
       DEF Next, vars, Unlock, Drop, OtaDenied, OtaDataEmpty, OtaDataRefused
  <1> QED
    BY <1>1, <1>7 DEF IInv

THEOREM Invariance == Spec => []IInv
  BY InitInv, InvStep, PTL DEF Spec

\* Every variable of the transfer has its type.
THEOREM TypeCorrect == Spec => []TypeOK
  <1>1. IInv => TypeOK
    BY DEF IInv
  <1> QED
    BY Invariance, <1>1, PTL

\* Every byte whose packet has arrived is in its place (app_config.c:346).
THEOREM Assembled == Spec => []ImageAssembled
  <1>1. IInv => ImageAssembled
    BY DEF IInv
  <1> QED
    BY Invariance, <1>1, PTL

\* A transfer that is done does not change until a START.
THEOREM Frozen == Spec => DoneIsFrozen
  <1>1. IInv /\ [Next]_vars
        => [done /\ last'.cmd # "START" => UNCHANGED ota]_vars
    <2> SUFFICES ASSUME IInv, Next, done, last'.cmd # "START" PROVE UNCHANGED ota
      BY DEF vars
    <2>1. ~active
      BY DEF IInv, NotBoth
    <2>2. CASE OtaEnd
      BY <2>1, <2>2 DEF OtaEnd, ota, IInv, TypeOK
    <2>3. ~ \E img \in Images, size \in 1 .. APP_CONFIG_OTA_PKT_DATA,
               sized \in BOOLEAN : OtaStart(img, size, sized)
      BY DEF OtaStart, Answer
    <2> QED
      BY <2>1, <2>2, <2>3 DEF Next, Unlock, Drop, OtaDenied, OtaData,
         OtaDataDropped, Take, OtaDataEmpty, OtaDataRefused
  <1> QED
    BY Invariance, <1>1, PTL DEF Spec, DoneIsFrozen
-----------------------------------------------------------------------------
(* What bytes_received counts.                                              *)

\* The bytes of the image whose packet has arrived and was stored.
Stored == {p \in 0 .. Len(image) - 1 :
             LET k == p \div APP_CONFIG_OTA_PKT_DATA
             IN  k \in Index /\ arrived[k] > 0 /\ Fits(k)}

OncePerPacket == FullPackets /\ \A k \in Index : arrived[k] <= 1

\* As long as no packet comes twice, each stored byte is counted once; and the
\* announced size is that of the image, or was left out.
CountInv == /\ total_size \in {0, Len(image)}
            /\ OncePerPacket => bytes_received = Cardinality(Stored)

LEMMA DivisionUnique ==
    ASSUME NEW p \in Nat, NEW d \in Nat \ {0}, NEW k \in Nat,
           k * d <= p, p < k * d + d
    PROVE  p \div d = k
  <1> DEFINE q == p \div d
  <1>1. q \in Nat /\ q * d <= p /\ p < q * d + d
    BY Division
  <1> HIDE DEF q
  <1>2. CASE q < k
    <2>1. PICK n \in Nat : k = q + 1 + n
      <3>1. k - q - 1 \in Nat /\ k = q + 1 + (k - q - 1)
        BY <1>1, <1>2
      <3> QED BY <3>1
    <2>2. k * d = q * d + d + n * d /\ n * d \in Nat
      BY <1>1, <2>1
    <2> QED BY <1>1, <2>2
  <1>3. CASE k < q
    <2>1. PICK n \in Nat : q = k + 1 + n
      <3>1. q - k - 1 \in Nat /\ q = k + 1 + (q - k - 1)
        BY <1>1, <1>3
      <3> QED BY <3>1
    <2>2. q * d = k * d + d + n * d /\ n * d \in Nat
      BY <1>1, <2>1
    <2> QED BY <1>1, <2>2
  <1>4. q = k
    BY <1>1, <1>2, <1>3
  <1> QED BY <1>4 DEF q

\* The bytes of a full packet, or of the last one, are those whose position
\* divides to its index.
LEMMA PacketBytes ==
    ASSUME TypeOK, FullPackets, NEW k \in Packets
    PROVE  {p \in 0 .. Len(image) - 1 : p \div APP_CONFIG_OTA_PKT_DATA = k}
             = Offset(k) .. Offset(k) + PktLen(k) - 1
  <1> DEFINE W == APP_CONFIG_OTA_PKT_DATA
  <1>1. /\ W \in Nat \ {0} /\ chunk = W /\ Len(image) \in Nat /\ k \in Nat
        /\ Offset(k) = k * W /\ k * W \in Nat
    BY SizeAssumption, PacketLength DEF TypeOK, FullPackets, Offset
  <1>2. /\ PktLen(k) \in Nat /\ PktLen(k) <= W /\ k * W + PktLen(k) <= Len(image)
    BY <1>1, PacketLength
  <1>3. (k + 1) * W = k * W + W
    BY <1>1
  <1>4. PktLen(k) = W \/ k * W + PktLen(k) = Len(image)
    <2>1. PktLen(k) = W \/ PktLen(k) = Len(image) - k * W
      BY <1>1 DEF PktLen
    <2> QED BY <1>1, <1>2, <2>1
  <1>5. ASSUME NEW p \in 0 .. Len(image) - 1, p \div W = k
        PROVE  p \in Offset(k) .. Offset(k) + PktLen(k) - 1
    <2>1. k * W <= p /\ p < k * W + W
      BY <1>1, <1>5, Division
    <2> QED BY <1>1, <1>2, <1>4, <2>1
  <1>6. ASSUME NEW p \in Offset(k) .. Offset(k) + PktLen(k) - 1
        PROVE  p \in 0 .. Len(image) - 1 /\ p \div W = k
    <2>1. p \in Nat /\ k * W <= p /\ p < k * W + W /\ p < Len(image)
      BY <1>1, <1>2
    <2>2. p \div W = k
      BY <1>1, <2>1, DivisionUnique
    <2> QED BY <1>1, <2>1, <2>2
  <1> QED BY <1>5, <1>6

LEMMA StoredFinite ==
    ASSUME TypeOK
    PROVE  IsFiniteSet(Stored) /\ Cardinality(Stored) \in Nat
  <1>1. Len(image) - 1 \in Int
    BY DEF TypeOK
  <1>2. IsFiniteSet(0 .. Len(image) - 1)
    BY <1>1, FS_Interval
  <1>3. Stored \subseteq 0 .. Len(image) - 1
    BY DEF Stored
  <1>4. IsFiniteSet(Stored)
    BY <1>2, <1>3, FS_Subset
  <1> QED BY <1>4, FS_CardinalityType

\* A packet that arrives for the first time adds its bytes to the stored ones.
LEMMA DataCounted ==
    ASSUME TypeOK, CountInv, NEW k \in Index, OtaData(k), OncePerPacket'
    PROVE  bytes_received' = Cardinality(Stored')
  <1> DEFINE W == APP_CONFIG_OTA_PKT_DATA
             Bytes == Offset(k) .. Offset(k) + PktLen(k) - 1
  <1>1. /\ k \in Packets /\ Fits(k) /\ UNCHANGED <<image, chunk>>
        /\ arrived' = [arrived EXCEPT ![k] = @ + 1]
        /\ bytes_received' = bytes_received + PktLen(k)
    BY DEF OtaData, Take
  <1>2. \A j \in Index : arrived[j] \in Nat
    BY SizeAssumption DEF TypeOK
  <1>3. arrived[k] = 0 /\ OncePerPacket
    <2>1. arrived'[k] = arrived[k] + 1
      BY <1>1 DEF TypeOK
    <2>2. \A j \in Index : j # k => arrived'[j] = arrived[j]
      BY <1>1 DEF TypeOK
    <2> QED
      BY <1>1, <1>2, <2>1, <2>2 DEF OncePerPacket, FullPackets
  <1>4. Bytes = {p \in 0 .. Len(image) - 1 : p \div W = k}
    BY <1>1, <1>3, PacketBytes DEF OncePerPacket
  <1>5. Stored' = Stored \cup Bytes
    <2>1. \A j \in Index : arrived'[j] > 0 <=> arrived[j] > 0 \/ j = k
      BY <1>1, <1>2 DEF TypeOK
    <2>2. \A j : Fits(j)' = Fits(j)
      BY <1>1 DEF Fits, Offset, PktLen
    <2> HIDE DEF Bytes
    <2> QED
      BY <1>1, <1>4, <2>1, <2>2 DEF Stored
  <1>6. Stored \cap Bytes = {}
    BY <1>3, <1>4 DEF Stored
  <1>7. Offset(k) \in Nat /\ PktLen(k) \in Nat /\ PktLen(k) > 0
    BY <1>1, PacketLength
  <1>8. IsFiniteSet(Bytes) /\ Cardinality(Bytes) = PktLen(k)
    <2>1. Offset(k) \in Int /\ Offset(k) + PktLen(k) - 1 \in Int
      BY <1>7
    <2>2. ~(Offset(k) > Offset(k) + PktLen(k) - 1)
      BY <1>7
    <2>3. (Offset(k) + PktLen(k) - 1) - Offset(k) + 1 = PktLen(k)
      BY <1>7
    <2> QED BY <2>1, <2>2, <2>3, FS_Interval
  <1> HIDE DEF Bytes
  <1>9. Cardinality(Stored \cup Bytes)
          = Cardinality(Stored) + Cardinality(Bytes) - Cardinality(Stored \cap Bytes)
    BY <1>8, StoredFinite, FS_Union
  <1>10. Cardinality(Stored \cap Bytes) = 0
    BY <1>6, FS_EmptySet
  <1>11. bytes_received = Cardinality(Stored)
    BY <1>3 DEF CountInv
  <1> QED
    BY <1>1, <1>5, <1>7, <1>8, <1>9, <1>10, <1>11, StoredFinite

LEMMA CountStep ==
    ASSUME TypeOK, CountInv, [Next]_vars
    PROVE  CountInv'
  <1>1. ASSUME UNCHANGED <<total_size, bytes_received, app>>
        PROVE  CountInv'
    BY <1>1 DEF CountInv, OncePerPacket, FullPackets, Stored, Fits, Offset, PktLen, app
  <1>2. ASSUME NEW k \in Index, OtaData(k) PROVE CountInv'
    <2>1. total_size' \in {0, Len(image')}
      BY <1>2 DEF OtaData, Take, CountInv
    <2> QED BY <1>2, <2>1, DataCounted DEF CountInv
  <1>3. ASSUME NEW k \in Index, OtaDataDropped(k) PROVE CountInv'
    <2>1. /\ ~Fits(k) /\ UNCHANGED <<total_size, bytes_received, image, chunk>>
          /\ arrived' = [arrived EXCEPT ![k] = @ + 1]
      BY <1>3 DEF OtaDataDropped, Take
    <2>2. \A j \in Index : arrived[j] \in Nat /\ (j # k => arrived'[j] = arrived[j])
      BY <2>1, SizeAssumption DEF TypeOK
    <2>3. \A j : Fits(j)' = Fits(j)
      BY <2>1 DEF Fits, Offset, PktLen
    <2>4. Stored' = Stored
      <3>1. \A j \in Index : Fits(j) => arrived'[j] = arrived[j]
        BY <2>1, <2>2
      <3> QED BY <2>1, <2>3, <3>1 DEF Stored
    <2>5. OncePerPacket' => OncePerPacket
      <3>1. arrived'[k] = arrived[k] + 1
        BY <2>1 DEF TypeOK
      <3>2. ASSUME NEW j \in Index, arrived'[j] <= 1 PROVE arrived[j] <= 1
        <4>1. arrived[j] \in Nat
          BY <2>2
        <4>2. arrived'[j] = arrived[j] \/ arrived'[j] = arrived[j] + 1
          BY <2>2, <3>1
        <4> QED BY <3>2, <4>1, <4>2
      <3> QED BY <2>1, <3>2 DEF OncePerPacket, FullPackets
    <2> QED BY <2>1, <2>4, <2>5 DEF CountInv
  <1>4. ASSUME NEW img \in Images, NEW size \in 1 .. APP_CONFIG_OTA_PKT_DATA,
               NEW sized \in BOOLEAN, OtaStart(img, size, sized)
        PROVE  CountInv'
    <2>1. total_size' \in {0, Len(image')} /\ bytes_received' = 0
      BY <1>4 DEF OtaStart
    <2>2. Stored' = {}
      BY <1>4 DEF OtaStart, Stored
    <2> QED BY <2>1, <2>2, FS_EmptySet DEF CountInv
  <1>5. CASE OtaEnd
    BY <1>1, <1>5 DEF OtaEnd
  <1> QED
    BY <1>1, <1>2, <1>3, <1>4, <1>5
       DEF Next, vars, ota, Unlock, Drop, OtaDenied, OtaDataEmpty, OtaDataRefused

LEMMA CountInit == Init => CountInv
  <1> SUFFICES ASSUME Init PROVE CountInv
    OBVIOUS
  <1>1. Stored = {}
    BY DEF Init, Stored
  <1> QED BY <1>1, FS_EmptySet DEF Init, CountInv

\* A full count means that all bytes are stored, and stored bytes are in place.
LEMMA FullCount == TypeOK /\ ImageAssembled /\ CountInv => CountTellsWhole
  <1> SUFFICES ASSUME TypeOK, ImageAssembled, CountInv, OncePerPacket,
                      total_size > 0, bytes_received = total_size,
                      NEW p \in 0 .. Len(image) - 1
               PROVE  p \in Cells /\ buf[p] = image[p + 1]
    BY DEF CountTellsWhole, OncePerPacket
  <1> DEFINE k == p \div APP_CONFIG_OTA_PKT_DATA
  <1>1. Len(image) \in Nat /\ p \in Nat /\ p < Len(image)
    BY DEF TypeOK
  <1>2. Cardinality(Stored) = Len(image) /\ Len(image) > 0
    BY DEF CountInv
  <1>3. Stored = 0 .. Len(image) - 1
    <2>1. 0 \in Int /\ Len(image) - 1 \in Int
      BY <1>1
    <2>2. /\ IsFiniteSet(0 .. Len(image) - 1)
          /\ Cardinality(0 .. Len(image) - 1) = Len(image)
      <3>1. ~(0 > Len(image) - 1) /\ (Len(image) - 1) - 0 + 1 = Len(image)
        BY <1>1, <1>2
      <3> QED BY <2>1, <3>1, FS_Interval
    <2>3. Stored \in SUBSET (0 .. Len(image) - 1)
      BY DEF Stored
    <2> QED BY <1>2, <2>2, <2>3, FS_Subset
  <1>4. k \in Index /\ arrived[k] > 0 /\ Fits(k)
    BY <1>3 DEF Stored
  <1>5. k \in Packets
    <2>1. k * APP_CONFIG_OTA_PKT_DATA <= p
      BY <1>1, Division, SizeAssumption
    <2>2. k * APP_CONFIG_OTA_PKT_DATA \in Nat
      BY <1>4, SizeAssumption
    <2> HIDE DEF k
    <2> QED BY <1>1, <1>4, <2>1, <2>2 DEF Packets, OncePerPacket, FullPackets
  <1>6. /\ Offset(k) \in Nat /\ PktLen(k) \in Nat /\ PktLen(k) > 0
        /\ Offset(k) + PktLen(k) <= APP_CONFIG_OTA_BUF_SIZE
    BY <1>4, <1>5, PacketLength DEF Fits
  <1>7. p \in Offset(k) .. Offset(k) + PktLen(k) - 1
    BY <1>5, PacketBytes DEF OncePerPacket
  <1>8. p \in Cells /\ Offset(k) + PktLen(k) - 1 \in Cells
    BY <1>6, <1>7, SizeAssumption
  <1>9. buf[p] = image[p + 1]
    BY <1>1, <1>4, <1>8 DEF ImageAssembled, OncePerPacket
  <1> QED BY <1>8, <1>9

\* If no packet came twice, a count of as many bytes as announced means that
\* the whole image is in the buffer (app_config.c:350).
THEOREM CountIsWhole == Spec => []CountTellsWhole
  <1>1. IInv /\ CountInv /\ [Next]_vars => CountInv'
    BY CountStep DEF IInv
  <1>2. IInv /\ CountInv => CountTellsWhole
    BY FullCount DEF IInv
  <1> QED
    BY Invariance, CountInit, <1>1, <1>2, PTL DEF Spec
=============================================================================
