---------------------------- MODULE CodecProofs ----------------------------
(* What the codecs of AppFrames compute, for every byte sequence: the       *)
(* numbers, the decoder's loop, the judgement on a command's bytes, and the *)
(* bytes of an answer.                                                      *)
EXTENDS AppPeer, AppProtocolProofs, LoopProofs, SequenceTheorems

(* Sequences.                                                               *)

LEMMA Piece ==
    ASSUME NEW S, NEW s \in Seq(S), NEW m \in Int, NEW n \in Int,
           1 <= m, m <= n + 1, n <= Len(s)
    PROVE  /\ SubSeq(s, m, n) \in Seq(S) /\ Len(SubSeq(s, m, n)) = n - m + 1
           /\ \A i \in 1 .. n - m + 1 : SubSeq(s, m, n)[i] = s[m + i - 1]
<1>1. \A i \in m .. n : s[i] \in S
  <2>1. ASSUME NEW i \in m .. n PROVE s[i] \in S
    <3>1. i \in 1 .. Len(s)
      OBVIOUS
    <3> QED BY <3>1, ElementOfSeq
  <2> QED BY <2>1
<1>2. Len(SubSeq(s, m, n)) = IF m <= n THEN n - m + 1 ELSE 0
  BY <1>1, SubSeqProperties
<1>3. Len(SubSeq(s, m, n)) = n - m + 1
  BY <1>2
<1> QED BY <1>1, <1>3, SubSeqProperties

LEMMA Joined ==
    ASSUME NEW S, NEW x \in Seq(S), NEW y \in Seq(S)
    PROVE  /\ x \o y \in Seq(S) /\ Len(x \o y) = Len(x) + Len(y)
           /\ \A j \in 1 .. Len(x) : (x \o y)[j] = x[j]
           /\ \A j \in 1 .. Len(y) : (x \o y)[Len(x) + j] = y[j]
<1>1. /\ x \o y \in Seq(S) /\ Len(x \o y) = Len(x) + Len(y)
      /\ \A i \in 1 .. Len(x) + Len(y) : (x \o y)[i] =
                     IF i <= Len(x) THEN x[i] ELSE y[i - Len(x)]
  BY ConcatProperties
<1>2. Len(x) \in Nat /\ Len(y) \in Nat
  OBVIOUS
<1>3. \A j \in 1 .. Len(x) : (x \o y)[j] = x[j]
  BY <1>1, <1>2
<1>4. \A j \in 1 .. Len(y) : (x \o y)[Len(x) + j] = y[j]
  <2>1. ASSUME NEW j \in 1 .. Len(y) PROVE (x \o y)[Len(x) + j] = y[j]
    <3>1. /\ Len(x) + j \in 1 .. Len(x) + Len(y) /\ ~(Len(x) + j <= Len(x))
          /\ (Len(x) + j) - Len(x) = j
      BY <1>2
    <3>2. (x \o y)[Len(x) + j] = y[(Len(x) + j) - Len(x)]
      BY <1>1, <3>1
    <3> QED BY <3>1, <3>2
  <2> QED BY <2>1
<1> QED BY <1>1, <1>3, <1>4
-----------------------------------------------------------------------------
(* Numbers.  The provers instantiate a lemma by its hypotheses, so these are *)
(* predicates; and large bounds occur in no leaf that does more than that.  *)

\* x has the last digit l to base 256, and h before it.
Splits(x, h, l) == x \in Int /\ h \in Int /\ l \in Byte /\ x = 256 * h + l

LEMMA LastDigit ==
    ASSUME NEW x \in Int
    PROVE  Splits(x, x \div 256, x % 256)
<1>1. x % 256 = x - 256 * (x \div 256)
  OBVIOUS
<1> QED BY <1>1 DEF Splits, Byte

LEMMA BytesAre == \A h \in Byte : h \in Int /\ h \in Nat
  BY DEF Byte

LEMMA SplitsOf ==
    ASSUME NEW h \in Byte, NEW l \in Byte
    PROVE  Splits(h * 256 + l, h, l)
  BY DEF Splits, Byte

LEMMA DigitsUnique ==
    ASSUME NEW x, NEW h, NEW l, Splits(x, h, l)
    PROVE  x \div 256 = h /\ x % 256 = l
  BY DEF Splits, Byte

\* Where a number of two bytes lies, by its upper one.
LEMMA Range16 ==
    ASSUME NEW x, NEW h, NEW l, Splits(x, h, l)
    PROVE  /\ h \in Byte <=> x \in 0 .. MAX_UINT16
           /\ h \in -128 .. 127 <=> -32768 <= x /\ x < 32768
<1> USE DEF Splits
<1>1. x \in Int /\ MAX_UINT16 \in Int
  BY DEF MAX_UINT16
<1>2. h \in Byte <=> 0 <= x /\ x <= MAX_UINT16
  BY DEF Byte, MAX_UINT16
<1>3. h \in -128 .. 127 <=> -32768 <= x /\ x < 32768
  BY DEF Byte
<1>4. h \in Byte <=> x \in 0 .. MAX_UINT16
  BY ONLY <1>1, <1>2
<1> QED BY <1>3, <1>4

LEMMA UpperHalf ==
    ASSUME NEW x \in Int
    PROVE  x \in INT32 <=> -32768 <= x \div 65536 /\ x \div 65536 < 32768
  BY DEF INT32

LEMMA Wrapped ==
    /\ \A a \in Byte : a % 256 = a
    /\ \A a \in -128 .. 127 : a % 256 = IF a < 0 THEN a + 256 ELSE a
<1>1. ASSUME NEW a \in Byte PROVE a % 256 = a
  <2>1. Splits(a, 0, a)
    BY DEF Byte, Splits
  <2> QED BY <2>1, DigitsUnique
<1>2. ASSUME NEW a \in -128 .. 127, a < 0 PROVE a % 256 = a + 256
  <2>1. Splits(a, -1, a + 256)
    BY <1>2 DEF Byte, Splits
  <2> QED BY <2>1, DigitsUnique
<1>3. \A a \in -128 .. 127 : a >= 0 => a \in Byte
  BY DEF Byte
<1> QED BY <1>1, <1>2, <1>3

\* A number in base 256: its last three digits and the rest.
Digits(x, a, b, c, d) ==
    \E y, z : Splits(x, y, d) /\ Splits(y, z, c) /\ Splits(z, a, b)

LEMMA DigitsExist ==
    ASSUME NEW x \in Int
    PROVE  \E a, b, c, d : Digits(x, a, b, c, d)
<1> DEFINE y == x \div 256
           z == y \div 256
<1>1. y \in Int /\ z \in Int
  OBVIOUS
<1>2. Splits(x, y, x % 256) /\ Splits(y, z, y % 256) /\ Splits(z, z \div 256, z % 256)
  <2> HIDE DEF z
  <2> USE DEF z
  <2> QED BY <1>1, LastDigit
<1> QED BY <1>2 DEF Digits

LEMMA DigitsAre ==
    ASSUME NEW x, NEW a, NEW b, NEW c, NEW d, Digits(x, a, b, c, d)
    PROVE  /\ x % 256 = d
           /\ (x \div 256) % 256 = c
           /\ Splits(x \div 65536, a, b)
           /\ (x \div 65536) % 256 = b
           /\ x \div POW_24 = a
           /\ (x \div 65536) \div 256 = a
           /\ (x % 65536) \div 256 = c
           /\ (x % 65536) % 256 = d
<1>1. PICK y, z : Splits(x, y, d) /\ Splits(y, z, c) /\ Splits(z, a, b)
  BY DEF Digits
<1>2. /\ x \div 256 = y /\ x % 256 = d
      /\ y \div 256 = z /\ y % 256 = c
      /\ z \div 256 = a /\ z % 256 = b
  BY <1>1, DigitsUnique
<1>3. x \in Int
  BY <1>1 DEF Splits
<1>4. x \div 65536 = (x \div 256) \div 256
  BY <1>3
<1>5. x \div POW_24 = (x \div 65536) \div 256
  BY <1>3 DEF POW_24
<1>6. Splits(x % 65536, c, d)
  <2>1. x % 65536 = x - 65536 * (x \div 65536) /\ x % 65536 \in Int
    BY <1>3
  <2>2. x % 65536 = x - 65536 * z
    BY <1>2, <1>4, <2>1
  <2>3. x % 65536 = 256 * c + d
    BY <1>1, <2>2 DEF Splits, Byte
  <2>4. c \in Int /\ d \in Byte
    BY <1>1 DEF Splits, Byte
  <2> QED BY <2>1, <2>3, <2>4 DEF Splits
<1>7. (x % 65536) \div 256 = c /\ (x % 65536) % 256 = d
  BY <1>6, DigitsUnique
<1> QED BY <1>1, <1>2, <1>4, <1>5, <1>7

LEMMA InRange32 ==
    ASSUME NEW x, NEW a, NEW b, NEW c, NEW d, Digits(x, a, b, c, d), a \in -128 .. 127
    PROVE  x \in INT32
<1>1. Splits(x \div 65536, a, b)
  BY DigitsAre
<1>2. -32768 <= x \div 65536 /\ x \div 65536 < 32768
  BY <1>1, Range16
<1>3. x \in Int
  BY DEF Digits, Splits
<1> QED BY <1>2, <1>3, UpperHalf

\* Two bytes, and the numbers the device and a peer make of them.
LEMMA TwoBytes ==
    ASSUME NEW b \in Seq(Byte), Len(b) = 2
    PROVE  /\ get_u16_be(b) \in 0 .. MAX_UINT16
           /\ put_u16_be(get_u16_be(b)) = b
<1>1. b[1] \in Byte /\ b[2] \in Byte
  BY ElementOfSeq
<1>2. b = <<b[1], b[2]>>
  OBVIOUS
<1>3. Splits(get_u16_be(b), b[1], b[2])
  <2>1. get_u16_be(b) = b[1] * 256 + b[2]
    BY DEF get_u16_be
  <2> QED BY ONLY <1>1, <2>1, SplitsOf
<1>4. get_u16_be(b) \in 0 .. MAX_UINT16
  BY <1>1, <1>3, Range16
<1>5. get_u16_be(b) \div 256 = b[1] /\ get_u16_be(b) % 256 = b[2]
  BY <1>3, DigitsUnique
<1>6. put_u16_be(get_u16_be(b)) = <<b[1], b[2]>>
  BY <1>1, <1>5, Wrapped DEF put_u16_be
<1> QED BY <1>2, <1>4, <1>6

LEMMA Written16 ==
    ASSUME NEW x \in Int
    PROVE  /\ put_u16_be(x) \in Seq(Byte) /\ Len(put_u16_be(x)) = 2
           /\ x \in 0 .. MAX_UINT16 =>
                 /\ put_u16_be(x) = <<x \div 256, x % 256>>
                 /\ get_u16_be(put_u16_be(x)) = x
           /\ -32768 <= x /\ x < 32768 => Signed16(put_u16_be(x)) = x
<1> DEFINE h == x \div 256
           l == x % 256
<1>1. put_u16_be(x) = <<h % 256, l>>
  BY DEF put_u16_be
<1>2. Splits(x, h, l)
  BY LastDigit
<1> HIDE DEF h, l
<1>3. h \in Int /\ l \in Byte
  BY <1>2 DEF Splits
<1>4. h % 256 \in Byte
  BY <1>3, LastDigit DEF Splits
<1>5. ASSUME x \in 0 .. MAX_UINT16
      PROVE  h % 256 = h /\ get_u16_be(put_u16_be(x)) = x
  <2>1. h \in Byte /\ h % 256 = h
    BY <1>2, <1>5, Range16, Wrapped
  <2> QED BY <1>1, <1>2, <2>1 DEF get_u16_be, Byte, Splits
<1>6. ASSUME -32768 <= x, x < 32768 PROVE Signed16(put_u16_be(x)) = x
  <2>1. h \in -128 .. 127 /\ h % 256 = IF h < 0 THEN h + 256 ELSE h
    BY <1>2, <1>6, Range16, Wrapped
  <2>2. x = 256 * h + l
    BY <1>2 DEF Splits
  <2> QED BY <1>1, <1>3, <2>1, <2>2 DEF Signed16, Byte
<1> QED BY <1>1, <1>3, <1>4, <1>5, <1>6 DEF h, l

\* Four bytes: the device's and the peer's conversions agree.
Signed32(b) == Signed16(b) * 65536 + b[3] * 256 + b[4]

LEMMA Horner ==
    ASSUME NEW a \in Int, NEW b \in Byte, NEW c \in Byte, NEW d \in Byte
    PROVE  Digits(a * POW_24 + b * 65536 + c * 256 + d, a, b, c, d)
<1> DEFINE z == 256 * a + b
           y == 256 * z + c
           x == 256 * y + d
<1>1. x = a * POW_24 + b * 65536 + c * 256 + d
  BY DEF POW_24, Byte
<1>2. Splits(z, a, b)
  BY DEF Splits, Byte
<1>3. Splits(y, z, c)
  BY DEF Splits, Byte
<1>4. Splits(x, y, d)
  BY DEF Splits, Byte
<1> HIDE DEF x, y, z
<1>5. Digits(x, a, b, c, d)
  BY <1>2, <1>3, <1>4 DEF Digits
<1> QED BY <1>1, <1>5

LEMMA Unrolled ==
    ASSUME NEW x, NEW a, NEW b, NEW c, NEW d, Digits(x, a, b, c, d)
    PROVE  /\ a \in Int /\ b \in Byte /\ c \in Byte /\ d \in Byte
           /\ x = a * POW_24 + b * 65536 + c * 256 + d
<1>1. PICK y, z : Splits(x, y, d) /\ Splits(y, z, c) /\ Splits(z, a, b)
  BY DEF Digits
<1>2. /\ a \in Int /\ b \in Byte /\ c \in Byte /\ d \in Byte
      /\ x = 256 * y + d /\ y = 256 * z + c /\ z = 256 * a + b
  BY <1>1 DEF Splits
<1> QED BY <1>2 DEF POW_24, Byte

LEMMA Written32 ==
    ASSUME NEW x \in Int
    PROVE  /\ put_u32_be(x) \in Seq(Byte) /\ Len(put_u32_be(x)) = 4
           /\ Int32(x) = put_u32_be(x)
           /\ x \in INT32 => get_s32_be(put_u32_be(x)) = x /\ Signed32(put_u32_be(x)) = x
<1>1. PICK a, b, c, d : Digits(x, a, b, c, d)
  BY DigitsExist
<1>2. a \in Int /\ b \in Byte /\ c \in Byte /\ d \in Byte
  BY <1>1, Unrolled
<1>3. a % 256 \in Byte
  BY <1>2, LastDigit DEF Splits
<1>4. put_u32_be(x) = <<a % 256, b, c, d>>
  BY <1>1, DigitsAre DEF put_u32_be
<1>5. Int32(x) = <<a % 256, b, c, d>>
  BY <1>1, DigitsAre DEF Int32
<1>6. ASSUME x \in INT32
      PROVE  get_s32_be(<<a % 256, b, c, d>>) = x /\ Signed32(<<a % 256, b, c, d>>) = x
  <2>1. Splits(x \div 65536, a, b)
    BY <1>1, DigitsAre
  <2>2. a \in -128 .. 127
    BY <1>6, <2>1, UpperHalf, Range16
  <2>3. a % 256 = IF a < 0 THEN a + 256 ELSE a
    BY <2>2, Wrapped
  <2> DEFINE e == a % 256
  <2>4. e \in Byte /\ (IF e < 128 THEN e ELSE e - 256) = a
    BY <2>2, <2>3 DEF Byte
  <2> HIDE DEF e
  <2>5. x = a * POW_24 + b * 65536 + c * 256 + d
    BY <1>1, Unrolled
  <2>6. get_s32_be(<<e, b, c, d>>) = x
    BY <2>4, <2>5 DEF get_s32_be
  <2>7. Signed16(<<e, b, c, d>>) = 256 * a + b
    BY <1>2, <2>4 DEF Signed16, Byte
  <2>8. Signed32(<<e, b, c, d>>) = (256 * a + b) * 65536 + c * 256 + d
    BY <2>7 DEF Signed32
  <2>9. (256 * a + b) * 65536 = a * POW_24 + b * 65536
    BY <1>2 DEF POW_24, Byte
  <2> QED BY <2>5, <2>6, <2>8, <2>9 DEF e
<1> QED BY <1>2, <1>3, <1>4, <1>5, <1>6

LEMMA FourBytes ==
    ASSUME NEW b \in Seq(Byte), Len(b) >= 4
    PROVE  /\ get_s32_be(b) \in INT32
           /\ put_u32_be(get_s32_be(b)) = SubSeq(b, 1, 4)
           /\ get_u32_be(b) \in Nat
<1>1. b[1] \in Byte /\ b[2] \in Byte /\ b[3] \in Byte /\ b[4] \in Byte
  BY ElementOfSeq
<1> DEFINE a == IF b[1] < 128 THEN b[1] ELSE b[1] - 256
           x == a * POW_24 + b[2] * 65536 + b[3] * 256 + b[4]
<1>2. a \in Int /\ a \in -128 .. 127 /\ a % 256 = b[1]
  BY <1>1, Wrapped DEF Byte
<1>3. x = get_s32_be(b)
  BY DEF get_s32_be
<1> HIDE DEF a
<1>4. Digits(x, a, b[2], b[3], b[4])
  BY <1>1, <1>2, Horner
<1>5. x \in Int
  BY <1>4 DEF Digits, Splits
<1> HIDE DEF x
<1>6. x \in INT32
  BY ONLY <1>2, <1>4, InRange32
<1>7. put_u32_be(x) = <<b[1], b[2], b[3], b[4]>>
  <2>1. /\ x \div POW_24 = a /\ (x \div 65536) % 256 = b[2]
        /\ (x \div 256) % 256 = b[3] /\ x % 256 = b[4]
    BY <1>4, DigitsAre
  <2> QED BY <1>2, <2>1 DEF put_u32_be
<1>8. SubSeq(b, 1, 4) = <<b[1], b[2], b[3], b[4]>>
  <2>1. /\ SubSeq(b, 1, 4) \in Seq(Byte) /\ Len(SubSeq(b, 1, 4)) = 4
        /\ \A i \in 1 .. 4 : SubSeq(b, 1, 4)[i] = b[i]
    OBVIOUS
  <2>2. /\ <<b[1], b[2], b[3], b[4]>> \in Seq(Byte)
        /\ Len(<<b[1], b[2], b[3], b[4]>>) = 4
        /\ \A i \in 1 .. 4 : <<b[1], b[2], b[3], b[4]>>[i] = b[i]
    BY <1>1
  <2> QED BY ZenonT(60), <2>1, <2>2, SeqEqual
<1>9. get_u32_be(b) \in Nat
  <2> DEFINE u == b[1] * POW_24 + b[2] * 65536 + b[3] * 256 + b[4]
  <2>1. b[1] \in Int /\ b[1] \in Nat
    BY ONLY <1>1, BytesAre
  <2>2. Digits(u, b[1], b[2], b[3], b[4])
    BY <1>1, <2>1, Horner
  <2>3. get_u32_be(b) = u
    BY DEF get_u32_be
  <2> HIDE DEF u
  <2>4. \A m, h, l : Splits(m, h, l) /\ h \in Nat => m \in Nat
    BY DEF Splits, Byte
  <2> QED BY <2>1, <2>2, <2>3, <2>4 DEF Digits
<1> QED BY <1>3, <1>6, <1>7, <1>8, <1>9
-----------------------------------------------------------------------------
(* The values of the fields.                                                *)

\* The widths, variable by variable.
LEMMA Widths ==
    ASSUME RegistryFits
    PROVE  /\ \A f \in {"temperature", "altitude"} :
                 g[f] \in Int /\ -32768 <= g[f] /\ g[f] < 32768
           /\ \A f \in {"distance", "update_interval"} :
                 g[f] \in 0 .. MAX_UINT16
           /\ \A f \in {"install_lat", "install_lng", "latitude", "longitude"} :
                 g[f] \in INT32
           /\ \A f \in Stored : g[f] \in Int
<1> DEFINE Shorts == {"temperature", "altitude"}
           Unsigned == {"distance", "update_interval"}
           Words == {"install_lat", "install_lng", "latitude", "longitude"}
<1>1. \A f \in Shorts : g[f] \in Int /\ -32768 <= g[f] /\ g[f] < 32768
  BY DEF RegistryFits, Fits, Stored, Sensor, Config
<1>2. \A f \in Unsigned : g[f] \in 0 .. MAX_UINT16
  BY DEF RegistryFits, Fits, Stored, Sensor, Config
<1>3. \A f \in Words : g[f] \in INT32
  BY DEF RegistryFits, Fits, Stored, Sensor, Config
<1>4. ASSUME NEW f \in Stored PROVE g[f] \in Int
  <2>1. CASE f \in Shorts
    BY <1>1, <2>1
  <2>2. CASE f \in Unsigned
    BY <1>2, <2>2
  <2>3. CASE f \in Words
    BY <1>3, <2>3 DEF INT32
  <2>4. CASE f \notin Shorts \cup Unsigned \cup Words
    BY <2>4 DEF RegistryFits, Fits
  <2> QED BY <2>1, <2>2, <2>3, <2>4
<1> QED BY <1>1, <1>2, <1>3, <1>4

\* app_field_get() has one value of the right length for every field.
LEMMA FieldLengths ==
    ASSUME g \in [Stored -> Int], device_state \in DeviceState, NEW fid
    PROVE  /\ app_field_get(fid) \in Seq(Int)
           /\ Len(app_field_get(fid)) = field_value_len(fid)
           /\ field_value_len(fid) \in 0 .. 8
<1> DEFINE Right == /\ app_field_get(fid) \in Seq(Int)
                    /\ Len(app_field_get(fid)) = field_value_len(fid)
                    /\ field_value_len(fid) \in 0 .. 8
<1>1. \A n \in Nat : Text(n) \in Seq(Int) /\ Len(Text(n)) = n
  BY DEF Text
<1>2. \A x \in Int : put_u16_be(x) \in Seq(Int) /\ Len(put_u16_be(x)) = 2
  BY DEF put_u16_be
<1>3. \A x \in Int : put_u32_be(x) \in Seq(Int) /\ Len(put_u32_be(x)) = 4
  BY DEF put_u32_be, POW_24
<1>4. \A x, y \in Int : /\ put_u32_be(x) \o put_u32_be(y) \in Seq(Int)
                        /\ Len(put_u32_be(x) \o put_u32_be(y)) = 8
  <2>1. \A p, q \in Seq(Int) : p \o q \in Seq(Int) /\ Len(p \o q) = Len(p) + Len(q)
    BY Zenon, Joined
  <2>2. ASSUME NEW p \in Seq(Int), NEW q \in Seq(Int), Len(p) = 4, Len(q) = 4
        PROVE  p \o q \in Seq(Int) /\ Len(p \o q) = 8
    <3> DEFINE r == p \o q
    <3>1. r \in Seq(Int) /\ Len(r) = Len(p) + Len(q)
      BY <2>1
    <3> HIDE DEF r
    <3>2. Len(r) = 8
      BY <2>2, <3>1
    <3> QED BY <3>1, <3>2 DEF r
  <2> QED BY Zenon, <1>3, <2>2
<1>5. /\ g["battery"] \in Int /\ g["position"] \in Int /\ g["mode"] \in Int
      /\ g["gnss_fix"] \in Int /\ g["temperature"] \in Int /\ g["distance"] \in Int
      /\ g["update_interval"] \in Int /\ g["altitude"] \in Int
  BY DEF Stored, Sensor, Config
<1>6. /\ g["latitude"] \in Int /\ g["longitude"] \in Int
      /\ g["install_lat"] \in Int /\ g["install_lng"] \in Int
  BY DEF Stored, Sensor, Config
<1>7. CASE fid \in {"DEVICE_STATE", "DEVICE_TYPE", "PROTOCOL_VERSION"}
  <2>1. StateCode[device_state] \in Int
    BY DEF StateCode, DeviceState
  <2> QED BY <1>7, <2>1 DEF app_field_get, field_value_len
<1>8. CASE fid \in {"BATTERY", "POSITION", "MODE", "GNSS_FIX"}
  BY <1>5, <1>8 DEF app_field_get, field_value_len
<1>9. CASE fid \in {"TEMPERATURE", "DISTANCE", "UPDATE_INTERVAL", "ALTITUDE"}
  <2>1. field_value_len(fid) = 2
    BY <1>9 DEF field_value_len
  <2>2. \E x \in Int : app_field_get(fid) = put_u16_be(x)
    BY <1>5, <1>9 DEF app_field_get
  <2> QED BY <1>2, <2>1, <2>2
<1>10. CASE fid \in {"LATITUDE", "LONGITUDE"}
  <2>1. field_value_len(fid) = 4
    BY <1>10 DEF field_value_len
  <2>2. \E x \in Int : app_field_get(fid) = put_u32_be(x)
    BY <1>6, <1>10 DEF app_field_get
  <2> QED BY <1>3, <2>1, <2>2
<1>11. CASE fid = "INSTALL_LOCATION"
  <2>1. field_value_len(fid) = 8
    BY <1>11 DEF field_value_len
  <2>2. \E x, y \in Int : app_field_get(fid) = put_u32_be(x) \o put_u32_be(y)
    BY <1>6, <1>11 DEF app_field_get
  <2> QED BY <1>4, <2>1, <2>2
<1>12. CASE fid \in {"MODEL", "SN", "FW_VER", "HW_VER"}
  BY <1>1, <1>12 DEF app_field_get, field_value_len
<1>13. CASE fid \notin ReadableField
  BY <1>13 DEF app_field_get, field_value_len, ReadableField, WritableField, Nothing
<1> QED BY <1>7, <1>8, <1>9, <1>10, <1>11, <1>12, <1>13 DEF ReadableField, WritableField

\* Two values of four bytes, one after the other.
LEMMA FourAndFour ==
    ASSUME NEW p \in Seq(Byte), NEW q \in Seq(Byte), Len(p) = 4, Len(q) = 4
    PROVE  LET b == p \o q
               t == SubSeq(b, 5, 8)
           IN  /\ b[1] = p[1] /\ b[2] = p[2] /\ b[3] = p[3] /\ b[4] = p[4]
               /\ SubSeq(b, 5, 6)[1] = q[1] /\ SubSeq(b, 5, 6)[2] = q[2]
               /\ b[7] = q[3] /\ b[8] = q[4]
               /\ t[1] = q[1] /\ t[2] = q[2] /\ t[3] = q[3] /\ t[4] = q[4]
<1> DEFINE b == p \o q
<1>1. /\ b \in Seq(Byte) /\ Len(b) = Len(p) + Len(q)
      /\ \A j \in 1 .. Len(p) : b[j] = p[j]
      /\ \A j \in 1 .. Len(q) : b[Len(p) + j] = q[j]
  BY ONLY p \in Seq(Byte), q \in Seq(Byte), Joined
<1> HIDE DEF b
<1>2. /\ b \in Seq(Byte) /\ Len(b) = 8
      /\ \A j \in 1 .. 4 : b[j] = p[j]
      /\ \A j \in 1 .. 4 : b[4 + j] = q[j]
  BY <1>1
<1>3. b[5] = q[1] /\ b[6] = q[2] /\ b[7] = q[3] /\ b[8] = q[4]
  BY <1>2
<1>4. SubSeq(b, 5, 6)[1] = b[5] /\ SubSeq(b, 5, 6)[2] = b[6]
  <2>1. b \in Seq(Byte) /\ 5 \in Int /\ 6 \in Int /\ 1 <= 5 /\ 5 <= 6 + 1 /\ 6 <= Len(b)
    BY <1>2
  <2>2. \A i \in 1 .. 6 - 5 + 1 : SubSeq(b, 5, 6)[i] = b[5 + i - 1]
    BY ONLY <2>1, Piece
  <2> QED BY <2>2
<1>5. /\ SubSeq(b, 5, 8)[1] = b[5] /\ SubSeq(b, 5, 8)[2] = b[6]
      /\ SubSeq(b, 5, 8)[3] = b[7] /\ SubSeq(b, 5, 8)[4] = b[8]
  <2>1. b \in Seq(Byte) /\ 5 \in Int /\ 8 \in Int /\ 1 <= 5 /\ 5 <= 8 + 1 /\ 8 <= Len(b)
    BY <1>2
  <2>2. \A i \in 1 .. 8 - 5 + 1 : SubSeq(b, 5, 8)[i] = b[5 + i - 1]
    BY ONLY <2>1, Piece
  <2> QED BY <2>2
<1> QED BY <1>2, <1>3, <1>4, <1>5 DEF b

\* The numbers a peer decodes from the value of a field are those of the registry.
LEMMA NumbersRead ==
    ASSUME RegistryFits, NEW fid
    PROVE  Numbers(fid, app_field_get(fid)) = InRegistry(fid)
<1>1. ASSUME NEW f \in {"temperature", "altitude"}
      PROVE  Signed16(put_u16_be(g[f])) = g[f]
  BY Widths, Written16
<1>2. ASSUME NEW f \in {"distance", "update_interval"}
      PROVE  LET b == put_u16_be(g[f]) IN b[1] * 256 + b[2] = g[f]
  <2>1. g[f] \in Int
    BY Widths DEF Stored, Sensor, Config
  <2> QED BY SMTT(60), <2>1, Widths, Written16 DEF get_u16_be
<1>3. ASSUME NEW f \in {"install_lat", "install_lng", "latitude", "longitude"}
      PROVE  /\ Signed32(put_u32_be(g[f])) = g[f]
             /\ put_u32_be(g[f]) \in Seq(Byte) /\ Len(put_u32_be(g[f])) = 4
  <2>1. g[f] \in Int
    BY Widths DEF Stored, Sensor, Config
  <2> QED BY <2>1, Widths, Written32
<1>4. CASE fid \in {"MODE", "BATTERY", "POSITION", "GNSS_FIX"}
  BY <1>4 DEF Numbers, InRegistry, app_field_get
<1>5. CASE fid \in {"TEMPERATURE", "ALTITUDE"}
  BY <1>1, <1>5 DEF Numbers, InRegistry, app_field_get
<1>6. CASE fid \in {"DISTANCE", "UPDATE_INTERVAL"}
  BY <1>2, <1>6 DEF Numbers, InRegistry, app_field_get
<1>7. CASE fid \in {"LATITUDE", "LONGITUDE"}
  BY <1>3, <1>7 DEF Numbers, InRegistry, app_field_get, Signed32
<1>8. CASE fid = "INSTALL_LOCATION"
  <2> DEFINE p == put_u32_be(g["install_lat"])
             q == put_u32_be(g["install_lng"])
             b == p \o q
  <2>1. /\ p \in Seq(Byte) /\ Len(p) = 4 /\ Signed32(p) = g["install_lat"]
        /\ q \in Seq(Byte) /\ Len(q) = 4 /\ Signed32(q) = g["install_lng"]
    BY <1>3
  <2>2. app_field_get(fid) = b
    BY <1>8 DEF app_field_get
  <2> HIDE DEF p, q
  <2>3. /\ b[1] = p[1] /\ b[2] = p[2] /\ b[3] = p[3] /\ b[4] = p[4]
        /\ SubSeq(b, 5, 6)[1] = q[1] /\ SubSeq(b, 5, 6)[2] = q[2]
        /\ b[7] = q[3] /\ b[8] = q[4]
    BY <2>1, FourAndFour
  <2> HIDE DEF b
  <2>4. /\ Signed16(b) * 65536 + b[3] * 256 + b[4] = Signed32(p)
        /\ Signed16(SubSeq(b, 5, 6)) * 65536 + b[7] * 256 + b[8] = Signed32(q)
    BY <2>3 DEF Signed16, Signed32
  <2>5. Numbers(fid, b) = <<Signed16(b) * 65536 + b[3] * 256 + b[4],
                            Signed16(SubSeq(b, 5, 6)) * 65536 + b[7] * 256 + b[8]>>
    BY <1>8 DEF Numbers
  <2>6. InRegistry(fid) = <<g["install_lat"], g["install_lng"]>>
    BY <1>8 DEF InRegistry
  <2> QED BY <2>1, <2>2, <2>4, <2>5, <2>6
<1>9. CASE fid \notin {"MODE", "BATTERY", "POSITION", "GNSS_FIX", "TEMPERATURE", "ALTITUDE",
                       "DISTANCE", "UPDATE_INTERVAL", "LATITUDE", "LONGITUDE",
                       "INSTALL_LOCATION"}
  BY <1>9 DEF Numbers, InRegistry
<1> QED BY <1>4, <1>5, <1>6, <1>7, <1>8, <1>9

\* What the bytes of a writable field's value decode to.
LEMMA Decoding ==
    ASSUME NEW fid \in WritableField, NEW b \in Seq(Byte), Len(b) = field_value_len(fid)
    PROVE  LET v == DecodeValue(fid, b)
           IN  /\ fid = "MODE" => b[1] \in Byte /\ v = <<b[1]>>
               /\ fid = "UPDATE_INTERVAL" => /\ v = <<get_u16_be(b)>>
                                             /\ get_u16_be(b) \in 0 .. MAX_UINT16
               /\ fid = "INSTALL_LOCATION" =>
                     /\ v = <<get_s32_be(b), get_s32_be(SubSeq(b, 5, 8))>>
                     /\ get_s32_be(b) \in INT32
                     /\ get_s32_be(SubSeq(b, 5, 8)) \in INT32
<1>1. CASE fid = "MODE"
  <2>1. Len(b) = 1
    BY <1>1 DEF field_value_len
  <2>2. b[1] \in Byte
    BY <2>1, ElementOfSeq
  <2> QED BY <1>1, <2>2 DEF DecodeValue
<1>2. CASE fid = "UPDATE_INTERVAL"
  <2>1. Len(b) = 2
    BY <1>2 DEF field_value_len
  <2> QED BY <1>2, <2>1, TwoBytes DEF DecodeValue
<1>3. CASE fid = "INSTALL_LOCATION"
  <2>1. Len(b) = 8
    BY <1>3 DEF field_value_len
  <2> DEFINE t == SubSeq(b, 5, 8)
  <2>2. t \in Seq(Byte) /\ Len(t) = 8 - 5 + 1
    <3>1. 5 \in Int /\ 8 \in Int /\ 1 <= 5 /\ 5 <= 8 + 1 /\ 8 <= Len(b)
      BY <2>1
    <3> QED BY Zenon, <3>1, Piece
  <2> HIDE DEF t
  <2>3. get_s32_be(b) \in INT32 /\ get_s32_be(t) \in INT32
    BY <2>1, <2>2, FourBytes
  <2> QED BY <1>3, <2>1, <2>3 DEF DecodeValue, field_value_len, t
<1> QED BY <1>1, <1>2, <1>3 DEF WritableField

\* An assigned field is read back with the bytes it was assigned from, the other
\* writable fields are as before, and every variable keeps its width.
LEMMA FieldStored ==
    ASSUME NEW fid \in WritableField, NEW b \in Seq(Byte), Len(b) = field_value_len(fid),
           g' = Assign(g, app_field_set(fid, DecodeValue(fid, b)))
    PROVE  /\ app_field_get(fid)' = b
           /\ \A f \in WritableField \ {fid} : app_field_get(f)' = app_field_get(f)
           /\ RegistryFits => RegistryFits'
<1> DEFINE w == app_field_set(fid, DecodeValue(fid, b))
           Locations32 == {"install_lat", "install_lng", "latitude", "longitude"}
<1>1. \A f \in Stored : g'[f] = IF f \in DOMAIN w THEN w[f] ELSE g[f]
  BY DEF Assign
<1>2. {"mode", "update_interval", "gnss_fix", "altitude"} \cup Locations32 \subseteq Stored
  BY DEF Stored, Config
<1>3. ASSUME RegistryFits, \A f \in DOMAIN w : f \in Stored => Fits(f, w[f])
      PROVE  RegistryFits'
  BY <1>1, <1>3 DEF RegistryFits
<1>4. CASE fid = "MODE"
  <2>1. b[1] \in Byte /\ w = [mode |-> b[1]]
    BY <1>4, Decoding DEF app_field_set
  <2>2. b = <<b[1]>>
    BY <1>4 DEF field_value_len
  <2> HIDE DEF w
  <2>3. DOMAIN w = {"mode"} /\ w["mode"] = b[1]
    BY <2>1
  <2>4. g'["mode"] = b[1] /\ \A f \in Stored \ {"mode"} : g'[f] = g[f]
    BY <1>1, <1>2, <2>3
  <2>5. app_field_get(fid)' = b
    BY <1>4, <2>2, <2>4 DEF app_field_get
  <2>6. \A f \in WritableField \ {fid} : app_field_get(f)' = app_field_get(f)
    BY <1>2, <1>4, <2>4 DEF app_field_get, WritableField
  <2>7. Fits("mode", w["mode"])
    BY <2>1, <2>3 DEF Fits, Byte, MAX_UINT8
  <2> QED BY <1>3, <2>3, <2>5, <2>6, <2>7
<1>5. CASE fid = "UPDATE_INTERVAL"
  <2> DEFINE x == get_u16_be(b)
  <2>1. x \in 0 .. MAX_UINT16 /\ w = [update_interval |-> x]
    BY <1>5, Decoding DEF app_field_set
  <2>2. put_u16_be(x) = b
    BY <1>5, TwoBytes DEF field_value_len
  <2> HIDE DEF w, x
  <2>3. DOMAIN w = {"update_interval"} /\ w["update_interval"] = x
    BY <2>1
  <2>4. g'["update_interval"] = x /\ \A f \in Stored \ {"update_interval"} : g'[f] = g[f]
    BY <1>1, <1>2, <2>3
  <2>5. app_field_get(fid)' = put_u16_be(g'["update_interval"])
    BY <1>5 DEF app_field_get, put_u16_be
  <2>6. \A f \in WritableField \ {fid} : app_field_get(f)' = app_field_get(f)
    <3>1. /\ g'["install_lat"] = g["install_lat"] /\ g'["install_lng"] = g["install_lng"]
          /\ g'["mode"] = g["mode"]
      BY <1>2, <2>4
    <3>2. app_field_get("MODE")' = app_field_get("MODE")
      BY <3>1 DEF app_field_get
    <3>3. /\ put_u32_be(g["install_lat"])' = put_u32_be(g["install_lat"])
          /\ put_u32_be(g["install_lng"])' = put_u32_be(g["install_lng"])
      BY ONLY <3>1 DEF put_u32_be
    <3>4. app_field_get("INSTALL_LOCATION")' = app_field_get("INSTALL_LOCATION")
      BY <3>3 DEF app_field_get
    <3> QED BY <1>5, <3>2, <3>4 DEF WritableField
  <2>7. Fits("update_interval", w["update_interval"])
    BY <2>1, <2>3 DEF Fits
  <2> QED BY <1>3, <2>2, <2>3, <2>4, <2>5, <2>6, <2>7
<1>6. CASE fid = "INSTALL_LOCATION"
  <2> DEFINE x == get_s32_be(b)
             y == get_s32_be(SubSeq(b, 5, 8))
  <2>1. /\ x \in INT32 /\ y \in INT32
        /\ w = [install_lat |-> x, install_lng |-> y, gnss_fix |-> 1,
                latitude |-> x, longitude |-> y, altitude |-> 0]
    BY <1>6, Decoding DEF app_field_set
  <2>2. put_u32_be(x) = SubSeq(b, 1, 4) /\ put_u32_be(y) = SubSeq(b, 5, 8)
    <3>1. Len(b) = 8
      BY <1>6 DEF field_value_len
    <3> DEFINE t == SubSeq(b, 5, 8)
    <3>2. t \in Seq(Byte) /\ Len(t) = 8 - 5 + 1
      <4>1. 5 \in Int /\ 8 \in Int /\ 1 <= 5 /\ 5 <= 8 + 1 /\ 8 <= Len(b)
        BY <3>1
      <4> QED BY Zenon, <4>1, Piece
    <3> HIDE DEF t
    <3>3. SubSeq(t, 1, 4) = t
      BY <3>2, SubSeqFull
    <3>4. put_u32_be(get_s32_be(t)) = t /\ put_u32_be(get_s32_be(b)) = SubSeq(b, 1, 4)
      <4>1. t \in Seq(Byte) /\ Len(t) >= 4 /\ Len(b) >= 4
        BY ONLY <3>1, <3>2
      <4> QED BY Zenon, <3>3, <4>1, FourBytes
    <3> QED BY <3>4 DEF t, x, y
  <2>3. SubSeq(b, 1, 4) \o SubSeq(b, 5, 8) = b
    BY <1>6 DEF field_value_len
  <2> HIDE DEF w, x, y
  <2>4. /\ DOMAIN w = {"gnss_fix", "altitude"} \cup Locations32
        /\ w["install_lat"] = x /\ w["install_lng"] = y
        /\ w["latitude"] = x /\ w["longitude"] = y
        /\ w["gnss_fix"] = 1 /\ w["altitude"] = 0
    BY <2>1
  <2>5. g'["install_lat"] = x /\ g'["install_lng"] = y
    BY <1>1, <1>2, <2>4
  <2>6. g'["mode"] = g["mode"] /\ g'["update_interval"] = g["update_interval"]
    BY <1>1, <1>2, <2>4
  <2>7. app_field_get(fid)' = put_u32_be(g'["install_lat"]) \o put_u32_be(g'["install_lng"])
    BY <1>6 DEF app_field_get, put_u32_be
  <2>8. \A f \in WritableField \ {fid} : app_field_get(f)' = app_field_get(f)
    BY <1>6, <2>6 DEF app_field_get, WritableField, put_u16_be
  <2>9. \A f \in Locations32 : Fits(f, w[f])
    BY <2>1, <2>4 DEF Fits
  <2>10. Fits("gnss_fix", 1) /\ Fits("altitude", 0)
    BY DEF Fits, MAX_UINT8
  <2> QED BY <1>3, <2>2, <2>3, <2>4, <2>5, <2>7, <2>8, <2>9, <2>10
<1> QED BY <1>4, <1>5, <1>6 DEF WritableField
-----------------------------------------------------------------------------
(* The decoder's loop.                                                      *)

\* One call of tlv_decode_field() in the loop.
Whole(data, o) == o + 2 <= Len(data) /\ o + 2 + data[o + 2] <= Len(data)

DecodeStep(data, o) == LET r == tlv_decode_field(data, o)
                       IN  IF o >= 0 /\ r.ok THEN r.offset ELSE -1

LEMMA DecodeSteps ==
    ASSUME NEW data \in Seq(Byte), NEW o \in Int
    PROVE  /\ o < 0 => DecodeStep(data, o) = -1
           /\ o >= 0 /\ ~Whole(data, o) => ~tlv_decode_field(data, o).ok
                                           /\ DecodeStep(data, o) = -1
           /\ o >= 0 /\ Whole(data, o) =>
                 /\ data[o + 2] \in Byte
                 /\ DecodeStep(data, o) = o + 2 + data[o + 2]
                 /\ tlv_decode_field(data, o) =
                       [ok |-> TRUE, id |-> data[o + 1],
                        value |-> SubSeq(data, o + 3, o + 2 + data[o + 2]),
                        offset |-> o + 2 + data[o + 2]]
           /\ DecodeStep(data, o) \in Int
<1>1. o < 0 => DecodeStep(data, o) = -1
  BY DEF DecodeStep
<1>2. o >= 0 /\ o + 2 <= Len(data) => data[o + 2] \in Byte /\ data[o + 2] \in Int
  <2>1. ASSUME o >= 0, o + 2 <= Len(data) PROVE data[o + 2] \in Byte
    <3>1. o + 2 \in 1 .. Len(data)
      BY <2>1
    <3> QED BY <3>1, ElementOfSeq
  <2> QED BY <2>1, BytesAre
<1>3. ASSUME o >= 0, ~Whole(data, o)
      PROVE  ~tlv_decode_field(data, o).ok /\ DecodeStep(data, o) = -1
  <2>1. tlv_decode_field(data, o) = [ok |-> FALSE]
    BY <1>2, <1>3 DEF tlv_decode_field, Whole
  <2> QED BY <2>1 DEF DecodeStep
<1>4. ASSUME o >= 0, Whole(data, o)
      PROVE  tlv_decode_field(data, o) =
                       [ok |-> TRUE, id |-> data[o + 1],
                        value |-> SubSeq(data, o + 3, o + 2 + data[o + 2]),
                        offset |-> o + 2 + data[o + 2]]
  BY <1>2, <1>4 DEF tlv_decode_field, Whole
<1>5. o >= 0 /\ Whole(data, o) => DecodeStep(data, o) = o + 2 + data[o + 2]
  BY <1>4 DEF DecodeStep
<1>6. o >= 0 /\ Whole(data, o) => data[o + 2] \in Byte /\ data[o + 2] \in Int
  BY <1>2 DEF Whole
<1>7. DecodeStep(data, o) \in Int
  BY <1>1, <1>3, <1>5, <1>6
<1> QED BY <1>1, <1>3, <1>4, <1>5, <1>6, <1>7

LEMMA OffsetSteps ==
    ASSUME NEW data \in Seq(Byte)
    PROVE  /\ tlv_offset(data, 0) = 0
           /\ \A n \in Nat : /\ tlv_offset(data, n) \in Int
                             /\ tlv_offset(data, n + 1) = DecodeStep(data, tlv_offset(data, n))
<1> DEFINE body == [p \in Nat \X Int |-> DecodeStep(data, p[2])]
<1>1. body \in Body(Int)
  BY DecodeSteps DEF Body
<1>2. \A n \in Nat : tlv_offset(data, n) = Loop(Int, body, n, 0)
  BY DEF tlv_offset, DecodeStep
<1> HIDE DEF body
<1>3. /\ Loop(Int, body, 0, 0) = 0
      /\ \A n \in Nat : /\ Loop(Int, body, n, 0) \in Int
                        /\ Loop(Int, body, n + 1, 0) = body[<<n, Loop(Int, body, n, 0)>>]
  <2>1. 0 \in Int
    OBVIOUS
  <2> QED BY Zenon, <1>1, <2>1, LoopSteps
<1>4. \A n \in Nat, o \in Int : body[<<n, o>>] = DecodeStep(data, o)
  BY DEF body
<1>5. tlv_offset(data, 0) = 0
  BY <1>2, <1>3
<1>6. ASSUME NEW n \in Nat
      PROVE  /\ tlv_offset(data, n) \in Int
             /\ tlv_offset(data, n + 1) = DecodeStep(data, tlv_offset(data, n))
  <2> DEFINE o == Loop(Int, body, n, 0)
  <2>1. n + 1 \in Nat
    OBVIOUS
  <2>2. tlv_offset(data, n) = o /\ tlv_offset(data, n + 1) = Loop(Int, body, n + 1, 0)
    BY <1>2, <2>1
  <2>3. o \in Int /\ Loop(Int, body, n + 1, 0) = body[<<n, o>>]
    BY <1>3
  <2> QED BY <1>4, <2>2, <2>3
<1> QED BY <1>5, <1>6

\* A decoder that has failed stays failed.
LEMMA FailedStaysFailed ==
    ASSUME NEW data \in Seq(Byte), NEW n \in Nat, tlv_offset(data, n) = -1
    PROVE  \A m \in Nat : m >= n => tlv_offset(data, m) = -1
<1> DEFINE T == {m \in Nat : m >= n => tlv_offset(data, m) = -1}
<1>1. 0 \in T
  OBVIOUS
<1>2. ASSUME NEW m \in T PROVE m + 1 \in T
  <2>1. CASE m + 1 > n
    <3>1. m >= n /\ tlv_offset(data, m) = -1
      BY <2>1
    <3> QED BY <3>1, OffsetSteps, DecodeSteps
  <2>2. CASE ~(m + 1 > n)
    <3>1. m + 1 >= n => m + 1 = n
      BY <2>2
    <3> QED BY <3>1
  <2> QED BY <2>1, <2>2
<1> HIDE DEF T
<1>3. \A m \in Nat : m \in T
  BY <1>1, <1>2, Induction
<1> QED BY <1>3 DEF T

\* An offset is one in the data or behind it, or -1.
LEMMA OffsetRange ==
    ASSUME NEW d \in Seq(Byte), NEW n \in Nat
    PROVE  tlv_offset(d, n) \in Int /\ tlv_offset(d, n) >= -1
<1> DEFINE o == tlv_offset(d, n)
<1>1. CASE n = 0
  BY <1>1, OffsetSteps
<1>2. CASE n # 0
  <2>1. n - 1 \in Nat /\ (n - 1) + 1 = n
    BY <1>2
  <2> DEFINE p == tlv_offset(d, n - 1)
  <2>2. p \in Int /\ o = DecodeStep(d, p)
    BY <2>1, OffsetSteps
  <2>3. DecodeStep(d, p) = -1 \/ (p >= 0 /\ d[p + 2] \in Byte
                                /\ DecodeStep(d, p) = p + 2 + d[p + 2])
    <3> HIDE DEF o, p
    <3>1. CASE p < 0
      BY <2>2, <3>1, DecodeSteps
    <3>2. CASE p >= 0 /\ ~Whole(d, p)
      BY <2>2, <3>2, DecodeSteps
    <3>3. CASE p >= 0 /\ Whole(d, p)
      BY <2>2, <3>3, DecodeSteps
    <3> QED BY <2>2, <3>1, <3>2, <3>3
  <2> HIDE DEF o, p
  <2>4. o \in Int /\ o >= -1
    BY <2>2, <2>3, BytesAre
  <2> QED BY <2>4 DEF o
<1> QED BY <1>1, <1>2

\* Where a request's TLVs start.
LEMMA FieldStarts ==
    ASSUME NEW q \in WriteReqs
    PROVE  /\ Len(q.tlvs) \in Nat
           /\ \A i \in 1 .. Len(q.tlvs) : q.tlvs[i].len \in Byte /\ q.tlvs[i].len \in Nat
           /\ FieldStart(q, 0) = 2
           /\ \A n \in Nat : FieldStart(q, n) \in Nat
           /\ \A i \in 1 .. Len(q.tlvs) :
                 FieldStart(q, i) = FieldStart(q, i - 1) + 2 + q.tlvs[i].len
<1>1. Len(q.tlvs) \in Nat
  BY RequestAssumption
<1>2. \A i \in 1 .. Len(q.tlvs) : q.tlvs[i].len \in Byte /\ q.tlvs[i].len \in Nat
  <2>1. \A i \in 1 .. Len(q.tlvs) : q.tlvs[i].len \in 0 .. MAX_UINT8
    BY RequestAssumption
  <2>2. 0 .. MAX_UINT8 = Byte
    BY DEF Byte, MAX_UINT8
  <2> QED BY <2>1, <2>2, BytesAre
<1> DEFINE size(i) == IF i < Len(q.tlvs) THEN 2 + q.tlvs[i + 1].len ELSE 0
           body == [p \in Nat \X Nat |-> p[2] + size(p[1])]
<1>3. \A i \in Nat : size(i) \in Nat
  BY <1>1, <1>2
<1>4. body \in Body(Nat)
  BY <1>3 DEF Body
<1>5. \A n \in Nat : FieldStart(q, n) = Loop(Nat, body, n, 2)
  BY DEF FieldStart
<1>6. \A i \in Nat, o \in Nat : body[<<i, o>>] = o + size(i)
  OBVIOUS
<1> HIDE DEF body
<1>7. /\ Loop(Nat, body, 0, 2) = 2
      /\ \A n \in Nat : /\ Loop(Nat, body, n, 2) \in Nat
                        /\ Loop(Nat, body, n + 1, 2) = body[<<n, Loop(Nat, body, n, 2)>>]
  BY <1>4, LoopSteps
<1>8. FieldStart(q, 0) = 2 /\ \A n \in Nat : FieldStart(q, n) \in Nat
  BY <1>5, <1>7
<1>9. \A n \in Nat : FieldStart(q, n + 1) = FieldStart(q, n) + size(n)
  <2>1. ASSUME NEW n \in Nat PROVE FieldStart(q, n + 1) = FieldStart(q, n) + size(n)
    <3> DEFINE o == Loop(Nat, body, n, 2)
    <3>1. n + 1 \in Nat
      OBVIOUS
    <3>2. FieldStart(q, n) = o /\ FieldStart(q, n + 1) = Loop(Nat, body, n + 1, 2)
      BY <1>5, <3>1
    <3>3. o \in Nat /\ Loop(Nat, body, n + 1, 2) = body[<<n, o>>]
      BY <1>7
    <3> HIDE DEF size, o
    <3> QED BY <1>6, <3>2, <3>3
  <2> QED BY <2>1
<1>10. ASSUME NEW i \in 1 .. Len(q.tlvs)
       PROVE  FieldStart(q, i) = FieldStart(q, i - 1) + 2 + q.tlvs[i].len
  <2>1. i - 1 \in Nat /\ i - 1 < Len(q.tlvs) /\ (i - 1) + 1 = i
    BY <1>1
  <2>2. FieldStart(q, i) = FieldStart(q, i - 1) + size(i - 1)
    BY <1>9, <2>1
  <2>3. size(i - 1) = 2 + q.tlvs[i].len
    BY <2>1
  <2>4. FieldStart(q, i - 1) \in Nat /\ q.tlvs[i].len \in Nat
    BY <1>2, <1>8, <2>1
  <2> HIDE DEF size
  <2> QED BY ONLY <2>2, <2>3, <2>4
<1> QED BY <1>1, <1>2, <1>8, <1>10

LEMMA StartsGrow ==
    ASSUME NEW q \in WriteReqs, NEW j \in 0 .. Len(q.tlvs)
    PROVE  /\ FieldStart(q, j) >= 2 + 2 * j
           /\ \A i \in 0 .. j - 1 : FieldStart(q, i) + 2 <= FieldStart(q, j)
<1> DEFINE n == Len(q.tlvs)
           Grown(k) == /\ FieldStart(q, k) >= 2 + 2 * k
                       /\ \A i \in 0 .. k - 1 : FieldStart(q, i) + 2 <= FieldStart(q, k)
           T == {k \in Nat : k <= n => Grown(k)}
<1>0. \A i \in Nat : FieldStart(q, i) \in Nat
  BY FieldStarts
<1>1. n \in Nat
  BY FieldStarts
<1>2. 0 \in T
  BY FieldStarts
<1>3. ASSUME NEW k \in T PROVE k + 1 \in T
  <2> SUFFICES ASSUME k + 1 <= n PROVE Grown(k + 1)
    OBVIOUS
  <2>1. k \in Nat /\ k <= n /\ k + 1 \in 1 .. n /\ (k + 1) - 1 = k
    BY <1>1
  <2>2. Grown(k)
    BY <2>1
  <2>3. FieldStart(q, k + 1) = FieldStart(q, k) + 2 + q.tlvs[k + 1].len
    BY <2>1, FieldStarts
  <2>4. q.tlvs[k + 1].len \in Nat
    BY <2>1, FieldStarts
  <2>5. \A i \in 0 .. k : FieldStart(q, i) \in Nat
    <3>1. ASSUME NEW i \in 0 .. k PROVE i \in Nat
      BY <2>1
    <3> QED BY Zenon, <1>0, <3>1
  <2>6. FieldStart(q, k + 1) >= FieldStart(q, k) + 2
    BY <2>1, <2>3, <2>4, <2>5
  <2>7. FieldStart(q, k + 1) \in Nat
    BY <2>1, FieldStarts
  <2>8. ASSUME NEW i \in 0 .. k PROVE FieldStart(q, i) + 2 <= FieldStart(q, k + 1)
    <3>1. CASE i = k
      BY <2>6, <3>1
    <3>2. CASE i # k
      <4>1. i \in 0 .. k - 1
        BY <2>1, <3>2
      <4>2. FieldStart(q, i) + 2 <= FieldStart(q, k)
        BY <2>2, <4>1
      <4> QED BY <2>1, <2>5, <2>6, <2>7, <4>2
    <3> QED BY <3>1, <3>2
  <2>9. FieldStart(q, k + 1) >= 2 + 2 * (k + 1)
    BY <2>1, <2>2, <2>5, <2>6, <2>7
  <2> QED BY <2>1, <2>8, <2>9
<1> HIDE DEF T
<1>4. \A k \in Nat : k \in T
  BY <1>2, <1>3, Induction
<1> QED BY <1>1, <1>4 DEF T

\* The bytes behind the header of a write.
Tlvs(data) == SubSeq(data, 3, Len(data))

LEMMA Tail2 ==
    ASSUME NEW data \in Seq(Byte), Len(data) >= 2
    PROVE  /\ Tlvs(data) \in Seq(Byte) /\ Len(Tlvs(data)) = Len(data) - 2
           /\ \A i \in 1 .. Len(data) - 2 : Tlvs(data)[i] = data[i + 2]
           /\ \A a, b \in Nat : a >= 1 /\ a <= b + 1 /\ b <= Len(data) - 2
                 => SubSeq(Tlvs(data), a, b) = SubSeq(data, a + 2, b + 2)
<1>1. /\ Tlvs(data) \in Seq(Byte) /\ Len(Tlvs(data)) = Len(data) - 2
      /\ \A i \in 1 .. Len(data) - 2 : Tlvs(data)[i] = data[i + 2]
  <2>1. /\ 3 \in Int /\ Len(data) \in Int
        /\ 1 <= 3 /\ 3 <= Len(data) + 1 /\ Len(data) <= Len(data)
    OBVIOUS
  <2>2. /\ Tlvs(data) \in Seq(Byte) /\ Len(Tlvs(data)) = Len(data) - 3 + 1
        /\ \A i \in 1 .. Len(data) - 3 + 1 : Tlvs(data)[i] = data[3 + i - 1]
    BY Zenon, <2>1, Piece DEF Tlvs
  <2> QED BY <2>2
<1>2. ASSUME NEW a \in Nat, NEW b \in Nat, a >= 1, a <= b + 1, b <= Len(data) - 2
      PROVE  SubSeq(Tlvs(data), a, b) = SubSeq(data, a + 2, b + 2)
  <2> DEFINE s == SubSeq(Tlvs(data), a, b)
             t == SubSeq(data, a + 2, b + 2)
  <2>1. s \in Seq(Byte) /\ Len(s) = b - a + 1 /\ \A i \in 1 .. b - a + 1 : s[i] = Tlvs(data)[a + i - 1]
    BY <1>1, <1>2, Piece
  <2>2. t \in Seq(Byte) /\ Len(t) = b - a + 1 /\ \A i \in 1 .. b - a + 1 : t[i] = data[a + i + 1]
    <3>1. /\ a + 2 \in Int /\ b + 2 \in Int
          /\ 1 <= a + 2 /\ a + 2 <= (b + 2) + 1 /\ b + 2 <= Len(data)
      BY <1>2
    <3>2. /\ t \in Seq(Byte) /\ Len(t) = (b + 2) - (a + 2) + 1
          /\ \A i \in 1 .. (b + 2) - (a + 2) + 1 : t[i] = data[(a + 2) + i - 1]
      BY Zenon, <3>1, Piece
    <3> HIDE DEF t
    <3> QED BY <3>2
  <2> HIDE DEF s, t
  <2>3. \A i \in 1 .. b - a + 1 : s[i] = t[i]
    <3>1. ASSUME NEW i \in 1 .. b - a + 1 PROVE s[i] = t[i]
      <4>1. /\ a + i - 1 \in 1 .. Len(data) - 2
            /\ (a + i - 1) + 2 = a + i + 1
        BY <1>2
      <4>2. s[i] = Tlvs(data)[a + i - 1] /\ t[i] = data[a + i + 1]
        BY <2>1, <2>2
      <4> QED BY Zenon, <1>1, <4>1, <4>2
    <3> QED BY <3>1
  <2>4. s = t
    BY <2>1, <2>2, <2>3, SeqEqual
  <2> QED BY <2>4 DEF s, t
<1> QED BY <1>1, <1>2

\* The device decodes at a TLV's offset what the peer put there, if all of it is there.
LEMMA FieldDecoded ==
    ASSUME NEW data \in Seq(Byte), Len(data) >= 2, NEW s \in Nat, s >= 2, NEW t,
           t.len \in Nat, CarriesField(data, s, t)
    PROVE  /\ Whole(Tlvs(data), s - 2) <=> s + 2 + t.len <= Len(data)
           /\ s + 2 + t.len <= Len(data) =>
                 /\ DecodeStep(Tlvs(data), s - 2) = s + t.len
                 /\ tlv_decode_field(Tlvs(data), s - 2).ok
                 /\ FieldOf(tlv_decode_field(Tlvs(data), s - 2).id) = t.fid
                 /\ tlv_decode_field(Tlvs(data), s - 2).value
                       = SubSeq(data, s + 3, s + 2 + t.len)
<1> DEFINE d == Tlvs(data)
           o == s - 2
           L == Len(data)
<1>1. d \in Seq(Byte) /\ Len(d) = L - 2 /\ L \in Nat
  BY Tail2
<1>2. o \in Int /\ o >= 0 /\ o + 2 = s
  OBVIOUS
<1>3. s + 2 <= L => d[s] = t.len
  <2>1. ASSUME s + 2 <= L PROVE d[s] = t.len
    <3>1. s \in 1 .. Len(data) - 2
      BY <1>1, <2>1
    <3>2. d[s] = data[s + 2]
      BY Zenon, <3>1, Tail2
    <3>3. data[s + 2] = t.len
      BY <2>1 DEF CarriesField
    <3> QED BY <3>2, <3>3
  <2> QED BY <2>1
<1>4. s + 1 <= L - 2 + 1 /\ s + 2 <= L => d[o + 1] = data[s + 1]
  <2>1. ASSUME s + 2 <= L PROVE d[o + 1] = data[s + 1]
    <3>1. o + 1 \in 1 .. Len(data) - 2 /\ (o + 1) + 2 = s + 1
      BY <1>1, <2>1
    <3> HIDE DEF o
    <3>2. d[o + 1] = data[(o + 1) + 2]
      BY <3>1, Tail2
    <3> QED BY Zenon, <3>1, <3>2
  <2> QED BY <2>1
<1>5. Whole(d, o) <=> s + 2 + t.len <= L
  <2>1. Whole(d, o) <=> s <= L - 2 /\ s + d[s] <= L - 2
    BY <1>1, <1>2 DEF Whole
  <2> QED BY ONLY <1>1, <1>3, <2>1, s \in Nat, t.len \in Nat
<1>6. ASSUME s + 2 + t.len <= L
      PROVE  /\ DecodeStep(d, o) = s + t.len
             /\ tlv_decode_field(d, o).ok
             /\ FieldOf(tlv_decode_field(d, o).id) = t.fid
             /\ tlv_decode_field(d, o).value = SubSeq(data, s + 3, s + 2 + t.len)
  <2>1. s + 2 <= L /\ s + 1 <= L
    BY <1>1, <1>6
  <2>2. d[s] = t.len /\ d[o + 1] = data[s + 1]
    BY <1>3, <1>4, <2>1
  <2>3. DecodeStep(d, o) = o + 2 + d[o + 2]
    BY <1>1, <1>2, <1>5, <1>6, DecodeSteps
  <2>4. tlv_decode_field(d, o) =
                       [ok |-> TRUE, id |-> d[o + 1],
                        value |-> SubSeq(d, o + 3, o + 2 + d[o + 2]),
                        offset |-> o + 2 + d[o + 2]]
    BY <1>1, <1>2, <1>5, <1>6, DecodeSteps
  <2>5. SubSeq(d, s + 1, s + t.len) = SubSeq(data, s + 3, s + 2 + t.len)
    <3>1. /\ s + 1 \in Nat /\ s + t.len \in Nat
          /\ s + 1 >= 1 /\ s + 1 <= (s + t.len) + 1 /\ s + t.len <= L - 2
      BY <1>1, <1>6
    <3>2. SubSeq(d, s + 1, s + t.len) = SubSeq(data, (s + 1) + 2, (s + t.len) + 2)
      BY <3>1, Tail2
    <3>3. (s + 1) + 2 = s + 3 /\ (s + t.len) + 2 = s + 2 + t.len
      OBVIOUS
    <3> QED BY <3>2, <3>3
  <2>6. o + 3 = s + 1 /\ o + 2 + d[o + 2] = s + t.len
    BY <1>2, <2>2
  <2>7. FieldOf(data[s + 1]) = t.fid
    BY <2>1 DEF CarriesField
  <2>8. /\ tlv_decode_field(d, o).ok
        /\ tlv_decode_field(d, o).id = d[o + 1]
        /\ tlv_decode_field(d, o).value = SubSeq(d, o + 3, o + 2 + d[o + 2])
    BY ONLY <2>4
  <2> HIDE DEF d, o
  <2> QED BY ONLY <2>2, <2>3, <2>5, <2>6, <2>7, <2>8
<1> QED BY <1>5, <1>6

\* The decoder goes through the TLVs of a request one by one.
LEMMA FrameOffsets ==
    ASSUME NEW data \in Seq(Byte), NEW q \in WriteReqs, CarriesWrite(data, q),
           NEW i \in 0 .. Len(q.tlvs), FieldStart(q, i) <= Len(data)
    PROVE  tlv_offset(Tlvs(data), i) = FieldStart(q, i) - 2
<1> DEFINE n == Len(q.tlvs)
           T == {k \in Nat : k <= n /\ FieldStart(q, k) <= Len(data)
                               => tlv_offset(Tlvs(data), k) = FieldStart(q, k) - 2}
<1>1. n \in Nat /\ Len(data) >= 2 /\ Tlvs(data) \in Seq(Byte)
  BY FieldStarts, Tail2 DEF CarriesWrite
<1>2. 0 \in T
  BY <1>1, FieldStarts, OffsetSteps
<1>3. ASSUME NEW k \in T PROVE k + 1 \in T
  <2> SUFFICES ASSUME k + 1 <= n, FieldStart(q, k + 1) <= Len(data)
               PROVE  tlv_offset(Tlvs(data), k + 1) = FieldStart(q, k + 1) - 2
    OBVIOUS
  <2> DEFINE s == FieldStart(q, k)
             t == q.tlvs[k + 1]
  <2>1. k \in Nat /\ k <= n /\ k + 1 \in 1 .. n /\ (k + 1) - 1 = k
    BY <1>1
  <2>2. s \in Nat /\ t.len \in Nat /\ FieldStart(q, k + 1) = s + 2 + t.len
    BY <2>1, FieldStarts
  <2>3. s >= 2
    <3>1. k \in 0 .. n
      BY <2>1
    <3>2. s >= 2 + 2 * k
      BY <3>1, StartsGrow
    <3> QED BY <2>1, <2>2, <3>2
  <2>4. CarriesField(data, s, t)
    BY <2>1 DEF CarriesWrite
  <2>5. s <= Len(data)
    BY <2>2
  <2>6. tlv_offset(Tlvs(data), k) = s - 2
    BY <2>1, <2>5
  <2> HIDE DEF s, t
  <2>7. DecodeStep(Tlvs(data), s - 2) = s + t.len
    BY <1>1, <2>2, <2>3, <2>4, FieldDecoded
  <2>8. tlv_offset(Tlvs(data), k + 1) = DecodeStep(Tlvs(data), s - 2)
    BY <1>1, <2>1, <2>6, OffsetSteps
  <2> QED BY <2>2, <2>7, <2>8
<1> HIDE DEF T
<1>4. \A k \in Nat : k \in T
  BY <1>2, <1>3, Induction
<1> QED BY <1>1, <1>4 DEF T

\* Of a frame that is not whole it decodes all but the last, then it fails; of
\* one that is whole, it decodes all, and fails behind them.
LEMMA BrokenFrame ==
    ASSUME NEW data \in Seq(Byte), NEW q \in WriteReqs, CarriesWrite(data, q), ~q.whole,
           NEW m \in Nat
    PROVE  tlv_offset(Tlvs(data), m) < Len(data) - 2
<1> DEFINE n == Len(q.tlvs)
           s == FieldStart(q, n - 1)
           t == q.tlvs[n]
           d == Tlvs(data)
<1>1. n \in Nat /\ n > 0 /\ Len(data) >= 2 /\ Len(data) \in Nat
  BY FieldStarts DEF CarriesWrite
<1>2. n - 1 \in Nat /\ n - 1 \in 0 .. n /\ n \in 1 .. n /\ (n - 1) + 1 = n
  BY <1>1
<1>3. s \in Nat /\ t.len \in Nat /\ FieldStart(q, n) = s + 2 + t.len
  BY <1>2, FieldStarts
<1>4. s < Len(data) /\ Len(data) < s + 2 + t.len
  <2>1. Len(data) \in FieldStart(q, n - 1) + 1 .. FieldStart(q, n) - 1
    BY DEF CarriesWrite
  <2> QED BY <1>1, <1>3, <2>1
<1>5. s >= 2
  <2>1. s >= 2 + 2 * (n - 1)
    BY <1>2, StartsGrow
  <2> QED BY <1>2, <1>3, <2>1
<1>6. d \in Seq(Byte) /\ Len(d) = Len(data) - 2
  BY <1>1, Tail2
<1>7. tlv_offset(d, n - 1) = s - 2
  BY <1>2, <1>1, <1>3, <1>4, FrameOffsets
<1>8. tlv_offset(d, n) = -1
  <2>1. CarriesField(data, s, t)
    BY <1>2 DEF CarriesWrite
  <2>2. ~Whole(d, s - 2)
    <3> HIDE DEF s, t
    <3>1. Whole(d, s - 2) <=> s + 2 + t.len <= Len(data)
      BY <1>1, <1>3, <1>5, <2>1, FieldDecoded
    <3> QED BY <1>1, <1>3, <1>4, <3>1
  <2>3. s - 2 \in Int /\ s - 2 >= 0
    BY <1>3, <1>5
  <2>4. DecodeStep(d, s - 2) = -1
    BY <1>6, <2>2, <2>3, DecodeSteps
  <2> HIDE DEF s, d
  <2> QED BY <1>2, <1>6, <1>7, <2>4, OffsetSteps
<1>9. CASE m >= n
  <2>1. tlv_offset(d, m) = -1
    BY <1>1, <1>6, <1>8, <1>9, FailedStaysFailed
  <2> QED BY <1>1, <2>1
<1>10. CASE m < n
  <2>1. m \in 0 .. n - 1 /\ m \in 0 .. n
    BY <1>1, <1>10
  <2>2. FieldStart(q, m) <= s
    <3>1. CASE m = n - 1
      BY <3>1, <1>3
    <3>2. CASE m # n - 1
      <4>1. m \in 0 .. (n - 1) - 1
        BY <1>2, <2>1, <3>2
      <4>2. FieldStart(q, m) + 2 <= s
        BY <1>2, <4>1, StartsGrow
      <4> QED BY <1>3, <4>2, FieldStarts
    <3> QED BY <3>1, <3>2
  <2>3. FieldStart(q, m) \in Nat
    BY FieldStarts
  <2>4. FieldStart(q, m) <= Len(data) /\ FieldStart(q, m) < Len(data)
    BY <1>1, <1>3, <1>4, <2>2, <2>3
  <2>5. tlv_offset(d, m) = FieldStart(q, m) - 2
    BY <2>1, <2>4, FrameOffsets
  <2> QED BY <1>1, <2>3, <2>4, <2>5
<1> QED BY <1>1, <1>9, <1>10

LEMMA WholeFrame ==
    ASSUME NEW data \in Seq(Byte), NEW q \in WriteReqs, CarriesWrite(data, q), q.whole,
           NEW m \in Nat
    PROVE  /\ tlv_offset(Tlvs(data), m) >= Len(data) - 2 <=> m = Len(q.tlvs)
           /\ Len(data) - 2 >= 2 * Len(q.tlvs)
<1> DEFINE n == Len(q.tlvs)
           d == Tlvs(data)
           o == Len(data) - 2
<1>1. n \in Nat /\ Len(data) >= 2 /\ Len(data) \in Nat /\ FieldStart(q, n) = Len(data)
  BY FieldStarts DEF CarriesWrite
<1>2. d \in Seq(Byte) /\ Len(d) = o /\ n \in 0 .. n
  BY <1>1, Tail2
<1>3. tlv_offset(d, n) = o
  BY <1>1, <1>2, FrameOffsets
<1>4. o >= 2 * n
  <2>1. FieldStart(q, n) >= 2 + 2 * n
    BY <1>2, StartsGrow
  <2> QED BY <1>1, <2>1
<1>5. ASSUME m > n PROVE tlv_offset(d, m) = -1
  <2>1. ~Whole(d, o)
    BY <1>1, <1>2 DEF Whole
  <2>2. o \in Int /\ o >= 0
    BY <1>1
  <2>3. DecodeStep(d, o) = -1
    BY <1>2, <2>1, <2>2, DecodeSteps
  <2>4. tlv_offset(d, n + 1) = -1
    BY <1>1, <1>2, <1>3, <2>3, OffsetSteps
  <2>5. n + 1 \in Nat /\ m >= n + 1
    BY <1>1, <1>5
  <2> QED BY <1>2, <2>4, <2>5, FailedStaysFailed
<1>6. ASSUME m < n PROVE tlv_offset(d, m) < o
  <2>1. m \in 0 .. n - 1 /\ m \in 0 .. n
    BY <1>1, <1>6
  <2>2. FieldStart(q, m) + 2 <= Len(data)
    BY <1>1, <1>2, <2>1, StartsGrow
  <2>3. FieldStart(q, m) \in Nat
    BY FieldStarts
  <2>4. tlv_offset(d, m) = FieldStart(q, m) - 2
    BY <1>1, <2>1, <2>2, <2>3, FrameOffsets
  <2> QED BY <1>1, <2>2, <2>3, <2>4
<1> HIDE DEF d, o
<1>7. m = n \/ m < n \/ m > n
  BY <1>1
<1>8. o >= 0 /\ o \in Int
  BY <1>1 DEF o
<1>9. tlv_offset(d, m) \in Int
  BY <1>2, OffsetSteps
<1> QED BY <1>1, <1>3, <1>4, <1>5, <1>6, <1>7, <1>8, <1>9 DEF d, o

\* The count and the structure of a frame are judged as the request's.
LEMMA PayloadJudged ==
    ASSUME NEW data \in Seq(Byte), NEW q \in WriteReqs, CarriesWrite(data, q)
    PROVE  tlv_validate_payload(Tlvs(data), q.count)
              <=> q.whole /\ Len(q.tlvs) % 256 = q.count
<1> DEFINE n == Len(q.tlvs)
           d == Tlvs(data)
<1>1. Len(data) >= 2 /\ Len(data) \in Nat /\ n \in Nat
  BY FieldStarts DEF CarriesWrite
<1>2. d \in Seq(Byte) /\ Len(d) = Len(data) - 2
  BY <1>1, Tail2
<1> HIDE DEF n, d
<1>3. \A m \in 0 .. Len(d) \div 2 : m \in Nat
  BY <1>1, <1>2
<1>4. CASE q.whole
  <2>1. \A m \in Nat : tlv_offset(d, m) >= Len(d) <=> m = n
    BY <1>2, <1>4, WholeFrame DEF n, d
  <2>2. n \in 0 .. Len(d) \div 2
    <3>1. Len(d) >= 2 * n
      BY <1>1, <1>2, <1>4, WholeFrame DEF n
    <3> QED BY <1>1, <1>2, <3>1
  <2> QED BY <1>1, <1>3, <1>4, <2>1, <2>2 DEF tlv_validate_payload, n, d
<1>5. CASE ~q.whole
  <2>1. ASSUME NEW m \in Nat PROVE ~(tlv_offset(d, m) >= Len(d))
    <3>1. tlv_offset(d, m) < Len(data) - 2 /\ tlv_offset(d, m) \in Int
      BY <1>2, <1>5, BrokenFrame, OffsetSteps DEF d
    <3> QED BY <1>1, <1>2, <3>1
  <2> QED BY <1>3, <1>5, <2>1 DEF tlv_validate_payload, d
<1> QED BY <1>4, <1>5
-----------------------------------------------------------------------------
(* Phases 1 and 2 of a write.                                               *)

\* What is valid and what is assigned depends on the numbers only.
LEMMA SameNumbers ==
    ASSUME NEW fid \in WritableField, NEW w, NEW z, w[1] = z[1],
           fid = "INSTALL_LOCATION" => w[2] = z[2]
    PROVE  /\ InRange(fid, w) <=> InRange(fid, z)
           /\ app_field_set(fid, w) = app_field_set(fid, z)
<1>1. CASE fid = "MODE"
  BY <1>1 DEF InRange, app_field_set
<1>2. CASE fid = "UPDATE_INTERVAL"
  BY <1>2 DEF InRange, app_field_set
<1>3. CASE fid = "INSTALL_LOCATION"
  BY <1>3 DEF InRange, app_field_set
<1> QED BY <1>1, <1>2, <1>3 DEF WritableField

\* The bytes of a field's value decode to what the peer encoded.
LEMMA ValueDecoded ==
    ASSUME NEW t, t.fid \in WritableField, t.len = field_value_len(t.fid), Decodes(t),
           NEW v \in Seq(Byte), Len(v) = t.len, v = ValueBytes(t)
    PROVE  /\ InRange(t.fid, DecodeValue(t.fid, v)) <=> InRange(t.fid, t.val)
           /\ app_field_set(t.fid, DecodeValue(t.fid, v)) = app_field_set(t.fid, t.val)
<1> DEFINE w == DecodeValue(t.fid, v)
<1>1. CASE t.fid = "MODE"
  <2>1. w = <<v[1]>>
    BY <1>1, Decoding
  <2>2. v = t.val
    BY <1>1 DEF ValueBytes
  <2>3. w[1] = t.val[1]
    BY <2>1, <2>2
  <2>4. t.fid \in WritableField /\ (t.fid = "INSTALL_LOCATION" => w[2] = t.val[2])
    BY <1>1
  <2> QED BY ONLY <2>3, <2>4, SameNumbers
<1>2. CASE t.fid = "UPDATE_INTERVAL"
  <2> DEFINE x == t.val[1]
  <2>1. x \in 0 .. MAX_UINT16 /\ x \in Int
    BY <1>2 DEF Decodes
  <2>2. w = <<get_u16_be(v)>>
    BY <1>2, Decoding
  <2>3. v = <<x \div 256, x % 256>>
    BY <1>2 DEF ValueBytes
  <2>4. get_u16_be(v) = x
    <3> HIDE DEF x
    <3>1. put_u16_be(x) = <<x \div 256, x % 256>> /\ get_u16_be(put_u16_be(x)) = x
      BY ONLY <2>1, Written16
    <3> QED BY ONLY <2>3, <3>1
  <2>5. w[1] = t.val[1]
    BY <2>2, <2>4
  <2>6. t.fid \in WritableField /\ (t.fid = "INSTALL_LOCATION" => w[2] = t.val[2])
    BY <1>2
  <2> QED BY ONLY <2>5, <2>6, SameNumbers
<1>3. CASE t.fid = "INSTALL_LOCATION"
  <2> DEFINE x == t.val[1]
             y == t.val[2]
             p == put_u32_be(x)
             r == put_u32_be(y)
  <2>1. x \in INT32 /\ y \in INT32 /\ x \in Int /\ y \in Int
    <3>1. x \in INT32 /\ y \in INT32
      BY <1>3 DEF Decodes
    <3> QED BY <3>1 DEF INT32
  <2>2. w = <<get_s32_be(v), get_s32_be(SubSeq(v, 5, 8))>>
    BY <1>3, Decoding
  <2>3. /\ p \in Seq(Byte) /\ Len(p) = 4 /\ get_s32_be(p) = x
        /\ r \in Seq(Byte) /\ Len(r) = 4 /\ get_s32_be(r) = y
    BY <2>1, Written32
  <2>4. v = p \o r
    BY <1>3, <2>1, Written32 DEF ValueBytes
  <2> HIDE DEF p, r
  <2>5. v[1] = p[1] /\ v[2] = p[2] /\ v[3] = p[3] /\ v[4] = p[4]
    BY <2>3, <2>4, FourAndFour
  <2>6. SubSeq(v, 5, 8)[1] = r[1] /\ SubSeq(v, 5, 8)[2] = r[2]
        /\ SubSeq(v, 5, 8)[3] = r[3] /\ SubSeq(v, 5, 8)[4] = r[4]
    <3>1. p \in Seq(Byte) /\ Len(p) = 4 /\ r \in Seq(Byte) /\ Len(r) = 4
      BY <2>3
    <3> QED BY ONLY <2>4, <3>1, FourAndFour
  <2> DEFINE z == SubSeq(v, 5, 8)
  <2> HIDE DEF z
  <2>7. get_s32_be(v) = x /\ get_s32_be(z) = y
    BY <2>3, <2>5, <2>6 DEF get_s32_be, z
  <2>8. w[1] = t.val[1] /\ w[2] = t.val[2]
    BY <2>2, <2>7 DEF z
  <2>9. t.fid \in WritableField /\ (t.fid = "INSTALL_LOCATION" => w[2] = t.val[2])
    BY <1>3, <2>8
  <2> QED BY ONLY <2>8, <2>9, SameNumbers
<1> QED BY <1>1, <1>2, <1>3 DEF WritableField

\* Phase 2 judges a field of the frame as it is judged in the request.
LEMMA FieldJudged ==
    ASSUME NEW data \in Seq(Byte), NEW q \in WriteReqs, CarriesWrite(data, q),
           NEW i \in 1 .. Len(q.tlvs), FieldStart(q, i) <= Len(data)
    PROVE  LET r == tlv_decode_field(Tlvs(data), tlv_offset(Tlvs(data), i - 1))
               t == q.tlvs[i]
           IN  /\ r.ok /\ FieldOf(r.id) = t.fid
               /\ app_field_validate(Decoded(r)) = app_field_validate(t)
               /\ app_field_validate(t) = "OK" =>
                     app_field_set(t.fid, DecodeValue(t.fid, r.value))
                        = app_field_set(t.fid, t.val)
<1> DEFINE t == q.tlvs[i]
           s == FieldStart(q, i - 1)
           r == tlv_decode_field(Tlvs(data), tlv_offset(Tlvs(data), i - 1))
<1>1. /\ Len(data) >= 2 /\ Len(data) \in Nat /\ s \in Nat /\ t.len \in Nat
      /\ FieldStart(q, i) = s + 2 + t.len
      /\ i - 1 \in 0 .. Len(q.tlvs) /\ i - 1 \in Nat
  <2>1. Len(data) >= 2 /\ Len(data) \in Nat
    BY DEF CarriesWrite
  <2>2. Len(q.tlvs) \in Nat /\ t.len \in Nat /\ FieldStart(q, i) = s + 2 + t.len
    BY FieldStarts
  <2>3. i - 1 \in 0 .. Len(q.tlvs) /\ i - 1 \in Nat
    BY <2>2
  <2>4. s \in Nat
    BY <2>3, FieldStarts
  <2> QED BY ONLY <2>1, <2>2, <2>3, <2>4
<1>2. s >= 2
  <2>1. s >= 2 + 2 * (i - 1)
    BY <1>1, StartsGrow
  <2> QED BY <1>1, <2>1
<1>3. tlv_offset(Tlvs(data), i - 1) = s - 2
  <2>1. s <= Len(data)
    BY <1>1
  <2> QED BY <1>1, <2>1, FrameOffsets
<1>4. CarriesField(data, s, t) /\ Decodes(t)
  BY RequestAssumption DEF CarriesWrite
<1>5. s + 2 + t.len <= Len(data)
  BY <1>1
<1> DEFINE v == SubSeq(data, s + 3, s + 2 + t.len)
<1>6. r.ok /\ FieldOf(r.id) = t.fid /\ r.value = v
  <2> HIDE DEF s, t
  <2> QED BY <1>1, <1>2, <1>3, <1>4, <1>5, FieldDecoded
<1>7. v \in Seq(Byte) /\ Len(v) = t.len
  <2> HIDE DEF s, t
  <2>1. s + 3 \in Int /\ s + 2 + t.len \in Int
    BY <1>1
  <2>2. \A k \in s + 3 .. s + 2 + t.len : data[k] \in Byte
    <3> SUFFICES ASSUME NEW k \in s + 3 .. s + 2 + t.len PROVE data[k] \in Byte
      OBVIOUS
    <3>1. k \in 1 .. Len(data)
      BY <1>1, <1>2, <1>5
    <3> QED BY <3>1, ElementOfSeq
  <2>3. v \in Seq(Byte) /\ Len(v) = IF s + 3 <= s + 2 + t.len
                                    THEN (s + 2 + t.len) - (s + 3) + 1 ELSE 0
    BY <2>1, <2>2, SubSeqProperties
  <2> QED BY <1>1, <2>3
<1>8. t.fid \in WritableField /\ t.len = field_value_len(t.fid) => v = ValueBytes(t)
  BY <1>4, <1>5 DEF CarriesField
<1> HIDE DEF r, t, v
<1>9. Decoded(r) = [fid |-> t.fid, len |-> t.len, val |-> DecodeValue(t.fid, v)]
  BY <1>6, <1>7 DEF Decoded
<1> DEFINE e == Decoded(r)
<1>10. e.fid = t.fid /\ e.len = t.len /\ e.val = DecodeValue(t.fid, v)
  BY <1>9
<1> HIDE DEF e
<1>11. CASE t.fid \in WritableField /\ t.len = field_value_len(t.fid)
  <2>1. /\ InRange(t.fid, DecodeValue(t.fid, v)) <=> InRange(t.fid, t.val)
        /\ app_field_set(t.fid, DecodeValue(t.fid, v)) = app_field_set(t.fid, t.val)
    BY <1>4, <1>7, <1>8, <1>11, ValueDecoded
  <2>2. app_field_validate(e) = app_field_validate(t)
    BY <1>10, <2>1 DEF app_field_validate
  <2> QED BY <1>6, <2>1, <2>2 DEF e, r, t
<1>12. CASE ~(t.fid \in WritableField /\ t.len = field_value_len(t.fid))
  <2>1. app_field_validate(e) = app_field_validate(t) /\ app_field_validate(t) # "OK"
    BY <1>10, <1>12 DEF app_field_validate
  <2> QED BY <1>6, <2>1 DEF e, r, t
<1> QED BY <1>11, <1>12

\* What a write makes of its cache.
Stores(e) == app_field_set(e.fid, DecodeValue(e.fid, e.value))

\* The bytes of a write are judged as the request they carry, and the cache
\* stores what the request asks for.
LEMMA WriteJudged ==
    ASSUME NEW data \in Seq(Byte), NEW q \in WriteReqs, CarriesWrite(data, q)
    PROVE  /\ CheckWrite(data).status = WriteStatus(q)
           /\ WriteStatus(q) = "OK" =>
                 /\ q.count \in Nat \ {0} /\ q.count <= WRITE_CACHE_MAX
                 /\ Len(CheckWrite(data).cache) = q.count
                 /\ \A i \in 1 .. q.count :
                       Stores(CheckWrite(data).cache[i])
                          = app_field_set(q.tlvs[i].fid, q.tlvs[i].val)
<1> DEFINE n == Len(q.tlvs)
           c == q.count
           d == Tlvs(data)
<1>1. /\ Len(data) >= 2 /\ Len(data) \in Nat /\ data[2] = c /\ c \in Nat /\ n \in Nat
  BY FieldStarts, RequestAssumption DEF CarriesWrite
<1>2. CASE c = 0 \/ ~q.whole \/ n % 256 # c
  <2>1. CheckWrite(data) = Refusal("PARAM_LEN", 0)
    <3>1. ~(Len(data) < 2)
      BY <1>1
    <3> QED BY <1>1, <1>2, <3>1, PayloadJudged DEF CheckWrite, Tlvs
  <2>2. WriteStatus(q) = "PARAM_LEN"
    BY <1>2 DEF WriteStatus
  <2> QED BY <2>1, <2>2 DEF Refusal
<1>3. CASE ~(c = 0 \/ ~q.whole \/ n % 256 # c)
  <2>1. CheckWrite(data) = FillCache(d, c)
    <3>1. ~(Len(data) < 2)
      BY <1>1
    <3> QED BY <1>1, <1>3, <3>1, PayloadJudged DEF CheckWrite, Tlvs
  <2>2. c <= n /\ c # 0
    <3>1. \A m \in Nat : m % 256 <= m
      OBVIOUS
    <3> QED BY <1>1, <1>3, <3>1
  <2> DEFINE field(i) == tlv_decode_field(d, tlv_offset(d, i - 1))
             status(i) == IF i > WRITE_CACHE_MAX \/ ~field(i).ok THEN "PARAM_LEN"
                          ELSE app_field_validate(Decoded(field(i)))
             bad == {i \in 1 .. c : status(i) # "OK"}
             entry(i) == [fid |-> FieldOf(field(i).id), value |-> field(i).value]
  <2>3. ASSUME NEW i \in 1 .. c
        PROVE  /\ field(i).ok /\ FieldOf(field(i).id) = q.tlvs[i].fid
               /\ app_field_validate(Decoded(field(i))) = app_field_validate(q.tlvs[i])
               /\ app_field_validate(q.tlvs[i]) = "OK" =>
                     app_field_set(q.tlvs[i].fid, DecodeValue(q.tlvs[i].fid, field(i).value))
                        = app_field_set(q.tlvs[i].fid, q.tlvs[i].val)
    <3>1. i \in 1 .. n
      BY <1>1, <2>2
    <3>2. FieldStart(q, i) <= Len(data)
      <4>1. FieldStart(q, n) = Len(data)
        BY <1>3 DEF CarriesWrite
      <4>2. CASE i = n
        BY <1>1, <4>1, <4>2
      <4>3. CASE i # n
        <5>1. i \in 0 .. n - 1 /\ n \in 0 .. n /\ i \in Nat
          BY <1>1, <3>1, <4>3
        <5>2. FieldStart(q, i) + 2 <= Len(data)
          BY <4>1, <5>1, StartsGrow
        <5> QED BY <1>1, <5>1, <5>2, FieldStarts
      <4> QED BY <4>2, <4>3
    <3> QED BY <3>1, <3>2, FieldJudged
  <2>4. FillCache(d, c) =
          IF bad = {} THEN [status |-> "OK", id |-> 0, cache |-> [i \in 1 .. c |-> entry(i)]]
          ELSE IF Min(bad) > WRITE_CACHE_MAX \/ ~field(Min(bad)).ok THEN Refusal("PARAM_LEN", 0)
          ELSE Refusal(status(Min(bad)), field(Min(bad)).id)
    BY DEF FillCache
  <2> HIDE DEF field
  <2>5. bad = Wrong(q)
    BY <2>3 DEF Wrong
  <2>6. WriteStatus(q) = IF bad = {} THEN "OK"
                         ELSE IF Min(bad) > WRITE_CACHE_MAX THEN "PARAM_LEN"
                         ELSE app_field_validate(q.tlvs[Min(bad)])
    BY <1>3, <2>5 DEF WriteStatus
  <2>7. CASE bad = {}
    <3>1. CheckWrite(data) = [status |-> "OK", id |-> 0, cache |-> [i \in 1 .. c |-> entry(i)]]
      BY <2>1, <2>4, <2>7
    <3>2. c <= WRITE_CACHE_MAX
      <4>1. c \in 1 .. c
        BY <1>1, <2>2
      <4>2. ~(c > WRITE_CACHE_MAX)
        BY <2>7, <4>1
      <4> QED BY <1>1, <4>2 DEF WRITE_CACHE_MAX
    <3>3. \A i \in 1 .. c : app_field_validate(q.tlvs[i]) = "OK"
      BY <2>5, <2>7 DEF Wrong
    <3> DEFINE cache0 == [i \in 1 .. c |-> entry(i)]
    <3>4. CheckWrite(data).cache = cache0 /\ CheckWrite(data).status = "OK"
      BY <3>1
    <3>5. Len(cache0) = c
      BY <1>1
    <3>6. ASSUME NEW i \in 1 .. c
          PROVE  Stores(cache0[i]) = app_field_set(q.tlvs[i].fid, q.tlvs[i].val)
      <4>1. cache0[i].fid = q.tlvs[i].fid /\ cache0[i].value = field(i).value
        BY <2>3
      <4> HIDE DEF cache0
      <4> QED BY <2>3, <3>3, <4>1 DEF Stores
    <3> HIDE DEF cache0
    <3> QED BY <1>1, <2>2, <2>6, <2>7, <3>2, <3>4, <3>5, <3>6
  <2>8. CASE bad # {}
    <3>1. Min(bad) \in bad
      <4>1. bad \subseteq 1 .. c
        OBVIOUS
      <4> HIDE DEF bad
      <4> QED BY <1>1, <2>8, <4>1, FirstPosition
    <3>2. status(Min(bad)) # "OK" /\ Min(bad) \in 1 .. c
      BY <3>1
    <3> DEFINE m == Min(bad)
    <3> HIDE DEF m, bad
    <3>3. CheckWrite(data).status =
            IF m > WRITE_CACHE_MAX \/ ~field(m).ok THEN "PARAM_LEN" ELSE status(m)
      BY <2>1, <2>4, <2>8 DEF Refusal, m
    <3>4. field(m).ok /\ app_field_validate(Decoded(field(m))) = app_field_validate(q.tlvs[m])
      BY <2>3, <3>2 DEF m
    <3>5. CheckWrite(data).status = WriteStatus(q)
      BY <2>6, <2>8, <3>3, <3>4 DEF m
    <3>6. WriteStatus(q) # "OK"
      BY <3>2, <3>3, <3>4, <3>5 DEF m
    <3> QED BY <3>5, <3>6
  <2> QED BY <2>7, <2>8
<1> QED BY <1>2, <1>3

\* A granted write has a command of at least two bytes, and a cache of writable
\* fields with values of their lengths and in range.
LEMMA CacheFilled ==
    ASSUME NEW data \in Seq(Byte), CheckWrite(data).status = "OK"
    PROVE  /\ Len(data) >= 2
           /\ CheckWrite(data).cache \in Seq(CacheEntry)
           /\ CheckWrite(data).cache # <<>>
<1> DEFINE d == Tlvs(data)
           c == data[2]
           field(i) == tlv_decode_field(d, tlv_offset(d, i - 1))
           status(i) == IF i > WRITE_CACHE_MAX \/ ~field(i).ok THEN "PARAM_LEN"
                        ELSE app_field_validate(Decoded(field(i)))
           bad == {i \in 1 .. c : status(i) # "OK"}
           entry(i) == [fid |-> FieldOf(field(i).id), value |-> field(i).value]
<1>1. Len(data) \in Nat /\ ~(Len(data) < 2)
  BY DEF CheckWrite, Refusal
<1>2. c \in Byte /\ c \in Nat /\ c # 0 /\ d \in Seq(Byte)
  <2>1. 2 \in 1 .. Len(data)
    BY <1>1
  <2>2. c \in Byte
    BY <2>1, ElementOfSeq
  <2>3. c # 0
    BY <1>1 DEF CheckWrite, Refusal
  <2>4. Len(data) >= 2
    BY <1>1
  <2> QED BY <2>2, <2>3, <2>4, BytesAre, Tail2
<1>3. CheckWrite(data) = FillCache(d, c)
  BY <1>1 DEF CheckWrite, Refusal, Tlvs
<1> HIDE DEF c
<1>4. FillCache(d, c) =
        IF bad = {} THEN [status |-> "OK", id |-> 0, cache |-> [i \in 1 .. c |-> entry(i)]]
        ELSE IF Min(bad) > WRITE_CACHE_MAX \/ ~field(Min(bad)).ok THEN Refusal("PARAM_LEN", 0)
        ELSE Refusal(status(Min(bad)), field(Min(bad)).id)
  BY DEF FillCache
<1> HIDE DEF field, d
<1>5. bad = {}
  <2> SUFFICES ASSUME bad # {} PROVE FALSE
    OBVIOUS
  <2>1. Min(bad) \in bad
    <3>1. bad \subseteq 1 .. c
      OBVIOUS
    <3> HIDE DEF bad
    <3> QED BY <1>2, <3>1, FirstPosition
  <2>2. status(Min(bad)) # "OK"
    BY <2>1
  <2> HIDE DEF bad
  <2> QED BY <1>3, <1>4, <2>2 DEF Refusal
<1>6. CheckWrite(data).cache = [i \in 1 .. c |-> entry(i)]
  BY <1>3, <1>4, <1>5
<1>7. ASSUME NEW i \in 1 .. c PROVE entry(i) \in CacheEntry
  <2>1. status(i) = "OK"
    BY <1>5
  <2> DEFINE fid == FieldOf(field(i).id)
             v == field(i).value
             t == Decoded(field(i))
  <2>2. field(i).ok /\ app_field_validate(t) = "OK"
    BY <2>1
  <2>3. t.fid = fid /\ t.len = Len(v) /\ t.val = DecodeValue(fid, v)
    BY DEF Decoded
  <2> HIDE DEF t
  <2>4. fid \in WritableField /\ Len(v) = field_value_len(fid) /\ InRange(fid, DecodeValue(fid, v))
    BY <2>2, <2>3 DEF app_field_validate
  <2>5. v \in Seq(Byte)
    <3> DEFINE o == tlv_offset(d, i - 1)
    <3>1. i - 1 \in Nat
      BY <1>2
    <3>2. o \in Int /\ o >= -1
      BY <1>2, <3>1, OffsetRange
    <3> HIDE DEF o
    <3>3. field(i) = tlv_decode_field(d, o)
      BY DEF field, o
    <3>4. o + 2 <= Len(d) /\ Len(d) \in Nat
      <4>1. Len(d) \in Nat
        BY <1>2
      <4>2. o + 2 > Len(d) => tlv_decode_field(d, o) = [ok |-> FALSE]
        BY DEF tlv_decode_field
      <4> QED BY <2>2, <3>2, <3>3, <4>1, <4>2
    <3>5. d[o + 2] \in Nat
      <4>1. o + 2 \in 1 .. Len(d)
        BY <3>2, <3>4
      <4> QED BY <1>2, <4>1, ElementOfSeq, BytesAre
    <3>6. /\ o + 2 + d[o + 2] <= Len(d)
          /\ v = SubSeq(d, o + 3, o + 2 + d[o + 2])
      <4> DEFINE e == o + 2 + d[o + 2]
                 f == tlv_decode_field(d, o)
      <4>1. ~(o + 2 > Len(d)) /\ e \in Int
        BY <3>2, <3>4, <3>5
      <4>2. e > Len(d) => f = [ok |-> FALSE]
        BY <4>1 DEF tlv_decode_field
      <4>3. ~(e > Len(d)) => f = [ok |-> TRUE, id |-> d[o + 1],
                                  value |-> SubSeq(d, o + 3, e), offset |-> e]
        BY <4>1 DEF tlv_decode_field
      <4> HIDE DEF f
      <4>4. f.ok
        BY <2>2, <3>3 DEF f
      <4>5. ~(e > Len(d))
        BY <4>2, <4>4
      <4>6. f.value = SubSeq(d, o + 3, e)
        BY <4>3, <4>5
      <4> HIDE DEF e
      <4>7. e <= Len(d)
        BY <3>4, <4>1, <4>5
      <4>8. v = f.value
        BY <3>3 DEF f
      <4> QED BY <4>6, <4>7, <4>8 DEF e
    <3> DEFINE a == o + 3
               b == o + 2 + d[o + 2]
    <3>7. a \in Int /\ b \in Int /\ a >= 1 /\ b <= Len(d)
      BY <3>2, <3>5, <3>6
    <3> HIDE DEF a, b
    <3>8. \A k \in a .. b : d[k] \in Byte
      <4> SUFFICES ASSUME NEW k \in a .. b PROVE d[k] \in Byte
        OBVIOUS
      <4>1. k \in 1 .. Len(d)
        BY <3>4, <3>7
      <4> QED BY <1>2, <4>1, ElementOfSeq
    <3>9. SubSeq(d, a, b) \in Seq(Byte)
      BY <3>7, <3>8, SubSeqProperties
    <3> QED BY <3>6, <3>9 DEF a, b
  <2> QED BY <2>4, <2>5 DEF CacheEntry
<1>8. [i \in 1 .. c |-> entry(i)] \in Seq(CacheEntry)
  <2> HIDE DEF entry
  <2> QED BY <1>2, <1>7
<1>9. [i \in 1 .. c |-> entry(i)] # <<>>
  <2>1. Len([i \in 1 .. c |-> entry(i)]) = c
    BY <1>2
  <2> QED BY <1>2, <2>1
<1> QED BY <1>1, <1>6, <1>8, <1>9

\* A refused write is answered with a status of the protocol and a byte: the
\* field named in the answer was decoded, as its number is below the count of
\* a payload that was decoded to its end.
LEMMA RefusalAnswered ==
    ASSUME NEW data \in Seq(Byte)
    PROVE  /\ CheckWrite(data).status \in DOMAIN STATUS
           /\ CheckWrite(data).id \in Int
<1> DEFINE Shape(w) == w.status \in DOMAIN STATUS /\ w.id \in Int
           d == Tlvs(data)
           c == data[2]
<1>1. \A st \in DOMAIN STATUS, b \in Int : Shape(Refusal(st, b))
  BY DEF Refusal
<1>2. {"OK", "UNSUPPORTED", "PARAM_LEN", "PARAM_VALUE"} \subseteq DOMAIN STATUS
  BY DEF STATUS
<1>3. CASE Len(data) < 2 \/ data[2] = 0 \/ ~tlv_validate_payload(d, c)
  <2>1. CheckWrite(data) = Refusal("PARAM_LEN", 0)
    BY <1>3 DEF CheckWrite, Tlvs
  <2>2. 0 \in Int
    OBVIOUS
  <2> HIDE DEF Shape
  <2>3. Shape(Refusal("PARAM_LEN", 0))
    BY <1>1, <1>2, <2>2
  <2> QED BY <2>1, <2>3 DEF Shape
<1>4. CASE ~(Len(data) < 2 \/ data[2] = 0 \/ ~tlv_validate_payload(d, c))
  <2> DEFINE field(i) == tlv_decode_field(d, tlv_offset(d, i - 1))
             status(i) == IF i > WRITE_CACHE_MAX \/ ~field(i).ok THEN "PARAM_LEN"
                          ELSE app_field_validate(Decoded(field(i)))
             bad == {i \in 1 .. c : status(i) # "OK"}
             entry(i) == [fid |-> FieldOf(field(i).id), value |-> field(i).value]
  <2>1. Len(data) \in Nat /\ Len(data) >= 2
    BY <1>4
  <2>2. c \in Byte /\ c \in Nat /\ d \in Seq(Byte) /\ Len(d) \in Nat
    <3>1. 2 \in 1 .. Len(data)
      BY <2>1
    <3>2. c \in Byte
      BY <3>1, ElementOfSeq
    <3> QED BY <2>1, <3>2, BytesAre, Tail2
  <2>3. tlv_validate_payload(d, c)
    BY <1>4
  <2>4. CheckWrite(data) = FillCache(d, c)
    BY <1>4 DEF CheckWrite, Tlvs
  <2> HIDE DEF c, d
  <2>5. FillCache(d, c) =
          IF bad = {} THEN [status |-> "OK", id |-> 0, cache |-> [i \in 1 .. c |-> entry(i)]]
          ELSE IF Min(bad) > WRITE_CACHE_MAX \/ ~field(Min(bad)).ok THEN Refusal("PARAM_LEN", 0)
          ELSE Refusal(status(Min(bad)), field(Min(bad)).id)
    BY DEF FillCache
  <2>6. PICK n \in 0 .. Len(d) \div 2 : n % 256 = c /\ tlv_offset(d, n) >= Len(d)
    BY <2>3 DEF tlv_validate_payload
  <2>7. n \in Nat /\ n >= c
    <3>1. n \in Nat
      BY <2>2
    <3>2. \A m \in Nat : m % 256 <= m
      OBVIOUS
    <3> QED BY <2>6, <3>1, <3>2
  <2>8. ASSUME NEW i \in 1 .. c, field(i).ok
        PROVE  field(i).id \in Int
    <3> DEFINE o == tlv_offset(d, i - 1)
    <3>1. i - 1 \in Nat /\ n >= i - 1
      BY <2>2, <2>7
    <3>2. o \in Int
      BY <2>2, <3>1, OffsetRange
    <3>3. o # -1
      <4>1. o = -1 => tlv_offset(d, n) = -1
        BY <2>2, <2>7, <3>1, FailedStaysFailed
      <4> HIDE DEF o
      <4> QED BY <2>2, <2>6, <4>1
    <3>4. o >= -1
      BY <2>2, <3>1, OffsetRange
    <3> HIDE DEF o
    <3>5. o >= 0
      BY <3>2, <3>3, <3>4
    <3>6. field(i) = tlv_decode_field(d, o)
      BY DEF o
    <3>7. Whole(d, o)
      BY <2>2, <2>8, <3>2, <3>5, <3>6, DecodeSteps
    <3>8. field(i).id = d[o + 1]
      <4>1. tlv_decode_field(d, o) =
               [ok |-> TRUE, id |-> d[o + 1],
                value |-> SubSeq(d, o + 3, o + 2 + d[o + 2]),
                offset |-> o + 2 + d[o + 2]]
        BY ONLY <2>2, <3>2, <3>5, <3>7, DecodeSteps
      <4> HIDE DEF field
      <4> QED BY <3>6, <4>1
    <3>9. o + 1 \in 1 .. Len(d)
      BY <2>2, <3>2, <3>5, <3>7 DEF Whole
    <3> QED BY <2>2, <3>8, <3>9, ElementOfSeq, BytesAre
  <2> HIDE DEF field
  <2>9. \A t : app_field_validate(t) \in {"OK", "UNSUPPORTED", "PARAM_LEN", "PARAM_VALUE"}
    BY DEF app_field_validate
  <2>10. \A i : status(i) \in DOMAIN STATUS
    BY <1>2, <2>9
  <2>11. CASE bad = {}
    BY <1>2, <2>4, <2>5, <2>11
  <2>12. CASE bad # {}
    <3> DEFINE i == Min(bad)
    <3>1. i \in 1 .. c
      <4>1. bad \subseteq 1 .. c
        OBVIOUS
      <4> HIDE DEF bad
      <4>2. i \in bad
        BY <2>2, <2>12, <4>1, FirstPosition
      <4> QED BY <4>1, <4>2
    <3> HIDE DEF i, bad
    <3>2. CASE i > WRITE_CACHE_MAX \/ ~field(i).ok
      <4>1. CheckWrite(data) = Refusal("PARAM_LEN", 0)
        BY <2>4, <2>5, <2>12, <3>2 DEF i
      <4>2. 0 \in Int
        OBVIOUS
      <4> HIDE DEF Shape
      <4>3. Shape(Refusal("PARAM_LEN", 0))
        BY <1>1, <1>2, <4>2
      <4> QED BY <4>1, <4>3 DEF Shape
    <3>3. CASE ~(i > WRITE_CACHE_MAX \/ ~field(i).ok)
      <4>1. CheckWrite(data) = Refusal(status(i), field(i).id)
        BY <2>4, <2>5, <2>12, <3>3 DEF i
      <4>2. field(i).id \in Int
        BY <2>8, <3>1, <3>3
      <4>3. status(i) \in DOMAIN STATUS
        BY <2>10
      <4> HIDE DEF Shape, status
      <4>4. Shape(Refusal(status(i), field(i).id))
        BY <1>1, <4>2, <4>3
      <4> QED BY <4>1, <4>4 DEF Shape
    <3> QED BY <3>2, <3>3
  <2> QED BY <2>11, <2>12
<1> QED BY <1>3, <1>4
-----------------------------------------------------------------------------
(* The answer to a read.                                                    *)

LEMMA LengthBound ==
    ASSUME NEW fid
    PROVE  field_value_len(fid) \in 0 .. 8
  BY DEF field_value_len

LEMMA AnswerLenSteps ==
    ASSUME NEW fields
    PROVE  /\ AnswerLen(fields, 0) = 3
           /\ \A n \in Nat :
                 /\ AnswerLen(fields, n) \in Nat
                 /\ AnswerLen(fields, n + 1)
                       = AnswerLen(fields, n) + 2 + field_value_len(fields[n + 1])
<1> DEFINE body == [p \in Nat \X Nat |-> p[2] + 2 + field_value_len(fields[p[1] + 1])]
<1>1. body \in Body(Nat)
  BY LengthBound DEF Body
<1>2. \A n \in Nat : AnswerLen(fields, n) = Loop(Nat, body, n, 3)
  BY DEF AnswerLen
<1>3. \A n \in Nat, o \in Nat : body[<<n, o>>] = o + 2 + field_value_len(fields[n + 1])
  OBVIOUS
<1> HIDE DEF body
<1>4. /\ Loop(Nat, body, 0, 3) = 3
      /\ \A n \in Nat : /\ Loop(Nat, body, n, 3) \in Nat
                        /\ Loop(Nat, body, n + 1, 3) = body[<<n, Loop(Nat, body, n, 3)>>]
  BY <1>1, LoopSteps
<1>5. AnswerLen(fields, 0) = 3
  BY <1>2, <1>4
<1>6. ASSUME NEW n \in Nat
      PROVE  /\ AnswerLen(fields, n) \in Nat
             /\ AnswerLen(fields, n + 1)
                   = AnswerLen(fields, n) + 2 + field_value_len(fields[n + 1])
  <2> DEFINE o == Loop(Nat, body, n, 3)
  <2>1. n + 1 \in Nat
    OBVIOUS
  <2>2. AnswerLen(fields, n) = o /\ AnswerLen(fields, n + 1) = Loop(Nat, body, n + 1, 3)
    BY <1>2, <2>1
  <2>3. o \in Nat /\ Loop(Nat, body, n + 1, 3) = body[<<n, o>>]
    BY <1>4
  <2> QED BY <1>3, <2>2, <2>3
<1> QED BY <1>5, <1>6

\* Each field adds its header and its value, of at most eight bytes.
LEMMA AnswerGrows ==
    ASSUME NEW fields, NEW n \in Nat
    PROVE  /\ AnswerLen(fields, n) \in 3 .. 3 + 10 * n
           /\ \A m \in 0 .. n - 1 : AnswerLen(fields, m) + 2 + field_value_len(fields[m + 1])
                                      <= AnswerLen(fields, n)
<1> DEFINE Grown(k) ==
      /\ AnswerLen(fields, k) \in 3 .. 3 + 10 * k
      /\ \A m \in 0 .. k - 1 : AnswerLen(fields, m) + 2 + field_value_len(fields[m + 1])
                                 <= AnswerLen(fields, k)
<1> DEFINE T == {k \in Nat : Grown(k)}
<1>1. 0 \in T
  BY AnswerLenSteps
<1>2. ASSUME NEW k \in T PROVE k + 1 \in T
  <2>1. k \in Nat /\ Grown(k)
    OBVIOUS
  <2>2. /\ \A m \in Nat : AnswerLen(fields, m) \in Nat
        /\ AnswerLen(fields, k + 1) = AnswerLen(fields, k) + 2 + field_value_len(fields[k + 1])
    BY <2>1, AnswerLenSteps
  <2>3. \A fid : field_value_len(fid) \in 0 .. 8
    BY LengthBound
  <2>4. AnswerLen(fields, k + 1) \in 3 .. 3 + 10 * (k + 1)
    BY <2>1, <2>2, <2>3
  <2>5. ASSUME NEW m \in 0 .. k
        PROVE  AnswerLen(fields, m) + 2 + field_value_len(fields[m + 1])
                 <= AnswerLen(fields, k + 1)
    <3>1. CASE m = k
      BY <2>1, <2>2, <2>3, <3>1
    <3>2. CASE m # k
      <4>1. m \in 0 .. k - 1 /\ m \in Nat
        BY <2>1, <3>2
      <4>2. AnswerLen(fields, m) + 2 + field_value_len(fields[m + 1]) <= AnswerLen(fields, k)
        BY <2>1, <4>1
      <4> QED BY <2>1, <2>2, <2>3, <4>1, <4>2
    <3> QED BY <3>1, <3>2
  <2>6. (k + 1) - 1 = k /\ k + 1 \in Nat
    BY <2>1
  <2> QED BY <2>4, <2>5, <2>6
<1> HIDE DEF T
<1>3. \A k \in Nat : k \in T
  BY <1>1, <1>2, Induction
<1> QED BY <1>3 DEF T

LEMMA SameLength ==
    ASSUME NEW a, NEW b, NEW n \in Nat, \A i \in 1 .. n : a[i] = b[i]
    PROVE  AnswerLen(a, n) = AnswerLen(b, n)
<1> DEFINE T == {k \in Nat : k <= n => AnswerLen(a, k) = AnswerLen(b, k)}
<1>1. 0 \in T
  BY AnswerLenSteps
<1>2. ASSUME NEW k \in T PROVE k + 1 \in T
  <2> SUFFICES ASSUME k + 1 <= n PROVE AnswerLen(a, k + 1) = AnswerLen(b, k + 1)
    OBVIOUS
  <2>1. k \in Nat /\ k <= n /\ k + 1 \in 1 .. n
    OBVIOUS
  <2>2. AnswerLen(a, k) = AnswerLen(b, k) /\ a[k + 1] = b[k + 1]
    BY <2>1
  <2> QED BY <2>1, <2>2, AnswerLenSteps
<1> HIDE DEF T
<1>3. \A k \in Nat : k \in T
  BY <1>1, <1>2, Induction
<1> QED BY <1>3 DEF T

\* append_field_to_resp() for one id.
FieldBytes(b) == tlv_encode_field(b, app_field_get(FieldOf(b)))

RegistryTyped == g \in [Stored -> Int] /\ device_state \in DeviceState

LEMMA FieldEncoded ==
    ASSUME RegistryTyped, NEW b \in Int
    PROVE  LET v == app_field_get(FieldOf(b))
               len == field_value_len(FieldOf(b))
           IN  /\ FieldBytes(b) \in Seq(Int) /\ Len(FieldBytes(b)) = 2 + len
               /\ FieldBytes(b)[1] = b /\ FieldBytes(b)[2] = len
               /\ \A k \in 1 .. len : FieldBytes(b)[2 + k] = v[k]
<1> DEFINE v == app_field_get(FieldOf(b))
           len == field_value_len(FieldOf(b))
<1>1. v \in Seq(Int) /\ Len(v) = len /\ len \in Nat
  <2>1. v \in Seq(Int) /\ Len(v) = len /\ len \in 0 .. 8
    BY FieldLengths DEF RegistryTyped
  <2> QED BY <2>1
<1>2. FieldBytes(b) = <<b, len>> \o v
  BY <1>1 DEF FieldBytes, tlv_encode_field
<1> HIDE DEF v, len
<1>3. FieldBytes(b) \in Seq(Int) /\ Len(FieldBytes(b)) = 2 + len
  BY <1>1, <1>2
<1>4. FieldBytes(b)[1] = b /\ FieldBytes(b)[2] = len
  BY <1>1, <1>2
<1>5. ASSUME NEW k \in 1 .. len PROVE FieldBytes(b)[2 + k] = v[k]
  BY <1>1, <1>2
<1> QED BY <1>3, <1>4, <1>5 DEF v, len

LEMMA AppendSteps ==
    ASSUME RegistryTyped, NEW ids \in Seq(Int)
    PROVE  /\ AppendFields(ids, 0) = <<1, 0, Len(ids)>>
           /\ \A n \in Nat : AppendFields(ids, n) \in Seq(Int)
           /\ \A n \in 0 .. Len(ids) - 1 :
                 AppendFields(ids, n + 1) = AppendFields(ids, n) \o FieldBytes(ids[n + 1])
<1> DEFINE next(i) == IF i < Len(ids) THEN FieldBytes(ids[i + 1]) ELSE <<>>
           body == [p \in Nat \X Seq(Int) |-> p[2] \o next(p[1])]
           start == <<1, 0, Len(ids)>>
<1>1. \A i \in Nat : next(i) \in Seq(Int)
  <2>1. \A b \in Int : FieldBytes(b) \in Seq(Int)
    BY FieldEncoded
  <2>2. ASSUME NEW i \in Nat, i < Len(ids) PROVE ids[i + 1] \in Int
    <3>1. i + 1 \in 1 .. Len(ids)
      BY <2>2
    <3> QED BY <3>1, ElementOfSeq
  <2>3. ASSUME NEW i \in Nat PROVE next(i) \in Seq(Int)
    <3>1. CASE i < Len(ids)
      <4>1. next(i) = FieldBytes(ids[i + 1]) /\ ids[i + 1] \in Int
        BY <2>2, <3>1
      <4> HIDE DEF next
      <4> QED BY ONLY <2>1, <4>1
    <3>2. CASE ~(i < Len(ids))
      BY <3>2
    <3> QED BY <3>1, <3>2
  <2> HIDE DEF next
  <2> QED BY Zenon, <2>3
<1>2. start \in Seq(Int)
  OBVIOUS
<1>3. \A n \in Nat : AppendFields(ids, n) = Loop(Seq(Int), body, n, start)
  BY DEF AppendFields, FieldBytes, STATUS
<1>4. \A n \in Nat, s \in Seq(Int) : body[<<n, s>>] = s \o next(n)
  <2> HIDE DEF next
  <2> QED OBVIOUS
<1> HIDE DEF next
<1>5. body \in Body(Seq(Int))
  BY <1>1, ConcatProperties DEF Body
<1> HIDE DEF body, start
<1>6. /\ Loop(Seq(Int), body, 0, start) = start
      /\ \A n \in Nat : /\ Loop(Seq(Int), body, n, start) \in Seq(Int)
                        /\ Loop(Seq(Int), body, n + 1, start)
                              = body[<<n, Loop(Seq(Int), body, n, start)>>]
  BY <1>2, <1>5, LoopSteps
<1>7. AppendFields(ids, 0) = start /\ \A n \in Nat : AppendFields(ids, n) \in Seq(Int)
  BY <1>3, <1>6
<1>8. ASSUME NEW n \in Nat PROVE AppendFields(ids, n + 1) = AppendFields(ids, n) \o next(n)
  <2> DEFINE a == Loop(Seq(Int), body, n, start)
  <2>1. n + 1 \in Nat
    OBVIOUS
  <2>2. AppendFields(ids, n) = a /\ AppendFields(ids, n + 1) = Loop(Seq(Int), body, n + 1, start)
    BY Zenon, <1>3, <2>1
  <2>3. a \in Seq(Int) /\ Loop(Seq(Int), body, n + 1, start) = body[<<n, a>>]
    BY Zenon, <1>6
  <2> QED BY Zenon, <1>4, <2>2, <2>3
<1>9. ASSUME NEW n \in 0 .. Len(ids) - 1
      PROVE  AppendFields(ids, n + 1) = AppendFields(ids, n) \o FieldBytes(ids[n + 1])
  <2>1. n \in Nat /\ n < Len(ids)
    OBVIOUS
  <2>2. next(n) = FieldBytes(ids[n + 1])
    BY <2>1 DEF next
  <2> QED BY <1>8, <2>1, <2>2
<1> QED BY <1>7, <1>9 DEF start

\* The answer's bytes behind an offset are the TLV of id b.
HasField(bytes, start, b) ==
    /\ bytes[start + 1] = b
    /\ bytes[start + 2] = field_value_len(FieldOf(b))
    /\ \A k \in 1 .. field_value_len(FieldOf(b)) :
          bytes[start + 2 + k] = app_field_get(FieldOf(b))[k]

AnswerHolds(ids, n) ==
    LET bytes == AppendFields(ids, n)
    IN  /\ Len(bytes) = AnswerStart(ids, n)
        /\ bytes[1] = 1 /\ bytes[2] = 0 /\ bytes[3] = Len(ids)
        /\ \A i \in 1 .. n : HasField(bytes, AnswerStart(ids, i - 1), ids[i])

LEMMA StartSteps ==
    ASSUME NEW ids \in Seq(Int)
    PROVE  /\ AnswerStart(ids, 0) = 3
           /\ \A n \in Nat : /\ AnswerStart(ids, n) \in 3 .. 3 + 10 * n
                             /\ AnswerStart(ids, n) \in Int
           /\ \A n \in 0 .. Len(ids) : \A i \in 1 .. n :
                 /\ AnswerStart(ids, i) = AnswerStart(ids, i - 1) + 2 + field_value_len(FieldOf(ids[i]))
                 /\ AnswerStart(ids, i - 1) + 2 + field_value_len(FieldOf(ids[i]))
                       <= AnswerStart(ids, n)
<1> DEFINE fields == [i \in 1 .. Len(ids) |-> FieldOf(ids[i])]
<1>1. \A n : AnswerStart(ids, n) = AnswerLen(fields, n)
  BY DEF AnswerStart
<1>2. ASSUME NEW n \in 0 .. Len(ids), NEW i \in 1 .. n
      PROVE  /\ AnswerStart(ids, i) = AnswerStart(ids, i - 1) + 2 + field_value_len(FieldOf(ids[i]))
             /\ AnswerStart(ids, i - 1) + 2 + field_value_len(FieldOf(ids[i]))
                   <= AnswerStart(ids, n)
  <2>1. i - 1 \in Nat /\ i - 1 \in 0 .. n - 1 /\ (i - 1) + 1 = i /\ i \in 1 .. Len(ids) /\ n \in Nat
    OBVIOUS
  <2>2. fields[i] = FieldOf(ids[i])
    BY <2>1
  <2> HIDE DEF fields
  <2>3. AnswerLen(fields, i) = AnswerLen(fields, i - 1) + 2 + field_value_len(fields[i])
    BY <2>1, AnswerLenSteps
  <2>4. AnswerLen(fields, i - 1) + 2 + field_value_len(fields[i]) <= AnswerLen(fields, n)
    BY <2>1, AnswerGrows
  <2> QED BY <1>1, <2>2, <2>3, <2>4
<1> HIDE DEF fields
<1>3. AnswerStart(ids, 0) = 3
  BY <1>1, AnswerLenSteps
<1>4. \A n \in Nat : /\ AnswerStart(ids, n) \in 3 .. 3 + 10 * n
                    /\ AnswerStart(ids, n) \in Int
  <2>1. \A n \in Nat : \A k \in 3 .. 3 + 10 * n : k \in Int
    OBVIOUS
  <2> QED BY Zenon, <1>1, <2>1, AnswerGrows
<1> QED BY <1>2, <1>3, <1>4

\* After n ids, the answer holds the TLVs of those ids, and nothing else.
LEMMA Appended ==
    ASSUME RegistryTyped, NEW ids \in Seq(Int), NEW n \in 0 .. Len(ids)
    PROVE  AnswerHolds(ids, n)
<1> DEFINE T == {k \in Nat : k <= Len(ids) => AnswerHolds(ids, k)}
<1>1. 0 \in T
  <2>1. AppendFields(ids, 0) = <<1, 0, Len(ids)>>
    BY AppendSteps
  <2>2. AnswerStart(ids, 0) = 3
    BY StartSteps
  <2>3. AnswerHolds(ids, 0)
    <3> DEFINE z == AppendFields(ids, 0)
    <3>1. Len(z) = 3 /\ z[1] = 1 /\ z[2] = 0 /\ z[3] = Len(ids)
      BY <2>1
    <3>2. \A i \in 1 .. 0 : FALSE
      OBVIOUS
    <3> QED BY Zenon, <2>2, <3>1, <3>2 DEF AnswerHolds
  <2> QED BY <2>3
<1>2. ASSUME NEW k \in T PROVE k + 1 \in T
  <2> SUFFICES ASSUME k + 1 <= Len(ids) PROVE AnswerHolds(ids, k + 1)
    OBVIOUS
  <2> DEFINE x == AppendFields(ids, k)
             b == ids[k + 1]
             y == FieldBytes(b)
             z == AppendFields(ids, k + 1)
             len == field_value_len(FieldOf(b))
             v == app_field_get(FieldOf(b))
  <2>1. /\ k \in Nat /\ k \in 0 .. Len(ids) - 1 /\ k + 1 \in 0 .. Len(ids)
        /\ k + 1 \in 1 .. Len(ids) /\ k + 1 \in 1 .. k + 1 /\ (k + 1) - 1 = k /\ k \in 0 .. Len(ids)
    OBVIOUS
  <2>2. AnswerHolds(ids, k)
    BY <2>1
  <2>3. b \in Int
    BY <2>1, ElementOfSeq
  <2>4. x \in Seq(Int) /\ z = x \o y
    BY <2>1, AppendSteps
  <2>5. /\ y \in Seq(Int) /\ Len(y) = 2 + len /\ y[1] = b /\ y[2] = len
        /\ \A j \in 1 .. len : y[2 + j] = v[j]
    BY <2>3, FieldEncoded
  <2>6. len \in Nat
    <3>1. len \in 0 .. 8
      BY LengthBound
    <3> QED BY <3>1
  <2>7. /\ Len(x) = AnswerStart(ids, k) /\ Len(x) \in Nat /\ Len(x) >= 3
        /\ x[1] = 1 /\ x[2] = 0 /\ x[3] = Len(ids)
    <3>1. AnswerStart(ids, k) \in 3 .. 3 + 10 * k
      BY <2>1, StartSteps
    <3> QED BY <2>1, <2>2, <3>1 DEF AnswerHolds
  <2>8. AnswerStart(ids, k + 1) = AnswerStart(ids, k) + 2 + len
    BY <2>1, StartSteps
  <2> HIDE DEF x, y, z, b, len, v
  <2>9. /\ z \in Seq(Int) /\ Len(z) = Len(x) + Len(y)
        /\ \A j \in 1 .. Len(x) : z[j] = x[j]
        /\ \A j \in 1 .. Len(y) : z[Len(x) + j] = y[j]
    <3>1. x \in Seq(Int) /\ y \in Seq(Int) /\ z = x \o y
      BY <2>4, <2>5
    <3> QED BY ONLY SMTT(60), <3>1, Joined
  <2>10. Len(z) = AnswerStart(ids, k + 1) /\ z[1] = 1 /\ z[2] = 0 /\ z[3] = Len(ids)
    <3>1. 1 \in 1 .. Len(x) /\ 2 \in 1 .. Len(x) /\ 3 \in 1 .. Len(x)
      BY ONLY <2>7
    <3>2. z[1] = x[1] /\ z[2] = x[2] /\ z[3] = x[3]
      BY ONLY <2>9, <3>1
    <3>3. Len(y) = 2 + len /\ Len(z) = Len(x) + Len(y)
      BY ONLY <2>5, <2>9
    <3>4. Len(z) = AnswerStart(ids, k + 1)
      BY ONLY <2>6, <2>7, <2>8, <3>3
    <3> QED BY ONLY <2>7, <3>2, <3>4
  <2>11. /\ z[Len(x) + 1] = b /\ z[Len(x) + 2] = len
         /\ \A j \in 1 .. len : z[Len(x) + 2 + j] = v[j]
    <3>1. z[Len(x) + 1] = b /\ z[Len(x) + 2] = len
      BY <2>5, <2>6, <2>9
    <3>2. ASSUME NEW j \in 1 .. len PROVE z[Len(x) + 2 + j] = v[j]
      <4>1. 2 + j \in 1 .. Len(y) /\ Len(x) + (2 + j) = Len(x) + 2 + j
        BY <2>5, <2>6, <2>7
      <4> QED BY <2>5, <2>9, <4>1
    <3> QED BY <3>1, <3>2
  <2>12. ASSUME NEW i \in 1 .. k + 1 PROVE HasField(z, AnswerStart(ids, i - 1), ids[i])
    <3>1. CASE i = k + 1
      <4>1. AnswerStart(ids, i - 1) = Len(x) /\ ids[i] = b
        BY <2>1, <2>7, <3>1 DEF b
      <4> QED BY <2>11, <4>1 DEF HasField, len, v
    <3>2. CASE i # k + 1
      <4> DEFINE s == AnswerStart(ids, i - 1)
                 l == field_value_len(FieldOf(ids[i]))
      <4>1. i \in 1 .. k /\ i - 1 \in Nat
        BY <2>1, <3>2
      <4>2. HasField(x, s, ids[i])
        BY <2>2, <4>1 DEF AnswerHolds, x
      <4>3. s + 2 + l <= Len(x)
        BY <2>1, <2>7, <4>1, StartSteps
      <4>4. s \in Nat /\ l \in Nat
        <5>1. s \in 3 .. 3 + 10 * (i - 1)
          BY <4>1, StartSteps
        <5>2. l \in 0 .. 8
          BY LengthBound
        <5> QED BY SMTT(60), <4>1, <5>1, <5>2
      <4> HIDE DEF s
      <4>5. z[s + 1] = x[s + 1] /\ z[s + 2] = x[s + 2]
        <5>1. s + 1 \in 1 .. Len(x) /\ s + 2 \in 1 .. Len(x)
          BY SMTT(60), <2>7, <4>3, <4>4
        <5> QED BY <2>9, <5>1
      <4>6. ASSUME NEW j \in 1 .. l PROVE z[s + 2 + j] = x[s + 2 + j]
        <5>1. s + 2 + j \in 1 .. Len(x)
          BY <2>7, <4>3, <4>4
        <5> QED BY <2>9, <5>1
      <4>7. HasField(z, s, ids[i])
        BY <4>2, <4>5, <4>6 DEF HasField
      <4> QED BY <4>7 DEF s
    <3> QED BY <3>1, <3>2
  <2> QED BY <2>10, <2>12 DEF AnswerHolds, z
<1> HIDE DEF T
<1>3. \A k \in Nat : k \in T
  BY <1>1, <1>2, Induction
<1> QED BY <1>3 DEF T

\* The fields are answered if they fit into the answer together.
LEMMA FieldsAnswered ==
    ASSUME RegistryTyped, NEW ids \in Seq(Int), Len(ids) >= 1
    PROVE  LET r == ReadFields(ids)
           IN  /\ r.bytes \in Seq(Int) /\ r.bytes[2] = STATUS[r.status]
               /\ r.status = IF AnswerStart(ids, Len(ids)) > APP_PROTO_RESP_MAX
                             THEN "UNKNOWN" ELSE "OK"
               /\ r.status = "OK" => r.bytes = AppendFields(ids, Len(ids))
<1> DEFINE N == Len(ids)
           full == {n \in 1 .. N : Len(AppendFields(ids, n)) > APP_PROTO_RESP_MAX}
<1>1. N \in Nat /\ N \in 1 .. N /\ N \in 0 .. N
  OBVIOUS
<1>2. \A n \in 0 .. N : /\ Len(AppendFields(ids, n)) = AnswerStart(ids, n)
                        /\ AppendFields(ids, n) \in Seq(Int)
                        /\ AppendFields(ids, n)[2] = 0
  BY Appended, AppendSteps DEF AnswerHolds
<1>3. ASSUME NEW n \in 1 .. N PROVE AnswerStart(ids, n) <= AnswerStart(ids, N)
  <2>1. \A k \in 0 .. N : AnswerStart(ids, k) \in Nat
    <3>1. \A k \in 0 .. N : k \in Nat /\ AnswerStart(ids, k) \in 3 .. 3 + 10 * k
      BY StartSteps
    <3> QED BY <3>1
  <2>2. /\ AnswerStart(ids, n) = AnswerStart(ids, n - 1) + 2 + field_value_len(FieldOf(ids[n]))
        /\ AnswerStart(ids, n - 1) + 2 + field_value_len(FieldOf(ids[n])) <= AnswerStart(ids, N)
    BY <1>1, StartSteps
  <2> QED BY <2>1, <2>2
<1>4. full = {} <=> ~(AnswerStart(ids, N) > APP_PROTO_RESP_MAX)
  <2>1. \A k \in 0 .. N : AnswerStart(ids, k) \in Int
    BY StartSteps
  <2>2. APP_PROTO_RESP_MAX \in Int
    BY DEF APP_PROTO_RESP_MAX
  <2>3. ASSUME NEW n \in full PROVE AnswerStart(ids, N) > APP_PROTO_RESP_MAX
    <3>1. AnswerStart(ids, n) > APP_PROTO_RESP_MAX
      BY <1>2
    <3> QED BY <1>1, <1>3, <2>1, <2>2, <3>1
  <2>4. AnswerStart(ids, N) > APP_PROTO_RESP_MAX => N \in full
    BY <1>1, <1>2
  <2> HIDE DEF full
  <2> QED BY <2>3, <2>4
<1>5. ReadFields(ids) = IF full = {} THEN [status |-> "OK", bytes |-> AppendFields(ids, N)]
                        ELSE ReadError("UNKNOWN", ids[Min(full)])
  BY DEF ReadFields
<1>6. CASE full = {}
  BY <1>1, <1>2, <1>4, <1>5, <1>6 DEF STATUS
<1>7. CASE full # {}
  <2>1. ids[Min(full)] \in Int
    <3>1. full \subseteq 1 .. N
      OBVIOUS
    <3> HIDE DEF full
    <3>2. Min(full) \in 1 .. N
      BY <1>1, <1>7, <3>1, FirstPosition
    <3> QED BY <3>2, ElementOfSeq
  <2> DEFINE b == ids[Min(full)]
  <2> HIDE DEF full, b
  <2>2. ReadFields(ids) = [status |-> "UNKNOWN", bytes |-> <<1, 255, b>>]
    BY <1>5, <1>7 DEF ReadError, STATUS, b
  <2> QED BY <1>4, <1>7, <2>1, <2>2 DEF STATUS, b
<1> QED BY <1>6, <1>7

\* The ids a read asks for.
AskedIn(data) == IF data[6] = 0 THEN ALL_READABLE_FIELDS ELSE SubSeq(data, 7, 6 + data[6])

LEMMA AllFields ==
    /\ ALL_READABLE_FIELDS \in Seq(Int) /\ Len(ALL_READABLE_FIELDS) = 18
    /\ AnswerStart(ALL_READABLE_FIELDS, 18) <= APP_PROTO_RESP_MAX
<1>1. ALL_READABLE_FIELDS \in Seq(Int) /\ Len(ALL_READABLE_FIELDS) = 18
  BY DEF ALL_READABLE_FIELDS
<1>2. AnswerStart(ALL_READABLE_FIELDS, 18) \in 3 .. 3 + 10 * 18
  BY <1>1, StartSteps
<1>3. AnswerStart(ALL_READABLE_FIELDS, 18) <= 256
  BY ONLY <1>2
<1> QED BY <1>1, <1>3 DEF APP_PROTO_RESP_MAX

\* The length of the list behind the header of a read, and its start.
LEMMA ListOf ==
    ASSUME NEW data \in Seq(Byte), Len(data) >= 6
    PROVE  LET list == SubSeq(data, 7, Len(data))
           IN  /\ data[6] \in Byte /\ data[6] \in Nat
               /\ list \in Seq(Byte) /\ Len(list) = Len(data) - 6
               /\ \A i \in 1 .. Len(data) - 6 : list[i] = data[6 + i] /\ list[i] \in Int
               /\ \A n \in 0 .. Len(data) - 6 :
                     /\ SubSeq(list, 1, n) = SubSeq(data, 7, 6 + n)
                     /\ SubSeq(data, 7, 6 + n) \in Seq(Int)
                     /\ Len(SubSeq(data, 7, 6 + n)) = n
                     /\ \A i \in 1 .. n : SubSeq(data, 7, 6 + n)[i] = data[6 + i]
<1> DEFINE L == Len(data)
           list == SubSeq(data, 7, L)
<1>1. L \in Nat /\ 6 \in 1 .. L
  OBVIOUS
<1>2. \A k \in 1 .. L : data[k] \in Byte /\ data[k] \in Int
  BY ElementOfSeq, BytesAre
<1>3. data[6] \in Byte /\ data[6] \in Nat
  BY <1>1, <1>2, BytesAre
<1>4. /\ list \in Seq(Byte) /\ Len(list) = IF 7 <= L THEN L - 7 + 1 ELSE 0
      /\ \A i \in 1 .. L - 7 + 1 : list[i] = data[7 + i - 1]
  <2>1. \A k \in 7 .. L : data[k] \in Byte
    BY <1>2
  <2> QED BY <1>1, <2>1, SubSeqProperties
<1>5. Len(list) = L - 6 /\ \A i \in 1 .. L - 6 : list[i] = data[6 + i] /\ list[i] \in Int
  <2>1. Len(list) = L - 6
    <3> HIDE DEF list, L
    <3>1. 7 <= L => L - 7 + 1 = L - 6
      BY ONLY <1>1
    <3>2. ~(7 <= L) => L - 6 = 0
      BY ONLY <1>1
    <3> QED BY ONLY <1>4, <3>1, <3>2
  <2>2. ASSUME NEW i \in 1 .. L - 6 PROVE list[i] = data[6 + i] /\ list[i] \in Int
    <3> HIDE DEF list
    <3>1. i \in 1 .. L - 7 + 1 /\ 7 + i - 1 = 6 + i /\ 6 + i \in 1 .. L
      BY <1>1
    <3>2. list[i] = data[7 + i - 1] /\ data[6 + i] \in Int
      BY <1>2, <1>4, <3>1
    <3> QED BY <3>1, <3>2
  <2> QED BY <2>1, <2>2
<1>6. ASSUME NEW n \in 0 .. L - 6
      PROVE  /\ SubSeq(list, 1, n) = SubSeq(data, 7, 6 + n)
             /\ SubSeq(data, 7, 6 + n) \in Seq(Int)
             /\ Len(SubSeq(data, 7, 6 + n)) = n
             /\ \A i \in 1 .. n : SubSeq(data, 7, 6 + n)[i] = data[6 + i]
  <2> DEFINE s == SubSeq(list, 1, n)
             t == SubSeq(data, 7, 6 + n)
  <2> HIDE DEF L, list
  <2>1. n \in Nat /\ 6 + n \in Int
    BY <1>1
  <2>2. (\A k \in 7 .. 6 + n : data[k] \in Int) /\ (\A k \in 1 .. n : list[k] \in Int)
    BY <1>1, <1>2, <1>5, <2>1
  <2>3. /\ t \in Seq(Int) /\ Len(t) = IF 7 <= 6 + n THEN 6 + n - 7 + 1 ELSE 0
        /\ \A i \in 1 .. 6 + n - 7 + 1 : t[i] = data[7 + i - 1]
    BY <2>1, <2>2, SubSeqProperties
  <2>4. /\ s \in Seq(Int) /\ Len(s) = IF 1 <= n THEN n - 1 + 1 ELSE 0
        /\ \A i \in 1 .. n - 1 + 1 : s[i] = list[1 + i - 1]
    BY <2>1, <2>2, SubSeqProperties
  <2> HIDE DEF s, t
  <2>5. Len(t) = n /\ \A i \in 1 .. n : t[i] = data[6 + i]
    BY <2>1, <2>3
  <2>6. Len(s) = n /\ \A i \in 1 .. n : s[i] = data[6 + i]
    BY <1>1, <1>5, <2>1, <2>4
  <2>7. s = t
    BY <2>3, <2>4, <2>5, <2>6, SeqEqual
  <2> QED BY <2>3, <2>5, <2>7 DEF s, t
<1> QED BY <1>3, <1>4, <1>5, <1>6

\* What handle_cmd_read() makes of a command.
LEMMA ReadHandled ==
    ASSUME RegistryTyped, NEW data \in Seq(Byte), Len(data) >= 6
    PROVE  LET r == handle_cmd_read(data)
               ids == AskedIn(data)
               bad == {i \in 1 .. data[6] : FieldOf(data[6 + i]) \notin ReadableField}
           IN  /\ r.bytes \in Seq(Int) /\ r.bytes[2] = STATUS[r.status]
               /\ r.status = IF data[6] = 0 THEN "OK"
                             ELSE IF data[6] > (Len(data) - 6) % 256 THEN "PARAM_LEN"
                             ELSE IF bad # {} THEN "UNSUPPORTED"
                             ELSE IF AnswerStart(ids, data[6]) > APP_PROTO_RESP_MAX
                                  THEN "UNKNOWN" ELSE "OK"
               /\ data[6] # 0 /\ data[6] <= (Len(data) - 6) % 256 =>
                     /\ data[6] \in 0 .. Len(data) - 6
                     /\ Len(ids) = data[6]
                     /\ \A i \in 1 .. data[6] : ids[i] = data[6 + i]
               /\ r.status = "OK" => /\ ids \in Seq(Int)
                                     /\ AnswerStart(ids, Len(ids)) <= APP_PROTO_RESP_MAX
                                     /\ r.bytes = AppendFields(ids, Len(ids))
<1> DEFINE L == Len(data) - 6
           c == data[6]
           list == SubSeq(data, 7, Len(data))
           ids == AskedIn(data)
           r == handle_cmd_read(data)
           bad == {i \in 1 .. c : FieldOf(data[6 + i]) \notin ReadableField}
           worse == {i \in 1 .. c : FieldOf(list[i]) \notin ReadableField}
<1>1. /\ L \in Nat /\ c \in Nat /\ list \in Seq(Byte) /\ Len(list) = L
      /\ \A i \in 1 .. L : list[i] = data[6 + i] /\ list[i] \in Int
  BY ListOf
<1>2. \A m \in Nat : m % 256 <= m /\ m % 256 \in Nat
  OBVIOUS
<1>3. r = IF c = 0 THEN ReadFields(ALL_READABLE_FIELDS)
          ELSE IF c > L % 256 THEN ReadError("PARAM_LEN", 0)
          ELSE IF worse # {} THEN ReadError("UNSUPPORTED", list[Min(worse)])
          ELSE ReadFields(SubSeq(list, 1, c))
  BY <1>1 DEF handle_cmd_read
<1>4. ids = IF c = 0 THEN ALL_READABLE_FIELDS ELSE SubSeq(data, 7, 6 + c)
  BY DEF AskedIn
<1> DEFINE Sound == /\ r.bytes \in Seq(Int) /\ r.bytes[2] = STATUS[r.status]
                    /\ r.status = IF c = 0 THEN "OK"
                                  ELSE IF c > L % 256 THEN "PARAM_LEN"
                                  ELSE IF bad # {} THEN "UNSUPPORTED"
                                  ELSE IF AnswerStart(ids, c) > APP_PROTO_RESP_MAX
                                       THEN "UNKNOWN" ELSE "OK"
                    /\ c # 0 /\ c <= L % 256 =>
                          /\ c \in 0 .. L /\ Len(ids) = c
                          /\ \A i \in 1 .. c : ids[i] = data[6 + i]
                    /\ r.status = "OK" => /\ ids \in Seq(Int)
                                          /\ AnswerStart(ids, Len(ids)) <= APP_PROTO_RESP_MAX
                                          /\ r.bytes = AppendFields(ids, Len(ids))
<1> HIDE DEF c, r, ids
<1>5. ASSUME c = 0 PROVE Sound
  <2>1. r = ReadFields(ALL_READABLE_FIELDS) /\ ids = ALL_READABLE_FIELDS
    BY <1>3, <1>4, <1>5
  <2>2. AnswerStart(ids, 18) \in Int /\ APP_PROTO_RESP_MAX \in Int
    <3>1. 18 \in Nat /\ APP_PROTO_RESP_MAX \in Int
      BY DEF APP_PROTO_RESP_MAX
    <3> QED BY Zenon, <2>1, <3>1, AllFields, StartSteps
  <2>3. /\ ids \in Seq(Int) /\ Len(ids) = 18
        /\ ~(AnswerStart(ids, Len(ids)) > APP_PROTO_RESP_MAX)
        /\ AnswerStart(ids, Len(ids)) <= APP_PROTO_RESP_MAX
    BY <2>1, <2>2, AllFields
  <2>4. Len(ids) >= 1
    BY <2>3
  <2>5. /\ r.bytes \in Seq(Int) /\ r.bytes[2] = STATUS[r.status]
        /\ r.status = "OK" /\ r.bytes = AppendFields(ids, Len(ids))
    BY <2>1, <2>3, <2>4, FieldsAnswered
  <2> QED BY <1>5, <2>3, <2>5
<1>6. ASSUME c # 0, c > L % 256 PROVE Sound
  <2>1. r = [status |-> "PARAM_LEN", bytes |-> <<1, 5, 0>>]
    BY <1>3, <1>6 DEF ReadError, STATUS
  <2>2. r.status = "PARAM_LEN" /\ r.bytes = <<1, 5, 0>>
    BY <2>1
  <2>3. ~(c <= L % 256)
    BY <1>1, <1>2, <1>6
  <2> QED BY <1>6, <2>2, <2>3 DEF STATUS
<1>7. ASSUME c # 0, ~(c > L % 256) PROVE Sound
  <2>1. c <= L /\ c \in 0 .. L /\ c >= 1
    BY <1>1, <1>2, <1>7
  <2>2. /\ ids = SubSeq(data, 7, 6 + c) /\ SubSeq(list, 1, c) = ids
        /\ ids \in Seq(Int) /\ Len(ids) = c /\ \A i \in 1 .. c : ids[i] = data[6 + i]
    BY <1>4, <1>7, <2>1, ListOf
  <2>3. bad = worse
    BY <1>1, <2>1
  <2>4. CASE bad # {}
    <3>1. worse \subseteq 1 .. c /\ worse # {}
      BY <2>3, <2>4
    <3>2. Min(worse) \in 1 .. c
      <4> HIDE DEF worse
      <4> QED BY <1>1, <3>1, FirstPosition
    <3> DEFINE m == Min(worse)
               b == list[m]
    <3>3. b \in Int
      <4> HIDE DEF L, m, list
      <4>1. m \in 1 .. L
        BY ONLY <1>1, <2>1, <3>2 DEF m
      <4> QED BY Zenon, <1>1, <4>1
    <3> HIDE DEF b
    <3>4. r = [status |-> "UNSUPPORTED", bytes |-> <<1, 1, b>>]
      BY <1>3, <1>7, <3>1 DEF ReadError, STATUS, b
    <3>5. r.status = "UNSUPPORTED" /\ r.bytes = <<1, 1, b>>
      BY <3>4
    <3> QED BY <1>7, <2>1, <2>2, <2>4, <3>3, <3>5 DEF STATUS
  <2>5. CASE bad = {}
    <3>1. r = ReadFields(ids)
      BY <1>3, <1>7, <2>2, <2>3, <2>5
    <3>2. /\ r.bytes \in Seq(Int) /\ r.bytes[2] = STATUS[r.status]
          /\ r.status = IF AnswerStart(ids, c) > APP_PROTO_RESP_MAX THEN "UNKNOWN" ELSE "OK"
          /\ r.status = "OK" => r.bytes = AppendFields(ids, Len(ids))
      BY <2>1, <2>2, <3>1, FieldsAnswered
    <3>3. AnswerStart(ids, c) \in Int /\ APP_PROTO_RESP_MAX \in Int
      <4>1. APP_PROTO_RESP_MAX \in Int
        BY DEF APP_PROTO_RESP_MAX
      <4> QED BY Zenon, <1>1, <2>2, <4>1, StartSteps
    <3>4. r.status = "OK" => AnswerStart(ids, Len(ids)) <= APP_PROTO_RESP_MAX
      BY <2>2, <3>2, <3>3
    <3> QED BY <1>7, <2>1, <2>2, <2>5, <3>2, <3>4
  <2> QED BY <2>4, <2>5
<1>8. Sound
  BY <1>5, <1>6, <1>7
<1> QED BY <1>8 DEF c, r, ids

\* The peer reads the registry's numbers behind each offset.
LEMMA ReadDecodes ==
    ASSUME RegistryTyped, RegistryFits, NEW data \in Seq(Byte), Len(data) >= 6,
           handle_cmd_read(data).status = "OK"
    PROVE  LET bytes == handle_cmd_read(data).bytes
               ids == AskedIn(data)
           IN  /\ Len(bytes) <= APP_PROTO_RESP_MAX
               /\ bytes[3] = Len(ids)
               /\ Len(bytes) = AnswerStart(ids, Len(ids))
               /\ \A i \in 1 .. Len(ids) : AnswersField(bytes, AnswerStart(ids, i - 1), ids[i])
<1> DEFINE bytes == handle_cmd_read(data).bytes
           ids == AskedIn(data)
           n == Len(ids)
<1>1. /\ ids \in Seq(Int) /\ AnswerStart(ids, n) <= APP_PROTO_RESP_MAX
      /\ bytes = AppendFields(ids, n) /\ bytes \in Seq(Int)
  BY ReadHandled
<1>2. n \in 0 .. n /\ n \in Nat
  BY <1>1
<1>3. AnswerHolds(ids, n)
  BY <1>1, <1>2, Appended
<1> HIDE DEF bytes, ids
<1>4. /\ Len(bytes) = AnswerStart(ids, n) /\ bytes[3] = n
      /\ \A i \in 1 .. n : HasField(bytes, AnswerStart(ids, i - 1), ids[i])
  BY <1>1, <1>3 DEF AnswerHolds
<1>5. ASSUME NEW i \in 1 .. n PROVE AnswersField(bytes, AnswerStart(ids, i - 1), ids[i])
  <2> DEFINE s == AnswerStart(ids, i - 1)
             fid == FieldOf(ids[i])
             len == field_value_len(fid)
             v == app_field_get(fid)
             t == SubSeq(bytes, s + 3, s + 2 + len)
  <2>1. s \in Nat /\ len \in Nat
    <3>1. i - 1 \in Nat
      BY <1>2
    <3>2. s \in 3 .. 3 + 10 * (i - 1)
      BY <1>1, <3>1, StartSteps
    <3>3. len \in 0 .. 8
      BY LengthBound
    <3> QED BY <3>1, <3>2, <3>3
  <2>2. s + 2 + len <= Len(bytes)
    BY <1>1, <1>2, <1>4, StartSteps
  <2>3. v \in Seq(Int) /\ Len(v) = len
    BY FieldLengths DEF RegistryTyped
  <2>4. /\ bytes[s + 1] = ids[i] /\ bytes[s + 2] = len
        /\ \A k \in 1 .. len : bytes[s + 2 + k] = v[k]
    BY <1>4 DEF HasField
  <2>5. Numbers(fid, v) = InRegistry(fid)
    BY NumbersRead
  <2> HIDE DEF s, fid, len, v
  <2>6. t = v
    <3>1. \A k \in s + 3 .. s + 2 + len : bytes[k] \in Int
      <4> SUFFICES ASSUME NEW k \in s + 3 .. s + 2 + len PROVE bytes[k] \in Int
        OBVIOUS
      <4>1. k \in 1 .. Len(bytes)
        BY <1>1, <2>1, <2>2
      <4> QED BY <1>1, <4>1, ElementOfSeq
    <3>2. s + 3 \in Int /\ s + 2 + len \in Int
      BY <2>1
    <3>3. /\ t \in Seq(Int)
          /\ Len(t) = IF s + 3 <= s + 2 + len THEN (s + 2 + len) - (s + 3) + 1 ELSE 0
          /\ \A k \in 1 .. (s + 2 + len) - (s + 3) + 1 : t[k] = bytes[s + 3 + k - 1]
      BY SMTT(60), <3>1, <3>2, SubSeqProperties
    <3> HIDE DEF t
    <3>4. Len(t) = len
      BY <2>1, <3>3
    <3>5. ASSUME NEW k \in 1 .. len PROVE t[k] = v[k]
      <4>1. k \in 1 .. (s + 2 + len) - (s + 3) + 1 /\ s + 3 + k - 1 = s + 2 + k
        BY <2>1
      <4> QED BY <2>4, <3>3, <4>1
    <3> QED BY <2>3, <3>3, <3>4, <3>5, SeqEqual
  <2> QED BY <2>4, <2>5, <2>6 DEF AnswersField, s, fid, len
<1> QED BY <1>1, <1>4, <1>5 DEF bytes, ids

\* The bytes of a read are judged as the request they carry, and bring its time.
LEMMA ReadJudged ==
    ASSUME RegistryTyped, NEW data \in Seq(Byte), NEW r \in ReadReqs, CarriesRead(data, r)
    PROVE  /\ Len(data) >= 6
           /\ handle_cmd_read(data).status = ReadStatus(r)
           /\ get_u32_be(SubSeq(data, 2, 5)) = r.ts
<1> DEFINE c == r.count
           ids == AskedIn(data)
           fields == [i \in 1 .. Len(ids) |-> FieldOf(ids[i])]
           bad == {i \in 1 .. c : FieldOf(data[6 + i]) \notin ReadableField}
<1>1. /\ Len(r.fields) \in Nat /\ Len(data) = 6 + Len(r.fields) /\ Len(data) >= 6
      /\ Len(data) - 6 = Len(r.fields) /\ data[6] = c
      /\ \A i \in 1 .. Len(r.fields) : FieldOf(data[6 + i]) = r.fields[i]
  BY RequestAssumption DEF CarriesRead
<1>2. c \in Nat
  BY <1>1, ListOf
<1>3. handle_cmd_read(data).status = IF c = 0 THEN "OK"
                                     ELSE IF c > Len(r.fields) % 256 THEN "PARAM_LEN"
                                     ELSE IF bad # {} THEN "UNSUPPORTED"
                                     ELSE IF AnswerStart(ids, c) > APP_PROTO_RESP_MAX
                                          THEN "UNKNOWN" ELSE "OK"
  BY <1>1, ReadHandled
<1>4. c # 0 /\ c <= Len(r.fields) % 256 =>
         /\ c <= Len(r.fields) /\ Len(ids) = c /\ \A i \in 1 .. c : ids[i] = data[6 + i]
  <2>1. data[6] # 0 /\ data[6] <= (Len(data) - 6) % 256 =>
           /\ data[6] \in 0 .. Len(data) - 6
           /\ Len(ids) = data[6] /\ \A i \in 1 .. data[6] : ids[i] = data[6 + i]
    BY Zenon, <1>1, ReadHandled
  <2> DEFINE L == Len(data) - 6
  <2> HIDE DEF ids
  <2>2. L = Len(r.fields) /\ data[6] = c /\ L \in Nat
    BY ONLY <1>1
  <2> HIDE DEF L
  <2>3. c \in 0 .. L => c <= L
    BY ONLY <2>2
  <2> QED BY ONLY <2>1, <2>2, <2>3 DEF L
<1>5. handle_cmd_read(data).status = ReadStatus(r)
  <2> HIDE DEF ids
  <2>1. CASE c = 0 \/ c > Len(r.fields) % 256
    BY <1>3, <2>1 DEF ReadStatus
  <2>2. CASE ~(c = 0 \/ c > Len(r.fields) % 256)
    <3>1. c <= Len(r.fields) /\ Len(ids) = c /\ \A i \in 1 .. c : ids[i] = data[6 + i]
      <4> DEFINE m == Len(r.fields) % 256
      <4>1. m \in Nat
        <5>1. \A k \in Nat : k % 256 \in Nat
          OBVIOUS
        <5> QED BY Zenon, <1>1, <5>1
      <4> HIDE DEF m
      <4>2. c <= m
        <5>1. \A a, b \in Nat : ~(a > b) => a <= b
          OBVIOUS
        <5> QED BY Zenon, <1>2, <2>2, <4>1, <5>1 DEF m
      <4> QED BY Zenon, <1>4, <2>2, <4>2 DEF m
    <3>2. \A i \in 1 .. c : FieldOf(data[6 + i]) = r.fields[i]
      BY <1>1, <1>2, <3>1
    <3>3. bad # {} <=> \E i \in 1 .. c : r.fields[i] \notin ReadableField
      BY <3>2
    <3>4. AnswerStart(ids, c) = AnswerLen(r.fields, c)
      <4>1. \A i \in 1 .. c : fields[i] = r.fields[i]
        BY <3>1, <3>2
      <4>2. AnswerStart(ids, c) = AnswerLen(fields, c)
        BY DEF AnswerStart
      <4> HIDE DEF fields
      <4> QED BY <1>2, <4>1, <4>2, SameLength
    <3> QED BY <1>3, <2>2, <3>3, <3>4 DEF ReadStatus, ReadLen
  <2> QED BY <2>1, <2>2
<1>6. get_u32_be(SubSeq(data, 2, 5)) = r.ts
  <2> DEFINE s == SubSeq(data, 2, 5)
  <2>1. s[1] = data[2] /\ s[2] = data[3] /\ s[3] = data[4] /\ s[4] = data[5]
    BY <1>1
  <2>2. data[2] \in Byte /\ data[3] \in Byte /\ data[4] \in Byte /\ data[5] \in Byte
    BY <1>1, ElementOfSeq
  <2>3. r.ts = ((data[2] * 256 + data[3]) * 256 + data[4]) * 256 + data[5]
    BY DEF CarriesRead
  <2> HIDE DEF s
  <2>4. get_u32_be(s) = data[2] * POW_24 + data[3] * 65536 + data[4] * 256 + data[5]
    BY <2>1 DEF get_u32_be
  <2>5. \A w, x, y, z \in Byte : w * POW_24 + x * 65536 + y * 256 + z
                                   = ((w * 256 + x) * 256 + y) * 256 + z
    BY DEF POW_24, Byte
  <2> QED BY ONLY <2>2, <2>3, <2>4, <2>5 DEF s
<1> QED BY <1>1, <1>5, <1>6
-----------------------------------------------------------------------------
(* The answer's record.                                                     *)

\* A reader of the tag finds an answer of less than 256 bytes behind its header.
LEMMA RecordReads ==
    ASSUME MSG_MAX >= 274, MSG_MAX \in Nat, NEW bytes \in Seq(Int), Len(bytes) < 256
    PROVE  ReadInfo(ndef_encode_response(bytes)) = bytes
<1> DEFINE head == <<212, 16, Len(bytes)>>
           n == Len(bytes)
           msg == head \o INFO_TYPE \o bytes
<1>1. n \in Nat /\ n % 256 = n
  OBVIOUS
<1>2. INFO_TYPE \in Seq(Int) /\ Len(INFO_TYPE) = 16
  BY DEF INFO_TYPE
<1>3. ndef_encode_response(bytes) = msg
  <2>1. ~(3 + Len(INFO_TYPE) + n > MSG_MAX)
    BY <1>1, <1>2
  <2>2. <<128 + 64 + 16 + 4, Len(INFO_TYPE), n % 256>> = head
    BY <1>1, <1>2
  <2> HIDE DEF head
  <2> QED BY Zenon, <2>1, <2>2 DEF ndef_encode_response
<1>4. head \in Seq(Int) /\ Len(head) = 3 /\ head[1] = 212 /\ head[2] = 16 /\ head[3] = n
  OBVIOUS
<1> DEFINE front == head \o INFO_TYPE
<1> HIDE DEF head
<1>5. /\ front \in Seq(Int) /\ Len(front) = 19
      /\ front[2] = 16 /\ front[3] = n
      /\ \A i \in 1 .. 16 : front[3 + i] = INFO_TYPE[i]
  <2>1. head \in Seq(Int) /\ INFO_TYPE \in Seq(Int)
    BY <1>2, <1>4
  <2>2. /\ front \in Seq(Int) /\ Len(front) = Len(head) + Len(INFO_TYPE)
        /\ \A j \in 1 .. Len(head) : front[j] = head[j]
        /\ \A j \in 1 .. Len(INFO_TYPE) : front[Len(head) + j] = INFO_TYPE[j]
    BY ONLY <2>1, Joined
  <2> HIDE DEF front
  <2> QED BY ONLY <1>2, <1>4, <2>2
<1>6. msg = front \o bytes
  OBVIOUS
<1> HIDE DEF front, msg
<1>7. /\ msg \in Seq(Int) /\ Len(msg) = 19 + n
      /\ \A j \in 1 .. 19 : msg[j] = front[j]
      /\ \A j \in 1 .. n : msg[19 + j] = bytes[j]
  <2>1. front \in Seq(Int) /\ bytes \in Seq(Int)
    BY <1>5
  <2>2. /\ msg \in Seq(Int) /\ Len(msg) = Len(front) + Len(bytes)
        /\ \A j \in 1 .. Len(front) : msg[j] = front[j]
        /\ \A j \in 1 .. Len(bytes) : msg[Len(front) + j] = bytes[j]
    BY ONLY <1>6, <2>1, Joined
  <2> HIDE DEF n
  <2>3. Len(front) = 19 /\ Len(bytes) = n
    BY <1>5 DEF n
  <2> QED BY Zenon, <2>2, <2>3
<1>8. msg[2] = 16 /\ msg[3] = n /\ \A i \in 1 .. 16 : msg[3 + i] = INFO_TYPE[i]
  <2>1. 2 \in 1 .. 19 /\ 3 \in 1 .. 19 /\ \A i \in 1 .. 16 : 3 + i \in 1 .. 19
    OBVIOUS
  <2> QED BY Zenon, <1>5, <1>7, <2>1
<1>9. SubSeq(msg, 4, 19) = INFO_TYPE
  <2> DEFINE t == SubSeq(msg, 4, 19)
  <2>1. \A k \in 4 .. 19 : msg[k] \in Int
    <3> SUFFICES ASSUME NEW k \in 4 .. 19 PROVE msg[k] \in Int
      OBVIOUS
    <3> HIDE DEF n
    <3>1. Len(msg) = 19 + n /\ n \in Nat
      BY Zenon, <1>1, <1>7
    <3>2. k \in 1 .. Len(msg)
      BY ONLY <3>1
    <3> QED BY <1>7, <3>2, ElementOfSeq
  <2>2. /\ t \in Seq(Int) /\ Len(t) = 16
        /\ \A i \in 1 .. 16 : t[i] = msg[4 + i - 1]
    BY <2>1, SubSeqProperties
  <2> HIDE DEF t
  <2>3. \A i \in 1 .. 16 : t[i] = INFO_TYPE[i]
    <3>1. ASSUME NEW i \in 1 .. 16 PROVE 4 + i - 1 = 3 + i
      OBVIOUS
    <3> QED BY Zenon, <1>8, <2>2, <3>1
  <2>4. Len(t) = Len(INFO_TYPE) /\ \A i \in 1 .. Len(t) : t[i] = INFO_TYPE[i]
    BY <1>2, <2>2, <2>3
  <2> QED BY <1>2, <2>2, <2>4, SeqEqual DEF t
<1>10. SubSeq(msg, 20, 19 + n) = bytes
  <2> DEFINE t == SubSeq(msg, 20, 19 + n)
  <2>1. \A k \in 20 .. 19 + n : msg[k] \in Int
    <3> SUFFICES ASSUME NEW k \in 20 .. 19 + n PROVE msg[k] \in Int
      OBVIOUS
    <3> HIDE DEF n
    <3>1. Len(msg) = 19 + n /\ n \in Nat
      BY Zenon, <1>1, <1>7
    <3>2. k \in 1 .. Len(msg)
      BY ONLY <3>1
    <3> QED BY <1>7, <3>2, ElementOfSeq
  <2>2. /\ t \in Seq(Int) /\ Len(t) = IF 20 <= 19 + n THEN 19 + n - 20 + 1 ELSE 0
        /\ \A i \in 1 .. 19 + n - 20 + 1 : t[i] = msg[20 + i - 1]
    BY <1>1, <2>1, SubSeqProperties
  <2> HIDE DEF t
  <2>3. Len(t) = n /\ \A i \in 1 .. n : t[i] = bytes[i]
    <3> HIDE DEF n
    <3>1. n \in Nat
      BY Zenon, <1>1
    <3>2. Len(t) = n
      BY ONLY <2>2, <3>1
    <3>3. ASSUME NEW i \in 1 .. n PROVE t[i] = bytes[i]
      <4>1. i \in 1 .. 19 + n - 20 + 1 /\ 20 + i - 1 = 19 + i
        BY ONLY <3>1
      <4> QED BY Zenon, <1>7, <2>2, <4>1
    <3> QED BY <3>2, <3>3
  <2> QED BY <2>2, <2>3, SeqEqual DEF t
<1>11. msg # <<>>
  BY <1>1, <1>7
<1> DEFINE m == ndef_encode_response(bytes)
<1>12. m = msg
  BY <1>3
<1> HIDE DEF m
<1>13. /\ m # <<>> /\ Len(m) = 3 + m[2] + m[3] /\ SubSeq(m, 4, 3 + m[2]) = INFO_TYPE
       /\ SubSeq(m, 4 + m[2], Len(m)) = bytes
  <2> HIDE DEF n
  <2>1. 3 + 16 = 19 /\ 4 + 16 = 20 /\ 3 + 16 + n = 19 + n
    BY <1>1
  <2> QED BY Zenon, <1>7, <1>8, <1>9, <1>10, <1>11, <1>12, <2>1
<1>14. ReadInfo(m) = bytes
  BY <1>13 DEF ReadInfo
<1> QED BY <1>14 DEF m
=============================================================================
