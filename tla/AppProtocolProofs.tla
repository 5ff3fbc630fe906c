------------------------- MODULE AppProtocolProofs -------------------------
(* Proofs about AppProtocol, for every value of its constants.              *)
EXTENDS AppProtocol, WellFoundedInduction, TLAPS

(* What a step does to the authentication state.  Most commands are quiet:  *)
(* they reply, and at most forget an expired NFC session.                   *)
Quiet ==
    /\ UNCHANGED <<nonce, nonce_valid, issued, ble_unlocked, uptime, proved, spent>>
    /\ nfc_auth_until' \in {nfc_auth_until, 0}

\* The replies that say nothing about the authentication state leave the
\* observer's knowledge of it alone.
LEMMA QuietReply ==
    ASSUME NEW ch, NEW cmd, NEW status, Reply(ch, cmd, status),
           cmd \notin {"TOKEN", "LOCK", "DISCONNECT", "REBOOT"},
           status # "AUTH_FAILED"
    PROVE  UNCHANGED <<proved, spent>>
  BY DEF Reply

\* Validation and session checks never answer AUTH_FAILED.
LEMMA Statuses ==
    /\ \A ch : app_auth_check_write(ch) \in {"OK", "AUTH_REQUIRED", "AUTH_EXPIRED"}
    /\ \A r : ReadStatus(r) # "AUTH_FAILED"
    /\ \A q : WriteStatus(q) # "AUTH_FAILED"
<1>1. \A ch : app_auth_check_write(ch) \in {"OK", "AUTH_REQUIRED", "AUTH_EXPIRED"}
  BY DEF app_auth_check_write
<1>2. \A r : ReadStatus(r) # "AUTH_FAILED"
  BY DEF ReadStatus
<1>3. \A t : app_field_validate(t) # "AUTH_FAILED"
  BY DEF app_field_validate
<1>4. \A q : WriteStatus(q) # "AUTH_FAILED"
  BY <1>3 DEF WriteStatus
<1> QED BY <1>1, <1>2, <1>4

\* Every step is one of the six that move the authentication state, or quiet.
LEMMA Steps ==
    ASSUME [Next]_vars
    PROVE  \/ \E ch \in Channel : NonceCmd(ch) /\ UNCHANGED uptime
           \/ \E ch \in Channel, token \in Token :
                 TokenJudged(ch, token) /\ UNCHANGED uptime
           \/ \E ch \in Channel : LockCmd(ch) /\ UNCHANGED uptime
           \/ Disconnect
           \/ Tick
           \/ Reboot
           \/ Quiet
<1>1. CASE UNCHANGED vars
  BY <1>1 DEF vars, authVars, observed, Quiet
<1>2. ASSUME NEW ch \in Channel, app_auth_handle_cmd(ch), UNCHANGED uptime
      PROVE  \/ NonceCmd(ch)
             \/ \E token \in Token : TokenJudged(ch, token)
             \/ LockCmd(ch)
             \/ Quiet
  <2>1. CASE TokenRefused(ch)
    BY <1>2, <2>1 DEF TokenRefused, Reply, authVars, Quiet
  <2>2. ASSUME NEW hash \in Hash, ChangePwd(ch, hash) PROVE Quiet
    BY <1>2, <2>2 DEF ChangePwd, Reply, Quiet
  <2>3. CASE ChangePwdRefused(ch)
    BY <1>2, <2>3, Statuses DEF ChangePwdRefused, AfterCheck, Reply, Quiet
  <2>4. CASE AuthUnsupported(ch)
    BY <1>2, <2>4 DEF AuthUnsupported, Reply, authVars, Quiet
  <2> QED BY <1>2, <2>1, <2>2, <2>3, <2>4 DEF app_auth_handle_cmd
<1>3. ASSUME NEW ch \in Channel, NEW r \in ReadReqs, Read(ch, r) PROVE Quiet
  BY <1>3, Statuses, QuietReply DEF Read, authVars, Quiet
<1>4. ASSUME NEW ch \in Channel, NEW q \in WriteReqs,
             Write(ch, q) \/ WriteInvalid(ch, q) \/ WriteDenied(ch, q)
      PROVE  Quiet
  <2>1. CASE Write(ch, q)
    BY <2>1, QuietReply DEF Write, authVars, Quiet
  <2>2. CASE WriteInvalid(ch, q)
    BY <2>2, Statuses, QuietReply DEF WriteInvalid, authVars, Quiet
  <2>3. CASE WriteDenied(ch, q)
    BY <2>3, Statuses, QuietReply DEF WriteDenied, AfterCheck, Quiet
  <2> QED BY <1>4, <2>1, <2>2, <2>3
<1>5. ASSUME NEW ch \in Channel,
             PowerOn(ch) \/ PowerOff(ch) \/ FactoryReset(ch) \/ ActionDenied(ch)
                \/ Malformed(ch)
      PROVE  Quiet
  <2>1. CASE PowerOn(ch) \/ PowerOff(ch)
    BY <2>1, QuietReply DEF PowerOn, PowerOff, authVars, Quiet
  <2>2. CASE FactoryReset(ch)
    BY <2>2, QuietReply DEF FactoryReset, Quiet
  <2>3. CASE ActionDenied(ch)
    BY <2>3, Statuses, QuietReply DEF ActionDenied, AfterCheck, Quiet
  <2>4. CASE Malformed(ch)
    BY <2>4, QuietReply DEF Malformed, authVars, Quiet
  <2> QED BY <1>5, <2>1, <2>2, <2>3, <2>4
<1>6. ASSUME NEW s \in ShellSets, ShellSet(s[1], s[2]) PROVE Quiet
  BY <1>6, QuietReply DEF ShellSet, authVars, Quiet
<1>7. CASE ShellGet
  BY <1>7, QuietReply DEF ShellGet, authVars, Quiet
<1> QED BY <1>1, <1>2, <1>3, <1>4, <1>5, <1>6, <1>7 DEF Next, process_app_payload
-----------------------------------------------------------------------------
(* Type correctness.                                                        *)

\* The constants' assumptions, and the parts of the type of the authentication
\* state that the steps are proved to keep.
LEMMA InitTyped == Init => AuthTypeOK /\ FieldsTypeOK
<1>1. Init => password_hash \in Hash /\ ble_unlocked \in BOOLEAN
  BY HashAssumption DEF Init, AuthInit
<1>2. Init => nonce \in [Channel -> Nonce] /\ issued \in Nonce /\ spent \subseteq Nonce
  BY BoundAssumption DEF Init, AuthInit, Nonce
<1>3. Init => nonce_valid \in [Channel -> BOOLEAN]
  BY DEF Init, AuthInit
<1>4. Init => /\ nfc_auth_until \in 0 .. (MaxUptime + NFC_AUTH_WINDOW_MS)
              /\ uptime \in 0 .. MaxUptime
              /\ proved \in [Channel -> -1 .. MaxUptime]
  BY BoundAssumption, WindowAssumption DEF Init, AuthInit, Never
<1>5. Defaults \in [Stored -> Int]
  BY DEF Defaults, Stored, Sensor, Config
<1>6. Init => device_state \in DeviceState /\ factory_init_done \in BOOLEAN
  BY DEF Init, FieldsInit, DeviceState
<1>7. Init => g \in [Stored -> Int] /\ unixtime \in Nat
  BY <1>5 DEF Init, FieldsInit
<1> QED BY <1>1, <1>2, <1>3, <1>4, <1>6, <1>7 DEF AuthTypeOK, FieldsTypeOK

\* No command and no event leaves the authentication types.
LEMMA AuthTypeStep ==
    ASSUME AuthTypeOK, [Next]_vars, password_hash' \in Hash
    PROVE  AuthTypeOK'
<1> USE BoundAssumption, WindowAssumption, HashAssumption
    DEF AuthTypeOK, Nonce, Never
<1>1. ASSUME NEW ch \in Channel, NonceCmd(ch), UNCHANGED uptime PROVE AuthTypeOK'
  BY <1>1 DEF NonceCmd, Reply
<1>2. ASSUME NEW ch \in Channel, NEW token \in Token, TokenJudged(ch, token),
             UNCHANGED uptime
      PROVE  AuthTypeOK'
  <2>1. CASE token = Hmac(password_hash, nonce[ch])
    <3>1. /\ ble_unlocked' \in BOOLEAN
          /\ nonce_valid' = [nonce_valid EXCEPT ![ch] = FALSE]
      BY <1>2, <2>1 DEF TokenJudged, channel_unlock
    <3>2. nfc_auth_until' \in 0 .. (MaxUptime + NFC_AUTH_WINDOW_MS)
      BY <1>2, <2>1 DEF TokenJudged, channel_unlock
    <3>3. proved' \in [Channel -> -1 .. MaxUptime] /\ spent' \subseteq Nonce
      BY <1>2, <2>1 DEF TokenJudged, Reply
    <3> QED BY <1>2, <3>1, <3>2, <3>3 DEF TokenJudged
  <2>2. CASE token # Hmac(password_hash, nonce[ch])
    <3>1. /\ ble_unlocked' \in BOOLEAN
          /\ nonce_valid' = [nonce_valid EXCEPT ![ch] = FALSE]
      BY <1>2, <2>2 DEF TokenJudged, channel_lock
    <3>2. nfc_auth_until' \in 0 .. (MaxUptime + NFC_AUTH_WINDOW_MS)
      BY <1>2, <2>2 DEF TokenJudged, channel_lock
    <3>3. proved' \in [Channel -> -1 .. MaxUptime] /\ spent' \subseteq Nonce
      BY <1>2, <2>2 DEF TokenJudged, Reply
    <3> QED BY <1>2, <3>1, <3>2, <3>3 DEF TokenJudged
  <2> QED BY <2>1, <2>2
<1>3. ASSUME NEW ch \in Channel, LockCmd(ch), UNCHANGED uptime PROVE AuthTypeOK'
  BY <1>3 DEF LockCmd, channel_lock, Reply
<1>4. CASE Disconnect
  <2>1. "BLE" \in Channel
    BY DEF Channel
  <2>2. nonce_valid' \in [Channel -> BOOLEAN] /\ ble_unlocked' \in BOOLEAN
    BY <1>4 DEF Disconnect, app_auth_ble_disconnect
  <2>3. proved' \in [Channel -> -1 .. MaxUptime] /\ spent' \subseteq Nonce
    BY <1>4, <2>1 DEF Disconnect, app_auth_ble_disconnect, Reply
  <2> QED BY <1>4, <2>2, <2>3 DEF Disconnect, app_auth_ble_disconnect
<1>5. CASE Tick
  <2>1. UNCHANGED <<proved, spent>>
    BY <1>5, QuietReply DEF Tick
  <2>2. uptime' \in 0 .. MaxUptime
    BY <1>5 DEF Tick
  <2> QED BY <1>5, <2>1, <2>2 DEF Tick, authVars
<1>6. CASE Reboot
  <2>1. nonce' \in [Channel -> Nonce] /\ issued' \in Nonce
    BY <1>6 DEF Reboot, AuthRestart
  <2>2. nonce_valid' \in [Channel -> BOOLEAN] /\ ble_unlocked' \in BOOLEAN
    BY <1>6 DEF Reboot, AuthRestart
  <2>3. /\ nfc_auth_until' \in 0 .. (MaxUptime + NFC_AUTH_WINDOW_MS)
        /\ uptime' \in 0 .. MaxUptime
    BY <1>6 DEF Reboot, AuthRestart
  <2>4. proved' \in [Channel -> -1 .. MaxUptime] /\ spent' \subseteq Nonce
    BY <1>6 DEF Reboot, Reply
  <2> QED BY <2>1, <2>2, <2>3, <2>4
<1>7. CASE Quiet
  BY <1>7 DEF Quiet
<1> QED BY <1>1, <1>2, <1>3, <1>4, <1>5, <1>6, <1>7, Steps
-----------------------------------------------------------------------------
(* The registry.                                                            *)

\* A set of positions has a first and a last one.
LEMMA FirstPosition ==
    ASSUME NEW n \in Nat, NEW S, S \subseteq 1 .. n, S # {}
    PROVE  Min(S) \in S
<1>1. S \subseteq Nat
  OBVIOUS
<1>2. PICK i \in S : \A y \in S : ~(<<y, i>> \in OpToRel(<, Nat))
  BY <1>1, WFMin, NatLessThanWellFounded
<1>3. \A j \in S : ~(j < i)
  BY <1>1, <1>2 DEF OpToRel
<1>4. \A j \in S : i =< j
  BY <1>1, <1>3
<1> QED BY <1>4 DEF Min

LEMMA LastPosition ==
    ASSUME NEW n \in Nat, NEW S, S \subseteq 1 .. n, S # {}
    PROVE  Max(S) \in S
<1> DEFINE T == {n - i : i \in S}
<1>1. T \subseteq Nat
  OBVIOUS
<1>2. T # {}
  <2>1. PICK i \in S : TRUE
    OBVIOUS
  <2> QED BY <2>1
<1>3. PICK m \in T : \A y \in T : ~(<<y, m>> \in OpToRel(<, Nat))
  BY <1>1, <1>2, WFMin, NatLessThanWellFounded
<1>4. PICK i \in S : m = n - i
  OBVIOUS
<1>5. \A j \in S : ~(n - j < n - i)
  BY <1>1, <1>3, <1>4 DEF OpToRel
<1>6. \A j \in S : i >= j
  BY <1>5
<1> QED BY <1>6 DEF Max

\* Every TLV of an accepted request is writable, has its field's length, and a
\* value in range (app_protocol.c:212).
Accepted(t) == /\ t.fid \in WritableField /\ Decodes(t)
               /\ t.len = field_value_len(t.fid) /\ InRange(t.fid, t.val)

LEMMA AcceptedTLVs ==
    ASSUME NEW q \in WriteReqs, WriteStatus(q) = "OK"
    PROVE  q.count \in Nat /\ \A i \in 1 .. q.count : Accepted(q.tlvs[i])
<1> DEFINE n == Len(q.tlvs)
<1>1. q.count \in Nat /\ n \in Nat
  BY RequestAssumption
<1>2. q.count <= n
  <2>1. \A m \in Nat : m % 256 <= m
    OBVIOUS
  <2> QED BY <1>1, <2>1 DEF WriteStatus
<1>3. Wrong(q) = {}
  <2> SUFFICES ASSUME Wrong(q) # {} PROVE FALSE
    OBVIOUS
  <2>1. Min(Wrong(q)) \in Wrong(q)
    <3>1. Wrong(q) \subseteq 1 .. q.count
      BY DEF Wrong
    <3> QED BY <1>1, <3>1, FirstPosition
  <2>2. \/ Min(Wrong(q)) > WRITE_CACHE_MAX
        \/ app_field_validate(q.tlvs[Min(Wrong(q))]) # "OK"
    BY <2>1 DEF Wrong
  <2> QED BY <2>2 DEF WriteStatus
<1> SUFFICES ASSUME NEW i \in 1 .. q.count PROVE Accepted(q.tlvs[i])
  BY <1>1
<1>4. Decodes(q.tlvs[i])
  <2>1. i \in 1 .. n
    BY <1>1, <1>2
  <2> QED BY <2>1, RequestAssumption
<1>5. app_field_validate(q.tlvs[i]) = "OK"
  BY <1>3 DEF Wrong
<1> QED BY <1>4, <1>5 DEF app_field_validate, Accepted

\* What app_field_set() assigns, when the value passed the validation.
LEMMA Assigned ==
    ASSUME NEW t, Accepted(t), NEW f \in DOMAIN app_field_set(t.fid, t.val)
    PROVE  /\ app_field_set(t.fid, t.val)[f] \in Int
           /\ f = "mode" => app_field_set(t.fid, t.val)[f] \in 1 .. 3
           /\ f = "update_interval" => app_field_set(t.fid, t.val)[f] \in 0 .. MAX_UINT16
<1>1. CASE t.fid = "MODE"
  <2>1. app_field_set(t.fid, t.val) = [mode |-> t.val[1]]
    BY <1>1 DEF app_field_set
  <2>2. t.val[1] \in 1 .. 3
    BY <1>1 DEF Accepted, InRange
  <2> QED BY <2>1, <2>2
<1>2. CASE t.fid = "UPDATE_INTERVAL"
  <2>1. app_field_set(t.fid, t.val) = [update_interval |-> t.val[1]]
    BY <1>2 DEF app_field_set
  <2>2. t.val[1] \in 0 .. MAX_UINT16 /\ t.val[1] \in Int
    BY <1>2 DEF Accepted, Decodes
  <2> QED BY <2>1, <2>2
<1>3. CASE t.fid = "INSTALL_LOCATION"
  <2>1. app_field_set(t.fid, t.val) =
          [install_lat |-> t.val[1], install_lng |-> t.val[2], gnss_fix |-> 1,
           latitude |-> t.val[1], longitude |-> t.val[2], altitude |-> 0]
    BY <1>3 DEF app_field_set
  <2>2. t.val[1] \in INT32 /\ t.val[2] \in INT32
    BY <1>3 DEF Accepted, Decodes
  <2>3. \A x \in INT32 : x \in Int
    BY DEF INT32
  <2>4. t.val[1] \in Int /\ t.val[2] \in Int
    BY <2>2, <2>3
  <2> QED BY <2>1, <2>4
<1> QED BY <1>1, <1>2, <1>3 DEF Accepted, WritableField

\* Applying an accepted request keeps the registry typed.
LEMMA ApplyTyped ==
    ASSUME NEW h \in [Stored -> Int], NEW q \in WriteReqs, WriteStatus(q) = "OK"
    PROVE  Apply(h, q) \in [Stored -> Int]
<1> DEFINE w(i) == app_field_set(q.tlvs[i].fid, q.tlvs[i].val)
           writers(f) == {i \in 1 .. q.count : f \in DOMAIN w(i)}
<1> SUFFICES ASSUME NEW f \in Stored
             PROVE  (IF writers(f) = {} THEN h[f] ELSE w(Max(writers(f)))[f]) \in Int
  BY DEF Apply
<1>1. CASE writers(f) = {}
  BY <1>1
<1>2. CASE writers(f) # {}
  <2>1. Max(writers(f)) \in writers(f)
    BY <1>2, AcceptedTLVs, LastPosition
  <2>2. \A i \in 1 .. q.count : \A e \in DOMAIN w(i) : w(i)[e] \in Int
    BY AcceptedTLVs, Assigned
  <2> QED BY <1>2, <2>1, <2>2
<1> QED BY <1>1, <1>2

\* Every command or event is one of the seven that may change the configuration,
\* or leaves it alone and is not a protected command that succeeded.
LEMMA ConfigSteps ==
    ASSUME Next
    PROVE  \/ \E ch \in Channel, q \in WriteReqs : Write(ch, q)
           \/ \E ch \in Channel : PowerOn(ch) \/ PowerOff(ch) \/ FactoryReset(ch)
           \/ \E ch \in Channel, hash \in Hash : ChangePwd(ch, hash) /\ UNCHANGED fieldVars
           \/ \E s \in ShellSets : ShellSet(s[1], s[2])
           \/ Reboot
           \/ /\ UNCHANGED <<g, device_state, factory_init_done, password_hash>>
              /\ unixtime' \in {unixtime, 0} \cup {r.ts : r \in ReadReqs}
              /\ ~(last'.cmd \in Protected /\ last'.status = "OK")
<1> DEFINE Idle == /\ UNCHANGED <<g, device_state, factory_init_done, password_hash>>
                   /\ unixtime' \in {unixtime, 0} \cup {r.ts : r \in ReadReqs}
                   /\ ~(last'.cmd \in Protected /\ last'.status = "OK")
<1>1. ASSUME NEW ch \in Channel, app_auth_handle_cmd(ch), UNCHANGED fieldVars
      PROVE  Idle \/ \E hash \in Hash : ChangePwd(ch, hash)
  <2>1. CASE NonceCmd(ch) \/ LockCmd(ch) \/ TokenRefused(ch) \/ AuthUnsupported(ch)
    BY <1>1, <2>1 DEF NonceCmd, LockCmd, TokenRefused, AuthUnsupported, Reply,
                      Protected, authVars, fieldVars
  <2>2. ASSUME NEW token \in Token, TokenJudged(ch, token) PROVE Idle
    BY <1>1, <2>2 DEF TokenJudged, Reply, Protected, fieldVars
  <2>3. CASE ChangePwdRefused(ch)
    BY <1>1, <2>3 DEF ChangePwdRefused, Reply, fieldVars
  <2> QED BY <1>1, <2>1, <2>2, <2>3 DEF app_auth_handle_cmd
<1>2. ASSUME NEW ch \in Channel, NEW r \in ReadReqs, Read(ch, r) PROVE Idle
  BY <1>2 DEF Read, Reply, Protected, authVars
<1>3. ASSUME NEW ch \in Channel, NEW q \in WriteReqs,
             WriteInvalid(ch, q) \/ WriteDenied(ch, q)
      PROVE  Idle
  BY <1>3 DEF WriteInvalid, WriteDenied, Reply, authVars, fieldVars
<1>4. ASSUME NEW ch \in Channel, ActionDenied(ch) \/ Malformed(ch) PROVE Idle
  BY <1>4 DEF ActionDenied, Malformed, Reply, authVars, fieldVars
<1>5. ASSUME ShellGet \/ Tick \/ Disconnect PROVE Idle
  BY <1>5 DEF ShellGet, Tick, Disconnect, app_auth_ble_disconnect, Reply, Protected,
              authVars, fieldVars
<1> QED BY <1>1, <1>2, <1>3, <1>4, <1>5 DEF Next, process_app_payload

\* No command and no event leaves the registry's types, or makes the password
\* hash something else than a hash.
LEMMA FieldsTypeStep ==
    ASSUME FieldsTypeOK, password_hash \in Hash, [Next]_vars
    PROVE  FieldsTypeOK' /\ password_hash' \in Hash
<1> USE HashAssumption DEF FieldsTypeOK, DeviceState
<1>1. CASE UNCHANGED vars
  BY <1>1 DEF vars, authVars, fieldVars
<1>2. ASSUME NEW ch \in Channel, NEW q \in WriteReqs, Write(ch, q)
      PROVE  FieldsTypeOK' /\ password_hash' \in Hash
  <2>1. g' \in [Stored -> Int]
    BY <1>2, ApplyTyped DEF Write
  <2>2. device_state' \in DeviceState /\ factory_init_done' \in BOOLEAN
    BY <1>2 DEF Write, FactoryWindow
  <2>3. unixtime' \in Nat /\ password_hash' \in Hash
    BY <1>2 DEF Write, authVars
  <2> QED BY <2>1, <2>2, <2>3
<1>3. ASSUME NEW ch \in Channel, PowerOn(ch) \/ PowerOff(ch)
      PROVE  FieldsTypeOK' /\ password_hash' \in Hash
  BY <1>3 DEF PowerOn, PowerOff, authVars
<1>4. Defaults \in [Stored -> Int]
  BY DEF Defaults, Stored, Sensor, Config
<1>5. ASSUME NEW ch \in Channel, FactoryReset(ch)
      PROVE  FieldsTypeOK' /\ password_hash' \in Hash
  <2>1. g' \in [Stored -> Int]
    BY <1>4, <1>5 DEF FactoryReset, app_fields_init, Stored
  <2> QED BY <1>5, <2>1 DEF FactoryReset, app_fields_init
<1>6. ASSUME NEW ch \in Channel, NEW hash \in Hash, ChangePwd(ch, hash), UNCHANGED fieldVars
      PROVE  FieldsTypeOK' /\ password_hash' \in Hash
  BY <1>6 DEF ChangePwd, fieldVars
<1>7. ASSUME NEW s \in ShellSets, ShellSet(s[1], s[2])
      PROVE  FieldsTypeOK' /\ password_hash' \in Hash
  <2>1. s[1] \in Stored /\ s[2] \in Int
    BY ShellAssumption
  <2> QED BY <1>7, <2>1 DEF ShellSet, authVars
<1>8. CASE Reboot
  BY <1>4, <1>8 DEF Reboot, AuthRestart, FieldsRestart
<1>9. ASSUME UNCHANGED <<g, device_state, factory_init_done, password_hash>>,
             unixtime' \in {unixtime, 0} \cup {r.ts : r \in ReadReqs}
      PROVE  FieldsTypeOK' /\ password_hash' \in Hash
  BY <1>9, RequestAssumption
<1> QED BY <1>1, <1>2, <1>3, <1>5, <1>6, <1>7, <1>8, <1>9, ConfigSteps

\* Whatever the peers, the shell and the clock do, every variable keeps its type
\* (app_auth.c:46, app_fields.c:25).
THEOREM TypeCorrect == Spec => []TypeOK
<1>1. Init => TypeOK
  BY InitTyped DEF TypeOK
<1>2. TypeOK /\ [Next]_vars => TypeOK'
  <2> SUFFICES ASSUME TypeOK, [Next]_vars PROVE TypeOK'
    OBVIOUS
  <2>1. FieldsTypeOK' /\ password_hash' \in Hash
    BY FieldsTypeStep DEF TypeOK, AuthTypeOK
  <2>2. AuthTypeOK'
    BY <2>1, AuthTypeStep DEF TypeOK
  <2> QED BY <2>1, <2>2 DEF TypeOK
<1> QED BY <1>1, <1>2, PTL DEF Spec
-----------------------------------------------------------------------------
(* A nonce is judged once.                                                  *)

\* Nothing outstanding or spent is newer than the generator, so the next nonce
\* is new: with that, NonceUsedOnce is inductive.
NonceInv ==
    /\ \A n \in spent : n <= issued
    /\ \A ch \in Channel : nonce[ch] <= issued
    /\ NonceUsedOnce

LEMMA NonceStep ==
    ASSUME AuthTypeOK, NonceInv, [Next]_vars
    PROVE  NonceInv'
<1> USE BoundAssumption DEF AuthTypeOK, Nonce, NonceInv, NonceUsedOnce, Channel
<1>1. ASSUME NEW ch \in Channel, NonceCmd(ch) PROVE NonceInv'
  BY <1>1 DEF NonceCmd, Reply
<1>2. ASSUME NEW ch \in Channel, NEW token \in Token, TokenJudged(ch, token)
      PROVE  NonceInv'
  <2>1. /\ nonce_valid' = [nonce_valid EXCEPT ![ch] = FALSE]
        /\ UNCHANGED <<nonce, issued>>
        /\ spent' = spent \cup {nonce[ch]}
        /\ nonce_valid[ch]
    BY <1>2 DEF TokenJudged, channel_lock, Reply
  <2> QED BY <2>1
<1>3. ASSUME NEW ch \in Channel, LockCmd(ch) PROVE NonceInv'
  BY <1>3 DEF LockCmd, channel_lock, Reply
<1>4. CASE Disconnect
  BY <1>4 DEF Disconnect, app_auth_ble_disconnect, Reply
<1>5. CASE Tick
  BY <1>5 DEF Tick, authVars, Reply
<1>6. CASE Reboot
  BY <1>6 DEF Reboot, AuthRestart, Reply
<1>7. CASE Quiet
  BY <1>7 DEF Quiet
<1> QED BY <1>1, <1>2, <1>3, <1>4, <1>5, <1>6, <1>7, Steps

\* No nonce is outstanding again after a token was judged against it, and the
\* channels never share one (app_auth.c:421, app_auth.c:48).
THEOREM NonceJudgedOnce == Spec => []NonceUsedOnce
<1>1. Init => NonceInv
  BY DEF Init, AuthInit, NonceInv, NonceUsedOnce, Channel
<1>2. TypeOK /\ NonceInv /\ [Next]_vars => NonceInv'
  BY NonceStep DEF TypeOK
<1>3. NonceInv => NonceUsedOnce
  BY DEF NonceInv
<1> QED BY <1>1, <1>2, <1>3, TypeCorrect, PTL DEF Spec
-----------------------------------------------------------------------------
(* Protected commands need a proof of the password.                         *)

\* An open session has a right answer behind it, and an NFC session does not
\* outlast that answer's window.
SessionInv ==
    /\ ble_unlocked => proved["BLE"] # Never
    /\ nfc_auth_until > 0 => /\ proved["NFC"] # Never
                             /\ nfc_auth_until <= proved["NFC"] + NFC_AUTH_WINDOW_MS

\* Locking a channel closes its session and leaves the other's alone.
LEMMA LockClosesSession ==
    ASSUME AuthTypeOK, SessionInv, NEW ch \in Channel, channel_lock(ch),
           proved' = [proved EXCEPT ![ch] = Never]
    PROVE  SessionInv'
<1> USE DEF AuthTypeOK, SessionInv, Channel, Never
<1>1. CASE ch = "BLE"
  <2>1. ~ble_unlocked'
    BY <1>1 DEF channel_lock
  <2>2. nfc_auth_until' = nfc_auth_until /\ proved'["NFC"] = proved["NFC"]
    BY <1>1 DEF channel_lock
  <2> QED BY <2>1, <2>2
<1>2. CASE ch = "NFC"
  <2>1. nfc_auth_until' = 0
    BY <1>2 DEF channel_lock
  <2>2. ble_unlocked' => ble_unlocked
    BY <1>2 DEF channel_lock
  <2>3. proved'["BLE"] = proved["BLE"]
    BY <1>2
  <2> QED BY <2>1, <2>2, <2>3
<1> QED BY <1>1, <1>2

LEMMA SessionStep ==
    ASSUME AuthTypeOK, SessionInv, [Next]_vars
    PROVE  SessionInv'
<1> USE BoundAssumption, WindowAssumption DEF AuthTypeOK, SessionInv, Channel, Never
<1>1. ASSUME NEW ch \in Channel, NonceCmd(ch) PROVE SessionInv'
  BY <1>1 DEF NonceCmd, Reply
<1>2. ASSUME NEW ch \in Channel, NEW token \in Token, TokenJudged(ch, token)
      PROVE  SessionInv'
  <2>1. CASE token = Hmac(password_hash, nonce[ch])
    BY <1>2, <2>1 DEF TokenJudged, channel_unlock, Reply
  <2>2. CASE token # Hmac(password_hash, nonce[ch])
    <3>1. channel_lock(ch) /\ proved' = [proved EXCEPT ![ch] = Never]
      BY <1>2, <2>2 DEF TokenJudged, Reply
    <3> QED BY <3>1, LockClosesSession
  <2> QED BY <2>1, <2>2
<1>3. ASSUME NEW ch \in Channel, LockCmd(ch) PROVE SessionInv'
  <2>1. channel_lock(ch) /\ proved' = [proved EXCEPT ![ch] = Never]
    BY <1>3 DEF LockCmd, Reply
  <2> QED BY <2>1, LockClosesSession
<1>4. CASE Disconnect
  BY <1>4 DEF Disconnect, app_auth_ble_disconnect, Reply
<1>5. CASE Tick
  BY <1>5 DEF Tick, authVars, Reply
<1>6. CASE Reboot
  BY <1>6 DEF Reboot, AuthRestart, Reply
<1>7. CASE Quiet
  BY <1>7 DEF Quiet
<1> QED BY <1>1, <1>2, <1>3, <1>4, <1>5, <1>6, <1>7, Steps

\* A channel the check lets through has proved the password.
LEMMA CheckedIsProven ==
    ASSUME AuthTypeOK, SessionInv, NEW ch \in Channel, app_auth_check_write(ch) = "OK"
    PROVE  Proven(ch)
  BY BoundAssumption, WindowAssumption
  DEF AuthTypeOK, SessionInv, Channel, Never, app_auth_check_write, Proven

\* A protected command succeeds only on a channel with a current right answer,
\* or as the one write to a device fresh from the factory (app_auth.c:489).
THEOREM ChangesAreAuthenticated == Spec => AuthenticatedChange
<1> DEFINE Authentic ==
      last'.ch \in Channel /\ last'.cmd \in Protected /\ last'.status = "OK"
        => Proven(last'.ch) \/ (last'.cmd = "WRITE" /\ FactoryWindow)
<1>1. Init => SessionInv
  BY DEF Init, AuthInit, SessionInv
<1>2. TypeOK /\ SessionInv /\ [Next]_vars => SessionInv'
  BY SessionStep DEF TypeOK
<1>3. ASSUME TypeOK, SessionInv, Next PROVE Authentic
  <2>1. ASSUME NEW ch \in Channel, NEW q \in WriteReqs, Write(ch, q) PROVE Authentic
    BY <1>3, <2>1, CheckedIsProven DEF Write, Reply, TypeOK
  <2>2. ASSUME NEW ch \in Channel, PowerOn(ch) PROVE Authentic
    BY <2>2 DEF PowerOn, Reply, Protected
  <2>3. ASSUME NEW ch \in Channel, PowerOff(ch) \/ FactoryReset(ch) PROVE Authentic
    BY <1>3, <2>3, CheckedIsProven DEF PowerOff, FactoryReset, Reply, TypeOK
  <2>4. ASSUME NEW ch \in Channel, NEW hash \in Hash, ChangePwd(ch, hash) PROVE Authentic
    BY <1>3, <2>4, CheckedIsProven DEF ChangePwd, Reply, TypeOK
  <2>5. ASSUME NEW s \in ShellSets, ShellSet(s[1], s[2]) PROVE Authentic
    BY <2>5 DEF ShellSet, Reply, Protected
  <2>6. CASE Reboot
    BY <2>6 DEF Reboot, Reply, Protected
  <2> QED BY <1>3, <2>1, <2>2, <2>3, <2>4, <2>5, <2>6, ConfigSteps
<1>4. TypeOK /\ SessionInv /\ [Next]_vars => [Authentic]_vars
  BY <1>3
<1> QED BY <1>1, <1>2, <1>4, TypeCorrect, PTL DEF Spec, AuthenticatedChange
-----------------------------------------------------------------------------
(* The factory window, and refused commands.                                *)

\* An accepted write closes the factory window; only a reset or a reboot opens
\* it (app_protocol.c:277).
THEOREM WindowServesOneWrite == Spec => FactoryWindowOnce
<1> DEFINE Once ==
      /\ last'.cmd = "WRITE" /\ last'.status = "OK" => ~FactoryWindow'
      /\ ~FactoryWindow /\ FactoryWindow' => last'.cmd \in {"FACTORY", "REBOOT"}
<1>1. ASSUME TypeOK, Next PROVE Once
  <2> USE DEF FactoryWindow, Reply
  <2>1. ASSUME NEW ch \in Channel, NEW q \in WriteReqs, Write(ch, q) PROVE Once
    BY <1>1, <2>1 DEF Write, TypeOK, FieldsTypeOK
  <2>2. ASSUME NEW ch \in Channel, PowerOn(ch) \/ PowerOff(ch) \/ FactoryReset(ch)
        PROVE  Once
    BY <2>2 DEF PowerOn, PowerOff, FactoryReset
  <2>3. ASSUME NEW ch \in Channel, NEW hash \in Hash, ChangePwd(ch, hash),
               UNCHANGED fieldVars
        PROVE  Once
    BY <2>3 DEF ChangePwd, fieldVars
  <2>4. ASSUME NEW s \in ShellSets, ShellSet(s[1], s[2]) PROVE Once
    BY <2>4 DEF ShellSet
  <2>5. CASE Reboot
    BY <2>5 DEF Reboot
  <2> QED BY <1>1, <2>1, <2>2, <2>3, <2>4, <2>5, ConfigSteps DEF Protected
<1>2. TypeOK /\ [Next]_vars => [Once]_vars
  BY <1>1
<1> QED BY <1>2, TypeCorrect, PTL DEF Spec, FactoryWindowOnce

\* A command answered with an error has changed neither the configuration nor
\* the password, and the configuration changes by write, reset, shell or reboot
\* only (app_protocol.c:212).
THEOREM RefusalsAreHarmless == Spec => RefusedChangesNothing
<1> DEFINE Harmless ==
      /\ last'.status # "OK" => UNCHANGED <<g, device_state, factory_init_done,
                                           password_hash>>
      /\ g' # g => last'.cmd \in {"WRITE", "FACTORY", "SET", "REBOOT"}
<1>1. ASSUME Next PROVE Harmless
  <2> USE DEF Reply
  <2>1. ASSUME NEW ch \in Channel, NEW q \in WriteReqs, Write(ch, q) PROVE Harmless
    BY <2>1 DEF Write
  <2>2. ASSUME NEW ch \in Channel, PowerOn(ch) \/ PowerOff(ch) \/ FactoryReset(ch)
        PROVE  Harmless
    BY <2>2 DEF PowerOn, PowerOff, FactoryReset
  <2>3. ASSUME NEW ch \in Channel, NEW hash \in Hash, ChangePwd(ch, hash),
               UNCHANGED fieldVars
        PROVE  Harmless
    BY <2>3 DEF ChangePwd, fieldVars
  <2>4. ASSUME NEW s \in ShellSets, ShellSet(s[1], s[2]) PROVE Harmless
    BY <2>4 DEF ShellSet
  <2>5. CASE Reboot
    BY <2>5 DEF Reboot
  <2> QED BY <1>1, <2>1, <2>2, <2>3, <2>4, <2>5, ConfigSteps
<1>2. [Next]_vars => [Harmless]_vars
  BY <1>1
<1> QED BY <1>2, PTL DEF Spec, RefusedChangesNothing
-----------------------------------------------------------------------------
(* The configuration stays in range.                                        *)

\* ConfigInRange for a registry h, with the limits written out.
RegistryInRange(h) ==
    /\ h["mode"] \in 1 .. 3
    /\ h["install_lat"] \in -MAX_LAT .. MAX_LAT
    /\ h["install_lng"] \in -MAX_LNG .. MAX_LNG
    /\ h["latitude"] = h["install_lat"] /\ h["longitude"] = h["install_lng"]
    /\ h["update_interval"] \in 0 .. MAX_UINT16

LEMMA RangeMeaning ==
    /\ ConfigInRange <=> RegistryInRange(g)
    /\ ConfigInRange' <=> RegistryInRange(g')
<1>1. \A m : InRange("MODE", <<m>>) <=> m \in 1 .. 3
  BY DEF InRange
<1>2. \A lat, lng : InRange("INSTALL_LOCATION", <<lat, lng>>)
                      <=> lat \in -MAX_LAT .. MAX_LAT /\ lng \in -MAX_LNG .. MAX_LNG
  BY DEF InRange
<1> QED BY <1>1, <1>2 DEF ConfigInRange, RegistryInRange

\* A valid location sets the installed and the reported one together, and no
\* other field touches either (app_fields.c:375).
LocationEntry == {"install_lat", "install_lng", "latitude", "longitude"}

LEMMA LocationAssigned ==
    ASSUME NEW t, Accepted(t)
    PROVE  /\ \A f \in LocationEntry :
                 f \in DOMAIN app_field_set(t.fid, t.val) <=> t.fid = "INSTALL_LOCATION"
           /\ t.fid = "INSTALL_LOCATION" =>
                 LET w == app_field_set(t.fid, t.val)
                 IN  /\ w["latitude"] = w["install_lat"]
                     /\ w["longitude"] = w["install_lng"]
                     /\ w["install_lat"] \in -MAX_LAT .. MAX_LAT
                     /\ w["install_lng"] \in -MAX_LNG .. MAX_LNG
<1>1. CASE t.fid = "MODE"
  <2>1. DOMAIN app_field_set(t.fid, t.val) = {"mode"}
    BY <1>1 DEF app_field_set
  <2> QED BY <1>1, <2>1 DEF LocationEntry
<1>2. CASE t.fid = "UPDATE_INTERVAL"
  <2>1. DOMAIN app_field_set(t.fid, t.val) = {"update_interval"}
    BY <1>2 DEF app_field_set
  <2> QED BY <1>2, <2>1 DEF LocationEntry
<1>3. CASE t.fid = "INSTALL_LOCATION"
  <2>1. app_field_set(t.fid, t.val) =
          [install_lat |-> t.val[1], install_lng |-> t.val[2], gnss_fix |-> 1,
           latitude |-> t.val[1], longitude |-> t.val[2], altitude |-> 0]
    BY <1>3 DEF app_field_set
  <2>2. t.val[1] \in -MAX_LAT .. MAX_LAT /\ t.val[2] \in -MAX_LNG .. MAX_LNG
    BY <1>3 DEF Accepted, InRange
  <2> QED BY <1>3, <2>1, <2>2 DEF LocationEntry
<1> QED BY <1>1, <1>2, <1>3 DEF Accepted, WritableField

\* The writers of an entry: the fields of a request that assign it.
Assignment(q, i) == app_field_set(q.tlvs[i].fid, q.tlvs[i].val)
Writers(q, f) == {i \in 1 .. q.count : f \in DOMAIN Assignment(q, i)}
Locations(q) == {i \in 1 .. q.count : q.tlvs[i].fid = "INSTALL_LOCATION"}

LEMMA ApplyEntry ==
    ASSUME NEW h, NEW q, NEW f \in Stored
    PROVE  Apply(h, q)[f] = IF Writers(q, f) = {} THEN h[f]
                            ELSE Assignment(q, Max(Writers(q, f)))[f]
  BY DEF Apply, Writers, Assignment

LEMMA LastWriter ==
    ASSUME NEW q \in WriteReqs, WriteStatus(q) = "OK", NEW f, Writers(q, f) # {}
    PROVE  /\ Max(Writers(q, f)) \in Writers(q, f)
           /\ Accepted(q.tlvs[Max(Writers(q, f))])
<1>1. Writers(q, f) \subseteq 1 .. q.count
  BY DEF Writers
<1>2. Max(Writers(q, f)) \in Writers(q, f)
  BY <1>1, AcceptedTLVs, LastPosition
<1> QED BY <1>1, <1>2, AcceptedTLVs

\* All entries of the location have the same writers.
LEMMA LocationWriters ==
    ASSUME NEW q \in WriteReqs, WriteStatus(q) = "OK", NEW f \in LocationEntry
    PROVE  Writers(q, f) = Locations(q)
<1>1. ASSUME NEW i \in 1 .. q.count
      PROVE  f \in DOMAIN Assignment(q, i) <=> q.tlvs[i].fid = "INSTALL_LOCATION"
  <2>1. Accepted(q.tlvs[i])
    BY AcceptedTLVs
  <2> QED BY <2>1, LocationAssigned DEF Assignment
<1> QED BY <1>1 DEF Writers, Locations

\* Applying an accepted request keeps a registry in range.
LEMMA ApplyInRange ==
    ASSUME NEW h, RegistryInRange(h), NEW q \in WriteReqs, WriteStatus(q) = "OK"
    PROVE  RegistryInRange(Apply(h, q))
<1>1. {"mode", "update_interval"} \cup LocationEntry \subseteq Stored
  BY DEF LocationEntry, Stored, Config
<1>2. Apply(h, q)["mode"] \in 1 .. 3
  <2>1. CASE Writers(q, "mode") = {}
    BY <1>1, <2>1, ApplyEntry DEF RegistryInRange
  <2>2. CASE Writers(q, "mode") # {}
    <3> DEFINE i == Max(Writers(q, "mode"))
    <3>1. Accepted(q.tlvs[i]) /\ "mode" \in DOMAIN Assignment(q, i)
      BY <2>2, LastWriter DEF Writers
    <3>2. Assignment(q, i)["mode"] \in 1 .. 3
      BY <3>1, Assigned DEF Assignment
    <3> QED BY <1>1, <2>2, <3>2, ApplyEntry
  <2> QED BY <2>1, <2>2
<1>3. Apply(h, q)["update_interval"] \in 0 .. MAX_UINT16
  <2>1. CASE Writers(q, "update_interval") = {}
    BY <1>1, <2>1, ApplyEntry DEF RegistryInRange
  <2>2. CASE Writers(q, "update_interval") # {}
    <3> DEFINE i == Max(Writers(q, "update_interval"))
    <3>1. Accepted(q.tlvs[i]) /\ "update_interval" \in DOMAIN Assignment(q, i)
      BY <2>2, LastWriter DEF Writers
    <3>2. Assignment(q, i)["update_interval"] \in 0 .. MAX_UINT16
      BY <3>1, Assigned DEF Assignment
    <3> QED BY <1>1, <2>2, <3>2, ApplyEntry
  <2> QED BY <2>1, <2>2
<1>4. /\ Apply(h, q)["install_lat"] \in -MAX_LAT .. MAX_LAT
      /\ Apply(h, q)["install_lng"] \in -MAX_LNG .. MAX_LNG
      /\ Apply(h, q)["latitude"] = Apply(h, q)["install_lat"]
      /\ Apply(h, q)["longitude"] = Apply(h, q)["install_lng"]
  <2> DEFINE i == Max(Locations(q))
  <2>1. ASSUME NEW f \in LocationEntry
        PROVE  Apply(h, q)[f] = IF Locations(q) = {} THEN h[f] ELSE Assignment(q, i)[f]
    BY <1>1, LocationWriters, ApplyEntry
  <2>2. /\ "install_lat" \in LocationEntry /\ "install_lng" \in LocationEntry
        /\ "latitude" \in LocationEntry /\ "longitude" \in LocationEntry
    BY DEF LocationEntry
  <2>3. CASE Locations(q) = {}
    BY <2>1, <2>2, <2>3 DEF RegistryInRange
  <2>4. CASE Locations(q) # {}
    <3>1. Writers(q, "latitude") = Locations(q)
      BY <2>2, LocationWriters
    <3>2. Accepted(q.tlvs[i]) /\ q.tlvs[i].fid = "INSTALL_LOCATION"
      BY <2>4, <3>1, LastWriter DEF Locations
    <3>3. /\ Assignment(q, i)["latitude"] = Assignment(q, i)["install_lat"]
          /\ Assignment(q, i)["longitude"] = Assignment(q, i)["install_lng"]
          /\ Assignment(q, i)["install_lat"] \in -MAX_LAT .. MAX_LAT
          /\ Assignment(q, i)["install_lng"] \in -MAX_LNG .. MAX_LNG
      BY <3>2, LocationAssigned DEF Assignment
    <3> QED BY <2>1, <2>2, <2>4, <3>3
  <2> QED BY <2>3, <2>4
<1> QED BY <1>2, <1>3, <1>4 DEF RegistryInRange

LEMMA DefaultsInRange == RegistryInRange(Defaults)
<1>1. MAX_LAT \in Int /\ -MAX_LAT =< 246087800 /\ 246087800 =< MAX_LAT
  BY SMT DEF MAX_LAT
<1>2. MAX_LNG \in Int /\ -MAX_LNG =< 1180689300 /\ 1180689300 =< MAX_LNG
  BY SMT DEF MAX_LNG
<1> QED BY SMT, <1>1, <1>2 DEF RegistryInRange, Defaults, MAX_UINT16

\* Where the console does not assign, no command brings the configuration out
\* of range, and the reported location is the installed one (app_protocol.c:269).
THEOREM ConfigStaysInRange ==
    ASSUME ShellSets = {}
    PROVE  Spec => []ConfigInRange
<1>1. RegistryInRange(Defaults)
  BY DefaultsInRange
<1>2. Init => ConfigInRange
  BY <1>1, RangeMeaning DEF Init, FieldsInit
<1>3. ASSUME RegistryInRange(g), [Next]_vars PROVE RegistryInRange(g')
  <2>1. CASE UNCHANGED vars
    BY <1>3, <2>1 DEF vars, fieldVars
  <2>2. ASSUME NEW ch \in Channel, NEW q \in WriteReqs, Write(ch, q)
        PROVE  RegistryInRange(g')
    BY <1>3, <2>2, ApplyInRange DEF Write
  <2>3. ASSUME NEW ch \in Channel, PowerOn(ch) \/ PowerOff(ch) PROVE RegistryInRange(g')
    BY <1>3, <2>3 DEF PowerOn, PowerOff
  <2>4. ASSUME NEW ch \in Channel, FactoryReset(ch) PROVE RegistryInRange(g')
    <3>1. \A f \in Config : g'[f] = Defaults[f]
      BY <2>4 DEF FactoryReset, app_fields_init, Stored
    <3> QED BY <1>1, <3>1 DEF RegistryInRange, Config
  <2>5. ASSUME NEW ch \in Channel, NEW hash \in Hash, ChangePwd(ch, hash),
               UNCHANGED fieldVars
        PROVE  RegistryInRange(g')
    BY <1>3, <2>5 DEF fieldVars
  <2>6. CASE Reboot
    BY <1>1, <2>6 DEF Reboot, FieldsRestart
  <2> QED BY <1>3, <2>1, <2>2, <2>3, <2>4, <2>5, <2>6, ConfigSteps
<1>4. ConfigInRange /\ [Next]_vars => ConfigInRange'
  BY <1>3, RangeMeaning
<1> QED BY <1>2, <1>4, PTL DEF Spec
=============================================================================
