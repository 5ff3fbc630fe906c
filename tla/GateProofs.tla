----------------------------- MODULE GateProofs -----------------------------
(* AppProtocol implements ConfigGate, and its channels are independent, for *)
(* every value of the constants.                                            *)
EXTENDS AppProtocolProofs

\* A step that leaves the sessions alone: at most, a check by NFC has forgotten
\* an NFC session that is over.
Forgets ==
    /\ UNCHANGED <<ble_unlocked, uptime>>
    /\ \/ nfc_auth_until' = nfc_auth_until
       \/ last'.ch = "NFC" /\ nfc_auth_until' = 0 /\ ~(uptime <= nfc_auth_until)

LEMMA CheckForgets ==
    ASSUME NEW ch \in Channel, AfterCheck(ch),
           NEW cmd, NEW status, Reply(ch, cmd, status),
           UNCHANGED <<ble_unlocked, uptime>>
    PROVE  Forgets
<1>1. last'.ch = ch
  BY DEF Reply
<1>2. \/ nfc_auth_until' = nfc_auth_until
      \/ ch # "BLE" /\ nfc_auth_until' = 0 /\ ~(uptime <= nfc_auth_until)
  BY DEF AfterCheck, app_auth_check_write
<1> QED BY <1>1, <1>2 DEF Forgets, Channel

\* Every step is one that ConfigGate knows, or forgets at most.
Settled ==
    /\ Forgets
    /\ UNCHANGED <<nonce, nonce_valid, issued, g, device_state, factory_init_done,
                   password_hash>>

LEMMA GateSteps ==
    ASSUME Next
    PROVE  \/ \E ch \in Channel : NonceCmd(ch) /\ UNCHANGED <<uptime, fieldVars>>
           \/ \E ch \in Channel, token \in Token :
                 TokenJudged(ch, token) /\ UNCHANGED <<uptime, fieldVars>>
           \/ \E ch \in Channel : LockCmd(ch) /\ UNCHANGED <<uptime, fieldVars>>
           \/ \E ch \in Channel, hash \in Hash :
                 ChangePwd(ch, hash) /\ UNCHANGED <<uptime, fieldVars>>
           \/ \E ch \in Channel, q \in WriteReqs : Write(ch, q)
           \/ \E ch \in Channel : PowerOn(ch) \/ PowerOff(ch) \/ FactoryReset(ch)
           \/ \E s \in ShellSets : ShellSet(s[1], s[2])
           \/ Disconnect
           \/ Tick
           \/ Reboot
           \/ Settled
<1>1. ASSUME NEW ch \in Channel, app_auth_handle_cmd(ch), UNCHANGED <<uptime, fieldVars>>
      PROVE  \/ NonceCmd(ch)
             \/ \E token \in Token : TokenJudged(ch, token)
             \/ \E hash \in Hash : ChangePwd(ch, hash)
             \/ LockCmd(ch)
             \/ Settled
  <2>1. CASE TokenRefused(ch) \/ AuthUnsupported(ch)
    BY <1>1, <2>1 DEF TokenRefused, AuthUnsupported, authVars, fieldVars, Settled, Forgets
  <2>2. CASE ChangePwdRefused(ch)
    BY <1>1, <2>2, CheckForgets DEF ChangePwdRefused, fieldVars, Settled
  <2> QED BY <1>1, <2>1, <2>2 DEF app_auth_handle_cmd
<1>2. ASSUME NEW ch \in Channel, NEW r \in ReadReqs, Read(ch, r) PROVE Settled
  BY <1>2 DEF Read, authVars, Settled, Forgets
<1>3. ASSUME NEW ch \in Channel, NEW q \in WriteReqs, WriteInvalid(ch, q) PROVE Settled
  BY <1>3 DEF WriteInvalid, authVars, fieldVars, Settled, Forgets
<1>4. ASSUME NEW ch \in Channel, NEW q \in WriteReqs, WriteDenied(ch, q) PROVE Settled
  BY <1>4, CheckForgets DEF WriteDenied, fieldVars, Settled
<1>5. ASSUME NEW ch \in Channel, ActionDenied(ch) PROVE Settled
  <2>1. \E cmd, status : Reply(ch, cmd, status)
    BY <1>5 DEF ActionDenied
  <2> QED BY <1>5, <2>1, CheckForgets DEF ActionDenied, fieldVars, Settled
<1>6. ASSUME NEW ch \in Channel, Malformed(ch) PROVE Settled
  BY <1>6 DEF Malformed, authVars, fieldVars, Settled, Forgets
<1>7. ASSUME ShellGet PROVE Settled
  BY <1>7 DEF ShellGet, authVars, Settled, Forgets
<1> QED BY <1>1, <1>2, <1>3, <1>4, <1>5, <1>6, <1>7 DEF Next, process_app_payload
-----------------------------------------------------------------------------
(* Sessions.                                                                *)

\* Session, spelt out per channel and for both ends of a step.
NfcOpen(until, now) == until > 0 /\ now <= until

LEMMA Sessions ==
    /\ Session("BLE") = ble_unlocked /\ Session("BLE")' = ble_unlocked'
    /\ Session("NFC") = NfcOpen(nfc_auth_until, uptime)
    /\ Session("NFC")' = NfcOpen(nfc_auth_until', uptime')
  BY DEF Session, NfcOpen

LEMMA SettledSessions ==
    ASSUME AuthTypeOK, Forgets
    PROVE  \A ch \in Channel : Session(ch)' = Session(ch)
<1>1. NfcOpen(nfc_auth_until', uptime') = NfcOpen(nfc_auth_until, uptime)
  BY DEF Forgets, NfcOpen, AuthTypeOK
<1>2. ble_unlocked' = ble_unlocked
  BY DEF Forgets
<1> QED BY <1>1, <1>2, Sessions DEF Channel

\* Locking or unlocking a channel decides its own session only.
LEMMA LockSessions ==
    ASSUME AuthTypeOK, NEW ch \in Channel, channel_lock(ch), UNCHANGED uptime
    PROVE  /\ Session(ch)' = FALSE
           /\ \A c \in Channel \ {ch} : Session(c)' = Session(c)
<1>1. CASE ch = "BLE"
  <2>1. ble_unlocked' = FALSE /\ nfc_auth_until' = nfc_auth_until
    BY <1>1 DEF channel_lock
  <2> QED BY <1>1, <2>1, Sessions DEF Channel
<1>2. CASE ch = "NFC"
  <2>1. ble_unlocked' = ble_unlocked /\ nfc_auth_until' = 0
    BY <1>2 DEF channel_lock, AuthTypeOK
  <2>2. NfcOpen(nfc_auth_until', uptime') = FALSE
    BY <2>1 DEF NfcOpen
  <2> QED BY <1>2, <2>1, <2>2, Sessions DEF Channel
<1> QED BY <1>1, <1>2 DEF Channel

LEMMA UnlockSessions ==
    ASSUME AuthTypeOK, NEW ch \in Channel, channel_unlock(ch), UNCHANGED uptime
    PROVE  /\ Session(ch)' = TRUE
           /\ \A c \in Channel \ {ch} : Session(c)' = Session(c)
<1>1. CASE ch = "BLE"
  <2>1. ble_unlocked' = TRUE /\ nfc_auth_until' = nfc_auth_until
    BY <1>1 DEF channel_unlock
  <2> QED BY <1>1, <2>1, Sessions DEF Channel
<1>2. CASE ch = "NFC"
  <2>1. ble_unlocked' = ble_unlocked /\ nfc_auth_until' = uptime + NFC_AUTH_WINDOW_MS
    BY <1>2 DEF channel_unlock, AuthTypeOK
  <2>2. NfcOpen(nfc_auth_until', uptime') = TRUE
    BY <2>1, WindowAssumption, BoundAssumption DEF NfcOpen, AuthTypeOK
  <2> QED BY <1>2, <2>1, <2>2, Sessions DEF Channel
<1> QED BY <1>1, <1>2 DEF Channel

\* A channel the check lets through is in session.
LEMMA CheckedInSession ==
    ASSUME AuthTypeOK, NEW ch \in Channel, app_auth_check_write(ch) = "OK"
    PROVE  Session(ch)
<1>1. CASE ch = "BLE"
  <2>1. ble_unlocked
    BY <1>1 DEF app_auth_check_write
  <2> QED BY <1>1, <2>1, Sessions
<1>2. CASE ch = "NFC"
  <2>1. NfcOpen(nfc_auth_until, uptime)
    BY <1>2, BoundAssumption, WindowAssumption
    DEF app_auth_check_write, NfcOpen, AuthTypeOK
  <2> QED BY <1>2, <2>1, Sessions
<1> QED BY <1>1, <1>2 DEF Channel
-----------------------------------------------------------------------------
(* The channels are independent.                                            *)

\* The state of channel c is as it was.
Kept(c) == /\ nonce_valid'[c] = nonce_valid[c] /\ nonce'[c] = nonce[c]
           /\ Session(c)' = Session(c)

LEMMA OthersKept ==
    ASSUME AuthTypeOK, Next, NEW c \in Channel, last'.ch \in Channel \ {c}
    PROVE  Kept(c)
<1> USE DEF AuthTypeOK, Kept
<1>1. ASSUME NEW ch \in Channel, NonceCmd(ch), UNCHANGED <<uptime, fieldVars>>
      PROVE  Kept(c)
  <2>1. last'.ch = ch /\ Forgets
    BY <1>1 DEF NonceCmd, Reply, Forgets
  <2>2. ch # c
    BY <2>1
  <2> QED BY <1>1, <2>1, <2>2, SettledSessions DEF NonceCmd
<1>2. ASSUME NEW ch \in Channel, NEW token \in Token, TokenJudged(ch, token),
             UNCHANGED <<uptime, fieldVars>>
      PROVE  Kept(c)
  <2>1. last'.ch = ch /\ nonce' = nonce
    BY <1>2 DEF TokenJudged, Reply
  <2>2. nonce_valid' = [nonce_valid EXCEPT ![ch] = FALSE]
    BY <1>2 DEF TokenJudged, channel_lock
  <2>3. channel_lock(ch) \/ channel_unlock(ch)
    BY <1>2 DEF TokenJudged
  <2> QED BY <1>2, <2>1, <2>2, <2>3, LockSessions, UnlockSessions
<1>3. ASSUME NEW ch \in Channel, LockCmd(ch), UNCHANGED <<uptime, fieldVars>>
      PROVE  Kept(c)
  <2>1. last'.ch = ch /\ nonce' = nonce /\ channel_lock(ch)
    BY <1>3 DEF LockCmd, Reply
  <2>2. nonce_valid' = [nonce_valid EXCEPT ![ch] = FALSE]
    BY <2>1 DEF channel_lock
  <2> QED BY <1>3, <2>1, <2>2, LockSessions
<1>4. CASE Disconnect
  <2>1. last'.ch = "BLE" /\ nonce' = nonce
    BY <1>4 DEF Disconnect, app_auth_ble_disconnect, Reply
  <2>2. nonce_valid' = [nonce_valid EXCEPT !["BLE"] = FALSE]
    BY <1>4 DEF Disconnect, app_auth_ble_disconnect
  <2>3. nfc_auth_until' = nfc_auth_until /\ uptime' = uptime
    BY <1>4 DEF Disconnect, app_auth_ble_disconnect
  <2>4. c = "NFC"
    BY <2>1 DEF Channel
  <2> QED BY <2>1, <2>2, <2>3, <2>4, Sessions
<1>5. ASSUME Forgets, UNCHANGED <<nonce, nonce_valid>> PROVE Kept(c)
  BY <1>5, SettledSessions
<1>6. ASSUME NEW ch \in Channel, NEW hash \in Hash, ChangePwd(ch, hash),
             UNCHANGED <<uptime, fieldVars>>
      PROVE  Forgets /\ UNCHANGED <<nonce, nonce_valid>>
  BY <1>6 DEF ChangePwd, Forgets
<1>7. ASSUME NEW ch \in Channel, NEW q \in WriteReqs, Write(ch, q)
      PROVE  Forgets /\ UNCHANGED <<nonce, nonce_valid>>
  BY <1>7 DEF Write, authVars, Forgets
<1>8. ASSUME NEW ch \in Channel, PowerOn(ch) \/ PowerOff(ch) \/ FactoryReset(ch)
      PROVE  Forgets /\ UNCHANGED <<nonce, nonce_valid>>
  BY <1>8 DEF PowerOn, PowerOff, FactoryReset, authVars, Forgets
<1>9. ASSUME NEW s \in ShellSets, ShellSet(s[1], s[2])
      PROVE  Forgets /\ UNCHANGED <<nonce, nonce_valid>>
  BY <1>9 DEF ShellSet, authVars, Forgets
<1>10. ASSUME Tick \/ Reboot PROVE FALSE
  BY <1>10 DEF Tick, Reboot, Reply, Channel
<1> QED BY <1>1, <1>2, <1>3, <1>4, <1>5, <1>6, <1>7, <1>8, <1>9, <1>10, GateSteps
        DEF Settled, Forgets

\* What one channel does never touches the other's challenge or session
\* (app_auth.c:48).
THEOREM ChannelsAreIndependent == Spec => ChannelsIndependent
<1> DEFINE Independent ==
      \A ch \in Channel : last'.ch \in Channel \ {ch} =>
         /\ nonce_valid'[ch] = nonce_valid[ch] /\ nonce'[ch] = nonce[ch]
         /\ Session(ch)' = Session(ch)
<1>1. TypeOK /\ [Next]_vars => [Independent]_vars
  BY OthersKept DEF TypeOK, Kept
<1> QED BY <1>1, TypeCorrect, PTL DEF Spec, ChannelsIndependent
-----------------------------------------------------------------------------
(* The refinement.                                                          *)

gateVars == <<last.ch, Configuration, device_state, FactoryWindow, password_hash,
              Outstanding, InSession>>

\* An outstanding nonce is not 0, which stands for none, and not newer than the
\* generator: so a new challenge differs from all there were.
GateInv == \A ch \in Channel : /\ nonce[ch] <= issued
                               /\ nonce_valid[ch] => nonce[ch] # 0

LEMMA GateInvStep ==
    ASSUME AuthTypeOK, GateInv, [Next]_vars
    PROVE  GateInv'
<1> USE BoundAssumption DEF AuthTypeOK, Nonce, GateInv
<1>1. ASSUME NEW ch \in Channel, NonceCmd(ch) PROVE GateInv'
  BY <1>1 DEF NonceCmd
<1>2. ASSUME NEW ch \in Channel, NEW token \in Token, TokenJudged(ch, token)
      PROVE  GateInv'
  <2>1. nonce_valid' = [nonce_valid EXCEPT ![ch] = FALSE] /\ UNCHANGED <<nonce, issued>>
    BY <1>2 DEF TokenJudged, channel_lock
  <2> QED BY <2>1
<1>3. ASSUME NEW ch \in Channel, LockCmd(ch) PROVE GateInv'
  BY <1>3 DEF LockCmd, channel_lock
<1>4. CASE Disconnect
  BY <1>4 DEF Disconnect, app_auth_ble_disconnect, Channel
<1>5. CASE Tick
  BY <1>5 DEF Tick, authVars
<1>6. CASE Reboot
  BY <1>6 DEF Reboot, AuthRestart
<1>7. CASE Quiet
  BY <1>7 DEF Quiet
<1> QED BY <1>1, <1>2, <1>3, <1>4, <1>5, <1>6, <1>7, Steps

\* Sessions and challenges as sets and functions.
LEMMA SameGate ==
    ASSUME AuthTypeOK, Forgets, UNCHANGED <<nonce, nonce_valid>>
    PROVE  UNCHANGED <<Outstanding, InSession>>
<1>1. InSession' = InSession
  BY SettledSessions DEF InSession
<1>2. Outstanding' = Outstanding
  BY DEF Outstanding
<1> QED BY <1>1, <1>2

LEMMA DroppedChallenge ==
    ASSUME NEW ch \in Channel, AuthTypeOK, nonce' = nonce,
           nonce_valid' = [nonce_valid EXCEPT ![ch] = FALSE]
    PROVE  Outstanding' = [Outstanding EXCEPT ![ch] = 0]
  BY DEF Outstanding, AuthTypeOK

LEMMA ClosedSession ==
    ASSUME NEW ch \in Channel, Session(ch)' = FALSE,
           \A c \in Channel \ {ch} : Session(c)' = Session(c)
    PROVE  InSession' = InSession \ {ch}
  BY DEF InSession

LEMMA OpenedSession ==
    ASSUME NEW ch \in Channel, Session(ch)' = TRUE,
           \A c \in Channel \ {ch} : Session(c)' = Session(c)
    PROVE  InSession' = InSession \cup {ch}
  BY DEF InSession

\* The commands on challenges and sessions.
LEMMA AuthRefines ==
    ASSUME AuthTypeOK, GateInv, NEW ch \in Channel, UNCHANGED <<uptime, fieldVars>>
    PROVE  /\ NonceCmd(ch) => Gate!Begin(ch)
           /\ \A token \in Token : TokenJudged(ch, token) => Gate!Answer(ch)
           /\ LockCmd(ch) => Gate!End(ch)
<1>1. UNCHANGED <<Configuration, device_state, FactoryWindow>>
  BY DEF fieldVars, FactoryWindow, Configuration
<1>2. ASSUME NonceCmd(ch) PROVE Gate!Begin(ch)
  <2>1. Forgets /\ password_hash' = password_hash /\ last'.ch = ch
    BY <1>2 DEF NonceCmd, Forgets, Reply
  <2>2. InSession' = InSession
    BY <2>1, SettledSessions DEF InSession
  <2>3. Outstanding'[ch] = issued + 1
    BY <1>2 DEF NonceCmd, Outstanding, AuthTypeOK
  <2>4. Outstanding[ch] <= issued /\ issued + 1 # 0 /\ issued \in Nat
    BY BoundAssumption DEF GateInv, Outstanding, AuthTypeOK, Nonce
  <2>5. \A c \in Channel \ {ch} : Outstanding'[c] = Outstanding[c]
    BY <1>2 DEF NonceCmd, Outstanding, AuthTypeOK
  <2>6. Outstanding' # Outstanding
    <3>1. Outstanding'[ch] # Outstanding[ch]
      BY <2>3, <2>4, BoundAssumption DEF Outstanding, AuthTypeOK, Nonce
    <3> QED BY <3>1
  <2> QED BY <1>1, <2>1, <2>2, <2>3, <2>4, <2>5, <2>6 DEF Gate!Begin
<1>3. ASSUME NEW token \in Token, TokenJudged(ch, token) PROVE Gate!Answer(ch)
  <2>1. nonce_valid' = [nonce_valid EXCEPT ![ch] = FALSE]
    BY <1>3 DEF TokenJudged, channel_lock
  <2>2. /\ nonce' = nonce /\ password_hash' = password_hash /\ nonce_valid[ch]
        /\ last'.ch = ch
    BY <1>3 DEF TokenJudged, Reply
  <2>3. Outstanding[ch] # 0
    BY <2>2 DEF Outstanding, GateInv
  <2>4. InSession' \in {InSession \cup {ch}, InSession \ {ch}}
    <3>1. CASE channel_unlock(ch)
      BY <3>1, UnlockSessions, OpenedSession
    <3>2. CASE channel_lock(ch)
      BY <3>2, LockSessions, ClosedSession
    <3> QED BY <1>3, <3>1, <3>2 DEF TokenJudged
  <2> QED BY <1>1, <2>1, <2>2, <2>3, <2>4, DroppedChallenge DEF Gate!Answer
<1>4. ASSUME LockCmd(ch) PROVE Gate!End(ch)
  <2>1. /\ channel_lock(ch) /\ nonce' = nonce /\ password_hash' = password_hash
        /\ last'.ch = ch
    BY <1>4 DEF LockCmd, Reply
  <2>2. nonce_valid' = [nonce_valid EXCEPT ![ch] = FALSE]
    BY <2>1 DEF channel_lock
  <2>3. InSession' = InSession \ {ch}
    BY <2>1, LockSessions, ClosedSession
  <2> QED BY <1>1, <2>1, <2>2, <2>3, DroppedChallenge DEF Gate!End
<1> QED BY <1>2, <1>3, <1>4

\* The commands on the configuration.
LEMMA ConfigRefines ==
    ASSUME AuthTypeOK, FieldsTypeOK, NEW ch \in Channel
    PROVE  /\ \A q \in WriteReqs : Write(ch, q) => Gate!Configure(ch)
           /\ \A hash \in Hash : ChangePwd(ch, hash) /\ UNCHANGED <<uptime, fieldVars>>
                                    => Gate!ChangeSecret(ch)
           /\ PowerOn(ch) \/ PowerOff(ch) => Gate!Switch(ch)
           /\ FactoryReset(ch) => Gate!Reset(ch)
<1>1. app_auth_check_write(ch) = "OK" => ch \in InSession
  BY CheckedInSession DEF InSession
<1>2. ASSUME NEW q \in WriteReqs, Write(ch, q) PROVE Gate!Configure(ch)
  <2>1. UNCHANGED <<Outstanding, InSession, password_hash>>
    BY <1>2, SameGate DEF Write, authVars, Forgets
  <2>2. FactoryWindow' = FALSE
    BY <1>2 DEF Write, FactoryWindow, FieldsTypeOK
  <2> QED BY <1>1, <1>2, <2>1, <2>2 DEF Write, Reply, Gate!Configure
<1>3. ASSUME NEW hash \in Hash, ChangePwd(ch, hash), UNCHANGED <<uptime, fieldVars>>
      PROVE  Gate!ChangeSecret(ch)
  <2>1. UNCHANGED <<Outstanding, InSession>>
    BY <1>3, SameGate DEF ChangePwd, Forgets
  <2>2. UNCHANGED <<Configuration, device_state, FactoryWindow>>
    BY <1>3 DEF fieldVars, FactoryWindow, Configuration
  <2> QED BY <1>1, <1>3, <2>1, <2>2 DEF ChangePwd, Reply, Gate!ChangeSecret
<1>4. ASSUME PowerOn(ch) \/ PowerOff(ch) PROVE Gate!Switch(ch)
  <2>1. UNCHANGED <<Outstanding, InSession, password_hash, Configuration>>
    BY <1>4, SameGate DEF PowerOn, PowerOff, authVars, Forgets, Configuration
  <2>2. FactoryWindow' = FALSE
    BY <1>4 DEF PowerOn, PowerOff, FactoryWindow
  <2> QED BY <1>1, <1>4, <2>1, <2>2 DEF PowerOn, PowerOff, Reply, Gate!Switch
<1>5. ASSUME FactoryReset(ch) PROVE Gate!Reset(ch)
  <2>1. UNCHANGED <<Outstanding, InSession>>
    BY <1>5, SameGate DEF FactoryReset, Forgets
  <2>2. FactoryWindow' = TRUE /\ device_state' = "FACTORY"
    BY <1>5 DEF FactoryReset, app_fields_init, FactoryWindow
  <2>3. Configuration' = [f \in Config |-> Defaults[f]]
    BY <1>5 DEF FactoryReset, app_fields_init, Configuration, Stored
  <2> QED BY <1>1, <1>5, <2>1, <2>2, <2>3
          DEF FactoryReset, Reply, Gate!Reset, Gate!FactoryState
<1> QED BY <1>2, <1>3, <1>4, <1>5

\* The events.
LEMMA EventRefines ==
    ASSUME AuthTypeOK
    PROVE  /\ Disconnect => Gate!End("BLE")
           /\ Tick => Gate!Expire("NFC") \/ Gate!Look
           /\ Reboot => Gate!Restart
           /\ \A s \in ShellSets : ShellSet(s[1], s[2]) => Gate!Override
           /\ Settled => Gate!Look
<1>1. ASSUME Disconnect PROVE Gate!End("BLE")
  <2>1. /\ ble_unlocked' = FALSE /\ nonce' = nonce /\ "BLE" \in Channel
        /\ nonce_valid' = [nonce_valid EXCEPT !["BLE"] = FALSE]
        /\ UNCHANGED <<nfc_auth_until, uptime, password_hash, fieldVars>>
        /\ last'.ch = "BLE"
    BY <1>1 DEF Disconnect, app_auth_ble_disconnect, Channel, Reply
  <2>2. Session("BLE")' = FALSE /\ \A c \in Channel \ {"BLE"} : Session(c)' = Session(c)
    BY <2>1, Sessions DEF Channel
  <2>3. InSession' = InSession \ {"BLE"}
    BY <2>1, <2>2, ClosedSession
  <2>4. Outstanding' = [Outstanding EXCEPT !["BLE"] = 0]
    BY <2>1, DroppedChallenge
  <2>5. UNCHANGED <<Configuration, device_state, FactoryWindow>>
    BY <2>1 DEF fieldVars, FactoryWindow, Configuration
  <2> QED BY <2>1, <2>3, <2>4, <2>5 DEF Gate!End
<1>2. ASSUME Tick PROVE Gate!Expire("NFC") \/ Gate!Look
  <2>1. /\ UNCHANGED <<authVars, fieldVars>> /\ uptime' = uptime + 1
        /\ uptime \in Nat /\ "NFC" \in Channel
    BY <1>2, BoundAssumption DEF Tick, AuthTypeOK, Channel
  <2>2. Session("BLE")' = Session("BLE")
    BY <2>1, Sessions DEF authVars
  <2>3. Session("NFC")' = Session("NFC") \/ Session("NFC")' = FALSE
    <3>1. \/ NfcOpen(nfc_auth_until', uptime') = NfcOpen(nfc_auth_until, uptime)
          \/ NfcOpen(nfc_auth_until', uptime') = FALSE
      BY <2>1 DEF NfcOpen, authVars, AuthTypeOK
    <3> QED BY <3>1, Sessions
  <2>4. Outstanding' = Outstanding
    BY <2>1 DEF authVars, Outstanding
  <2>5. UNCHANGED <<Configuration, device_state, FactoryWindow, password_hash>>
    BY <2>1 DEF authVars, fieldVars, FactoryWindow, Configuration
  <2>6. CASE Session("NFC")' = Session("NFC")
    BY <2>2, <2>4, <2>5, <2>6 DEF InSession, Channel, Gate!Look
  <2>7. CASE Session("NFC")' = FALSE
    <3>1. InSession' = InSession \ {"NFC"}
      BY <2>1, <2>2, <2>7, ClosedSession DEF Channel
    <3> QED BY <2>4, <2>5, <3>1 DEF Gate!Expire
  <2> QED BY <2>3, <2>6, <2>7
<1>3. ASSUME Reboot PROVE Gate!Restart
  <2>1. /\ device_state' = "FACTORY" /\ FactoryWindow' = TRUE
        /\ password_hash' = DefaultHash /\ last'.ch = "BOARD"
        /\ Configuration' = [f \in Config |-> Defaults[f]]
    BY <1>3 DEF Reboot, Reply, AuthRestart, FieldsRestart, FactoryWindow, Configuration
  <2>2. Outstanding' = [ch \in Channel |-> 0]
    BY <1>3 DEF Reboot, AuthRestart, Outstanding
  <2>3. InSession' = {}
    <3>1. ble_unlocked' = FALSE /\ NfcOpen(nfc_auth_until', uptime') = FALSE
      BY <1>3 DEF Reboot, AuthRestart, NfcOpen
    <3> QED BY <3>1, Sessions DEF InSession, Channel
  <2> QED BY <2>1, <2>2, <2>3 DEF Gate!Restart, Gate!Start, Gate!FactoryState
<1>4. ASSUME NEW s \in ShellSets, ShellSet(s[1], s[2]) PROVE Gate!Override
  <2>1. UNCHANGED <<Outstanding, InSession>>
    BY <1>4, SameGate DEF ShellSet, authVars, Forgets
  <2>2. UNCHANGED <<device_state, FactoryWindow, password_hash>>
    BY <1>4 DEF ShellSet, authVars, FactoryWindow
  <2> QED BY <1>4, <2>1, <2>2 DEF ShellSet, Reply, Gate!Override
<1>5. ASSUME Settled PROVE Gate!Look
  <2>1. UNCHANGED <<Outstanding, InSession>>
    BY <1>5, SameGate DEF Settled
  <2> QED BY <1>5, <2>1 DEF Settled, Gate!Look, FactoryWindow, Configuration
<1> QED BY <1>1, <1>2, <1>3, <1>4, <1>5

\* Every step of the protocol is one of the gate's, or none (app_protocol.c:391).
LEMMA GateStep ==
    ASSUME AuthTypeOK, FieldsTypeOK, GateInv, [Next]_vars
    PROVE  [Gate!Next]_gateVars
<1>1. CASE UNCHANGED vars
  <2>1. Forgets /\ UNCHANGED <<nonce, nonce_valid>>
    BY <1>1 DEF vars, authVars, Forgets
  <2>2. UNCHANGED <<last.ch, Configuration, device_state, FactoryWindow, password_hash>>
    BY <1>1 DEF vars, observed, authVars, fieldVars, FactoryWindow, Configuration
  <2> QED BY <2>1, <2>2, SameGate DEF gateVars
<1>2. CASE Next
  BY <1>2, GateSteps, AuthRefines, ConfigRefines, EventRefines
  DEF Gate!Next, Channel
<1> QED BY <1>1, <1>2

LEMMA GateInit == Init => Gate!Init
<1> SUFFICES ASSUME Init PROVE Gate!Init
  OBVIOUS
<1>1. /\ device_state = "FACTORY" /\ FactoryWindow = TRUE /\ password_hash = DefaultHash
      /\ last.ch = "BOARD" /\ Configuration = [f \in Config |-> Defaults[f]]
  BY DEF Init, AuthInit, FieldsInit, FactoryWindow, Configuration
<1>2. Outstanding = [ch \in Channel |-> 0]
  BY DEF Init, AuthInit, Outstanding
<1>3. InSession = {}
  <2>1. ble_unlocked = FALSE /\ NfcOpen(nfc_auth_until, uptime) = FALSE
    BY DEF Init, AuthInit, NfcOpen
  <2> QED BY <2>1, Sessions DEF InSession, Channel
<1> QED BY <1>1, <1>2, <1>3 DEF Gate!Init, Gate!Start, Gate!FactoryState

\* The two channels, with all their checks, lengths and lazily expiring
\* sessions, are a configuration behind a gate: whatever a channel does to it,
\* the gate was open to that channel (app_auth.c:489, app_protocol.c:256).
THEOREM ProtocolIsGate == Spec => ImplementsGate
<1>1. Init => GateInv
  BY BoundAssumption DEF Init, AuthInit, GateInv, Nonce
<1>2. TypeOK /\ GateInv /\ [Next]_vars => GateInv'
  BY GateInvStep DEF TypeOK
<1>3. TypeOK /\ GateInv /\ [Next]_vars => [Gate!Next]_gateVars
  BY GateStep DEF TypeOK
<1> QED
  BY <1>1, <1>2, <1>3, GateInit, TypeCorrect, PTL
  DEF Spec, ImplementsGate, Gate!Spec, gateVars
=============================================================================
