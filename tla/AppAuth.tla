------------------------------ MODULE AppAuth ------------------------------
(* app_auth.c: challenge-response authentication of the two channels that   *)
(* carry commands.  The device issues a nonce, the peer answers with        *)
(* HMAC(password hash, nonce || sn), and a correct answer unlocks the       *)
(* channel: BLE until the link drops, NFC for NFC_AUTH_WINDOW_MS.           *)
(* SHA-256 and HMAC are free constructors: a token is the pair it was made  *)
(* from.  The serial number is a constant of the firmware and is left out.  *)
EXTENDS Integers, FiniteSets

CONSTANTS Hash,                 \* password hashes that occur
          DefaultHash,          \* compute_password_hash(DEFAULT_PASSWORD, sn, salt)
          NFC_AUTH_WINDOW_MS,   \* length of an NFC session, in ticks of uptime
          MaxNonce,             \* bound: nonces the generator hands out
          MaxUptime             \* bound: ticks of the uptime clock

ASSUME HashAssumption == DefaultHash \in Hash
ASSUME WindowAssumption == NFC_AUTH_WINDOW_MS \in Nat \ {0}
ASSUME BoundAssumption == MaxNonce \in Nat /\ MaxUptime \in Nat

VARIABLES password_hash,    \* g_password_hash
          nonce,            \* g_nonce_ble, g_nonce_nfc
          nonce_valid,      \* g_nonce_ble_valid, g_nonce_nfc_valid
          ble_unlocked,     \* g_ble_unlocked
          nfc_auth_until,   \* g_nfc_auth_until_ms, 0 when locked
          uptime,           \* k_uptime_get()
          issued,           \* nonces sys_rand_get has produced: each is new
          \* What an observer of the replies knows; no guard reads these.
          last,             \* the last step: channel, command, status replied
          proved,           \* when the channel last proved the password, or Never
          spent             \* nonces some token was judged against

observed == <<last, proved, spent>>
authVars == <<password_hash, nonce, nonce_valid, ble_unlocked, nfc_auth_until>>

Channel == {"BLE", "NFC"}
Nonce == 0 .. MaxNonce


Hmac(hash, n) == <<hash, n>>
Token == {Hmac(h, n) : h \in Hash, n \in Nonce}

Never == -1

Reply(ch, cmd, status) ==
    /\ last' = [ch |-> ch, cmd |-> cmd, status |-> status]
    /\ proved' =
         CASE cmd = "REBOOT" -> [c \in Channel |-> Never]
           [] cmd = "TOKEN" /\ status = "OK" -> [proved EXCEPT ![ch] = uptime]
           [] cmd \in {"LOCK", "DISCONNECT"} \/ status = "AUTH_FAILED" ->
                 [proved EXCEPT ![ch] = Never]
           [] OTHER -> proved
    /\ spent' = IF cmd = "TOKEN" /\ status \in {"OK", "AUTH_FAILED"}
                THEN spent \cup {nonce[ch]} ELSE spent

\* ch gave a correct answer that still counts: BLE on this connection, NFC
\* within the window.
Proven(ch) == /\ proved[ch] # Never
              /\ ch = "NFC" => uptime - proved[ch] <= NFC_AUTH_WINDOW_MS

AuthInit ==
    /\ password_hash = DefaultHash
    /\ nonce = [ch \in Channel |-> 0]
    /\ nonce_valid = [ch \in Channel |-> FALSE]
    /\ ble_unlocked = FALSE
    /\ nfc_auth_until = 0

AuthRestart ==
    /\ password_hash' = DefaultHash
    /\ nonce' = [ch \in Channel |-> 0]
    /\ nonce_valid' = [ch \in Channel |-> FALSE]
    /\ ble_unlocked' = FALSE
    /\ nfc_auth_until' = 0
-----------------------------------------------------------------------------
(* app_auth_check_write(): the status it returns, and its side effect, an   *)
(* expired NFC session is forgotten by the check that finds it expired.     *)

\* Mutation: an NFC session never expires.
check_write_no_expiry(ch) ==
    IF ch = "BLE" THEN IF ble_unlocked THEN "OK" ELSE "AUTH_REQUIRED"
    ELSE IF nfc_auth_until = 0 THEN "AUTH_REQUIRED" ELSE "OK"

app_auth_check_write(ch) ==
    IF ch = "BLE" THEN IF ble_unlocked THEN "OK" ELSE "AUTH_REQUIRED"
    ELSE IF nfc_auth_until = 0 THEN "AUTH_REQUIRED"
    ELSE IF uptime <= nfc_auth_until THEN "OK" ELSE "AUTH_EXPIRED"

AfterCheck(ch) ==
    nfc_auth_until' = IF app_auth_check_write(ch) = "AUTH_EXPIRED"
                      THEN 0 ELSE nfc_auth_until

\* Mutation: a wrong answer leaves the nonce outstanding.
channel_lock_keeps_nonce(ch) ==
    /\ ble_unlocked' = (ble_unlocked /\ ch # "BLE")
    /\ nfc_auth_until' = IF ch = "NFC" THEN 0 ELSE nfc_auth_until
    /\ UNCHANGED nonce_valid

channel_lock(ch) ==
    /\ ble_unlocked' = (ble_unlocked /\ ch # "BLE")
    /\ nfc_auth_until' = IF ch = "NFC" THEN 0 ELSE nfc_auth_until
    /\ nonce_valid' = [nonce_valid EXCEPT ![ch] = FALSE]

\* Mutation: the window is converted to milliseconds twice.
channel_unlock_unit(ch) ==
    /\ ble_unlocked' = (ble_unlocked \/ ch = "BLE")
    /\ nfc_auth_until' = IF ch = "NFC" THEN uptime + NFC_AUTH_WINDOW_MS * 1000
                         ELSE nfc_auth_until

channel_unlock(ch) ==
    /\ ble_unlocked' = (ble_unlocked \/ ch = "BLE")
    /\ nfc_auth_until' = IF ch = "NFC" THEN uptime + NFC_AUTH_WINDOW_MS
                         ELSE nfc_auth_until
-----------------------------------------------------------------------------
(* app_auth_handle_cmd(), one action per subcommand.                        *)

NonceCmd(ch) ==
    /\ issued < MaxNonce
    /\ issued' = issued + 1
    /\ nonce' = [nonce EXCEPT ![ch] = issued + 1]
    /\ nonce_valid' = [nonce_valid EXCEPT ![ch] = TRUE]
    /\ Reply(ch, "NONCE", "OK")
    /\ UNCHANGED <<password_hash, ble_unlocked, nfc_auth_until>>

\* The nonce is consumed whatever the answer; a wrong one also locks.
TokenJudged(ch, token) ==
    /\ nonce_valid[ch]
    /\ IF token = Hmac(password_hash, nonce[ch])
       THEN /\ nonce_valid' = [nonce_valid EXCEPT ![ch] = FALSE]
            /\ channel_unlock(ch)
            /\ Reply(ch, "TOKEN", "OK")
       ELSE channel_lock(ch) /\ Reply(ch, "TOKEN", "AUTH_FAILED")
    /\ UNCHANGED <<password_hash, nonce, issued>>

\* Too short to hold a token, or no nonce is outstanding: nothing changes.
TokenRefused(ch) ==
    /\ \/ Reply(ch, "TOKEN", "PARAM_LEN")
       \/ ~nonce_valid[ch] /\ Reply(ch, "TOKEN", "AUTH_STATE")
    /\ UNCHANGED <<authVars, issued>>

ChangePwd(ch, hash) ==
    /\ app_auth_check_write(ch) = "OK"
    /\ password_hash' = hash
    /\ Reply(ch, "CHANGE_PWD", "OK")
    /\ UNCHANGED <<nonce, nonce_valid, ble_unlocked, nfc_auth_until, issued>>

\* The session is checked before the length.
ChangePwdRefused(ch) ==
    /\ LET st == app_auth_check_write(ch)
       IN  Reply(ch, "CHANGE_PWD", IF st = "OK" THEN "PARAM_LEN" ELSE st)
    /\ AfterCheck(ch)
    /\ UNCHANGED <<password_hash, nonce, nonce_valid, ble_unlocked, issued>>

LockCmd(ch) ==
    /\ channel_lock(ch)
    /\ Reply(ch, "LOCK", "OK")
    /\ UNCHANGED <<password_hash, nonce, issued>>

AuthUnsupported(ch) ==
    /\ Reply(ch, "AUTH", "UNSUPPORTED")
    /\ UNCHANGED <<authVars, issued>>

app_auth_handle_cmd(ch) ==
    \/ NonceCmd(ch)
    \/ \E token \in Token : TokenJudged(ch, token)
    \/ TokenRefused(ch)
    \/ \E hash \in Hash : ChangePwd(ch, hash)
    \/ ChangePwdRefused(ch)
    \/ LockCmd(ch)
    \/ AuthUnsupported(ch)

\* Mutation: the nonces of both channels are dropped.
disconnect_drops_both ==
    /\ ble_unlocked' = FALSE
    /\ nonce_valid' = [ch \in Channel |-> FALSE]
    /\ Reply("BLE", "DISCONNECT", "OK")
    /\ UNCHANGED <<password_hash, nonce, nfc_auth_until, issued>>

\* Called by the BLE disconnected callback.
app_auth_ble_disconnect ==
    /\ ble_unlocked' = FALSE
    /\ nonce_valid' = [nonce_valid EXCEPT !["BLE"] = FALSE]
    /\ Reply("BLE", "DISCONNECT", "OK")
    /\ UNCHANGED <<password_hash, nonce, nfc_auth_until, issued>>

AuthTypeOK ==
    /\ password_hash \in Hash
    /\ nonce \in [Channel -> Nonce]
    /\ nonce_valid \in [Channel -> BOOLEAN]
    /\ ble_unlocked \in BOOLEAN
    /\ nfc_auth_until \in 0 .. (MaxUptime + NFC_AUTH_WINDOW_MS)
    /\ uptime \in 0 .. MaxUptime
    /\ issued \in Nonce
    /\ proved \in [Channel -> -1 .. MaxUptime]
    /\ spent \subseteq Nonce
=============================================================================
