---------------------------- MODULE AppProtocol ----------------------------
(* app_protocol.c: process_app_payload(), the one entry point of the NFC    *)
(* and the BLE commands, over the authentication of AppAuth and the field   *)
(* registry of AppFields; with the shell's way into the registry and the    *)
(* reboot that forgets it all.  One action per handler outcome.             *)
EXTENDS AppAuth, AppFields, Loops, FiniteSetsExt

CONSTANTS ReadReqs,     \* CMD 0x01 payloads: [ts, count, fields]
          WriteReqs,    \* CMD 0x02 payloads: [count, tlvs, whole]
          ShellSets     \* <<name, value>> pairs of "config set"

\* A value that has its field's length decodes to a number of that width.
Decodes(t) ==
    t.len = field_value_len(t.fid) =>
       /\ t.fid = "MODE" => t.val[1] \in 0 .. MAX_UINT8
       /\ t.fid = "UPDATE_INTERVAL" => t.val[1] \in 0 .. MAX_UINT16
       /\ t.fid = "INSTALL_LOCATION" => t.val[1] \in INT32 /\ t.val[2] \in INT32

ASSUME RequestAssumption ==
    /\ \A r \in ReadReqs : r.ts \in Nat /\ r.count \in 0 .. MAX_UINT8 /\ Len(r.fields) \in Nat
    /\ \A q \in WriteReqs : /\ q.count \in 0 .. MAX_UINT8
                           /\ Len(q.tlvs) \in Nat
                           /\ \A i \in 1 .. Len(q.tlvs) :
                                 q.tlvs[i].len \in 0 .. MAX_UINT8 /\ Decodes(q.tlvs[i])
ASSUME ShellAssumption == ShellSets \subseteq Stored \X Int

vars == <<authVars, uptime, issued, observed, fieldVars>>

WRITE_CACHE_MAX == 16
APP_PROTO_RESP_MAX == 256

FactoryWindow == device_state = "FACTORY" /\ ~factory_init_done
-----------------------------------------------------------------------------
(* handle_cmd_read().  The list length is kept in a uint8_t.                *)

\* Bytes of an answer with the first n of these fields.
AnswerLen(fields, n) ==
    Loop(Nat, [p \in Nat \X Nat |-> p[2] + 2 + field_value_len(fields[p[1] + 1])], n, 3)

ReadLen(r) == AnswerLen(r.fields, r.count)

ReadStatus(r) ==
    IF r.count = 0 THEN "OK"
    ELSE IF r.count > Len(r.fields) % 256 THEN "PARAM_LEN"
    ELSE IF \E i \in 1 .. r.count : r.fields[i] \notin ReadableField
         THEN "UNSUPPORTED"
    ELSE IF ReadLen(r) > APP_PROTO_RESP_MAX THEN "UNKNOWN" ELSE "OK"

\* The time is taken over before the request is validated.
Read(ch, r) ==
    /\ unixtime' = r.ts
    /\ Reply(ch, "READ", ReadStatus(r))
    /\ UNCHANGED <<authVars, issued, uptime, g, device_state, factory_init_done>>
-----------------------------------------------------------------------------
(* handle_cmd_write(): structure, then each field, then the permission,     *)
(* then all the assignments.                                                *)

\* Phases 1 and 2: the first TLV that is wrong, or one too many, decides.
Wrong(q) == {i \in 1 .. q.count : \/ i > WRITE_CACHE_MAX
                                  \/ app_field_validate(q.tlvs[i]) # "OK"}

WriteStatus(q) ==
    IF q.count = 0 \/ ~q.whole \/ Len(q.tlvs) % 256 # q.count THEN "PARAM_LEN"
    ELSE IF Wrong(q) = {} THEN "OK"
    ELSE IF Min(Wrong(q)) > WRITE_CACHE_MAX THEN "PARAM_LEN"
    ELSE app_field_validate(q.tlvs[Min(Wrong(q))])

\* Phase 4 as a whole: an entry ends with the value of the last TLV that
\* assigns it.
Apply(h, q) ==
    LET w(i) == app_field_set(q.tlvs[i].fid, q.tlvs[i].val)
    IN  [f \in Stored |->
            LET writers == {i \in 1 .. q.count : f \in DOMAIN w(i)}
            IN  IF writers = {} THEN h[f] ELSE w(Max(writers))[f]]

\* Mutation: phase 5 is left out.
Write_window_stays(ch, q) ==
    /\ WriteStatus(q) = "OK"
    /\ FactoryWindow \/ app_auth_check_write(ch) = "OK"
    /\ g' = Apply(g, q)
    /\ Reply(ch, "WRITE", "OK")
    /\ UNCHANGED <<authVars, issued, uptime, device_state, factory_init_done, unixtime>>

\* Phases 4 and 5, with app_field_mark_factory_init_done().
Write(ch, q) ==
    /\ WriteStatus(q) = "OK"
    /\ FactoryWindow \/ app_auth_check_write(ch) = "OK"
    /\ g' = Apply(g, q)
    /\ factory_init_done' = (factory_init_done \/ FactoryWindow)
    /\ device_state' = IF FactoryWindow THEN "POWER_ON" ELSE device_state
    /\ Reply(ch, "WRITE", "OK")
    /\ UNCHANGED <<authVars, issued, uptime, unixtime>>

WriteInvalid(ch, q) ==
    /\ WriteStatus(q) # "OK"
    /\ Reply(ch, "WRITE", WriteStatus(q))
    /\ UNCHANGED <<authVars, issued, uptime, fieldVars>>

\* Mutation: the fields are assigned before the permission is checked.
WriteDenied_applied(ch, q) ==
    /\ WriteStatus(q) = "OK"
    /\ ~FactoryWindow
    /\ app_auth_check_write(ch) # "OK"
    /\ Reply(ch, "WRITE", app_auth_check_write(ch))
    /\ AfterCheck(ch)
    /\ g' = Apply(g, q)
    /\ UNCHANGED <<password_hash, nonce, nonce_valid, ble_unlocked, issued, uptime>>
    /\ UNCHANGED <<device_state, factory_init_done, unixtime>>

\* Phase 3 is reached by a valid request only.
WriteDenied(ch, q) ==
    /\ WriteStatus(q) = "OK"
    /\ ~FactoryWindow
    /\ app_auth_check_write(ch) # "OK"
    /\ Reply(ch, "WRITE", app_auth_check_write(ch))
    /\ AfterCheck(ch)
    /\ UNCHANGED <<password_hash, nonce, nonce_valid, ble_unlocked>>
    /\ UNCHANGED <<issued, uptime, fieldVars>>
-----------------------------------------------------------------------------
(* handle_cmd_action().                                                     *)

PowerOn(ch) ==
    /\ device_state' = "POWER_ON"
    /\ Reply(ch, "POWER_ON", "OK")
    /\ UNCHANGED <<authVars, issued, uptime, g, factory_init_done, unixtime>>

PowerOff(ch) ==
    /\ app_auth_check_write(ch) = "OK"
    /\ device_state' = "POWER_OFF"
    /\ Reply(ch, "POWER_OFF", "OK")
    /\ UNCHANGED <<authVars, issued, uptime, g, factory_init_done, unixtime>>

\* With the confirmation "FACTORY"; app_auth_reset_password().
FactoryReset(ch) ==
    /\ app_auth_check_write(ch) = "OK"
    /\ app_fields_init
    /\ password_hash' = DefaultHash
    /\ Reply(ch, "FACTORY", "OK")
    /\ UNCHANGED <<nonce, nonce_valid, ble_unlocked, nfc_auth_until>>
    /\ UNCHANGED <<issued, uptime>>

\* No session, or (FACTORY only) a session but no confirmation.
ActionDenied(ch) ==
    /\ LET st == app_auth_check_write(ch)
       IN  \/ st # "OK" /\ \E c \in {"POWER_OFF", "FACTORY"} : Reply(ch, c, st)
           \/ st = "OK" /\ Reply(ch, "FACTORY", "PARAM_VALUE")
    /\ AfterCheck(ch)
    /\ UNCHANGED <<password_hash, nonce, nonce_valid, ble_unlocked>>
    /\ UNCHANGED <<issued, uptime, fieldVars>>

\* Payloads shorter than their command's header, and unknown codes.
Malformed(ch) ==
    /\ \/ \E c \in {"READ", "WRITE", "ACTION"} : Reply(ch, c, "PARAM_LEN")
       \/ \E c \in {"ACTION", "OTHER"} : Reply(ch, c, "UNSUPPORTED")
    /\ UNCHANGED <<authVars, issued, uptime, fieldVars>>
-----------------------------------------------------------------------------
process_app_payload(ch) ==
    \/ app_auth_handle_cmd(ch) /\ UNCHANGED <<uptime, fieldVars>>
    \/ \E r \in ReadReqs : Read(ch, r)
    \/ \E q \in WriteReqs : Write(ch, q) \/ WriteInvalid(ch, q) \/ WriteDenied(ch, q)
    \/ PowerOn(ch)
    \/ PowerOff(ch)
    \/ FactoryReset(ch)
    \/ ActionDenied(ch)
    \/ Malformed(ch)

Disconnect == app_auth_ble_disconnect /\ UNCHANGED <<uptime, fieldVars>>

\* "config set": app_config_set_*() assigns without validating.
ShellSet(name, value) ==
    /\ g' = [g EXCEPT ![name] = value]
    /\ Reply("SHELL", "SET", "OK")
    /\ UNCHANGED <<authVars, issued, uptime, device_state, factory_init_done, unixtime>>

\* "config get" sends itself a CMD 0x01 whose time is 0.
ShellGet ==
    /\ unixtime' = 0
    /\ Reply("SHELL", "READ", "OK")
    /\ UNCHANGED <<authVars, issued, uptime, g, device_state, factory_init_done>>

Tick ==
    /\ uptime < MaxUptime
    /\ uptime' = uptime + 1
    /\ Reply("CLOCK", "TICK", "OK")
    /\ UNCHANGED <<authVars, issued, fieldVars>>

\* Power cycle or sys_reboot(): main() initialises both modules again.
Reboot ==
    /\ AuthRestart
    /\ FieldsRestart
    /\ uptime' = 0
    /\ Reply("BOARD", "REBOOT", "OK")
    /\ UNCHANGED issued

Init ==
    /\ AuthInit
    /\ FieldsInit
    /\ uptime = 0 /\ issued = 0
    /\ last = [ch |-> "BOARD", cmd |-> "REBOOT", status |-> "OK"]
    /\ proved = [ch \in Channel |-> Never]
    /\ spent = {}

Next ==
    \/ \E ch \in Channel : process_app_payload(ch)
    \/ Disconnect
    \/ \E s \in ShellSets : ShellSet(s[1], s[2])
    \/ ShellGet
    \/ Tick
    \/ Reboot

Spec == Init /\ [][Next]_vars
-----------------------------------------------------------------------------
(* Properties.                                                              *)

TypeOK == AuthTypeOK /\ FieldsTypeOK

\* A nonce is good for one answer.  Whatever happens between the channels,
\* across locks, resets and reboots, a nonce a token was judged against is
\* never outstanding again (app_auth.c:421), and the two channels never share
\* an outstanding nonce (app_auth.c:48).
NonceUsedOnce ==
    /\ \A ch \in Channel : nonce_valid[ch] => nonce[ch] \notin spent
    /\ (nonce_valid["BLE"] /\ nonce_valid["NFC"]) => nonce["BLE"] # nonce["NFC"]

\* A protected command succeeds only on a channel whose last judged answer
\* was right, was not followed by a lock or a disconnect, and on NFC is not
\* older than the window; the one exception is a write to a device fresh from
\* the factory.  However the clock, the other channel and the lazy expiry
\* check interleave (app_auth.c:489, app_protocol.c:256).
Protected == {"WRITE", "POWER_OFF", "FACTORY", "CHANGE_PWD"}

AuthenticatedChange ==
    [][last'.ch \in Channel /\ last'.cmd \in Protected /\ last'.status = "OK"
       => Proven(last'.ch) \/ (last'.cmd = "WRITE" /\ FactoryWindow)]_vars

\* The factory window serves one write.  An accepted write closes it, and
\* only a reset or a reboot opens it again: no order of power commands and
\* writes brings it back (app_protocol.c:277).
FactoryWindowOnce ==
    [][/\ last'.cmd = "WRITE" /\ last'.status = "OK" => ~FactoryWindow'
       /\ ~FactoryWindow /\ FactoryWindow' => last'.cmd \in {"FACTORY", "REBOOT"}]_vars

\* All or nothing.  A command answered with an error leaves the registry, the
\* device state and the password as they were (app_protocol.c:212), and the
\* configuration changes only by an accepted write, reset, reboot or the shell.
RefusedChangesNothing ==
    [][/\ last'.status # "OK" => UNCHANGED <<g, device_state, factory_init_done,
                                           password_hash>>
       /\ g' # g => last'.cmd \in {"WRITE", "FACTORY", "SET", "REBOOT"}]_vars

\* What one channel does, with good or bad answers, never touches the other
\* channel's challenge or session (app_auth.c:48).
Session(ch) == IF ch = "BLE" THEN ble_unlocked
               ELSE nfc_auth_until > 0 /\ uptime <= nfc_auth_until

ChannelsIndependent ==
    [][\A ch \in Channel : last'.ch \in Channel \ {ch} =>
          /\ nonce_valid'[ch] = nonce_valid[ch] /\ nonce'[ch] = nonce[ch]
          /\ Session(ch)' = Session(ch)]_vars

\* Every configuration a peer can bring about satisfies the limits the
\* validation stands for, and the location reported by the positioning fields
\* is the installed one; the shell is left out (ShellSets = {}).
ConfigInRange ==
    /\ InRange("MODE", <<g["mode"]>>)
    /\ InRange("INSTALL_LOCATION", <<g["install_lat"], g["install_lng"]>>)
    /\ g["latitude"] = g["install_lat"] /\ g["longitude"] = g["install_lng"]
    /\ g["update_interval"] \in 0 .. MAX_UINT16

\* What AppProtocol promises: ConfigGate, where an NFC session lasts exactly
\* as long as its window although the code forgets it only at the next check.
\* The configuration is the registry without the sensor values.
Outstanding == [ch \in Channel |-> IF nonce_valid[ch] THEN nonce[ch] ELSE 0]
InSession == {ch \in Channel : Session(ch)}
Configuration == [f \in Config |-> g[f]]

Gate == INSTANCE ConfigGate WITH
    NoChallenge <- 0,
    FactoryConfig <- [f \in Config |-> Defaults[f]],
    FactorySecret <- DefaultHash,
    FactoryPower <- "FACTORY",
    Operator <- "SHELL",
    Board <- "BOARD",
    actor <- last.ch,
    config <- Configuration,
    power <- device_state,
    fresh <- FactoryWindow,
    secret <- password_hash,
    challenge <- Outstanding,
    session <- InSession

\* AppProtocol implements ConfigGate (app_auth.c:328, app_protocol.c:391): a
\* command of a channel changes the configuration, the password or the state
\* only as far as the gate is open to that very channel, and what opens it, on
\* either channel, is an answer to an outstanding challenge.
ImplementsGate == Gate!Spec
=============================================================================
