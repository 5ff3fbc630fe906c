-------------------------------- MODULE Boot --------------------------------
(* main() from nfc_t4t_emulation_start() to its loop, with the commands of  *)
(* AppProtocol running meanwhile: the tag answers as soon as emulation has  *)
(* started, app_auth_init() and app_fields_init() come after that, and the  *)
(* BLE service last.  Before emulation starts no command can arrive.        *)
EXTENDS AppProtocol

CONSTANT ZeroHash       \* g_password_hash before app_auth_init()

VARIABLE phase          \* "emulating", "auth", "fields", "up"

bootVars == <<vars, phase>>

\* app_auth_init() sets the password and nothing else.
InitAuth ==
    /\ phase = "emulating" /\ phase' = "auth"
    /\ password_hash' = DefaultHash
    /\ Reply("BOARD", "INIT", "OK")
    /\ UNCHANGED <<nonce, nonce_valid, ble_unlocked, nfc_auth_until>>
    /\ UNCHANGED <<issued, uptime, fieldVars>>

InitFields ==
    /\ phase = "auth" /\ phase' = "fields"
    /\ app_fields_init
    /\ Reply("BOARD", "INIT", "OK")
    /\ UNCHANGED <<authVars, issued, uptime>>

\* ble_uart_init() succeeds.
StartBle ==
    /\ phase = "fields" /\ phase' = "up"
    /\ UNCHANGED vars

\* sys_reboot(), because ble_uart_init() failed or for any other reason.
BootReboot ==
    /\ FieldsRestart
    /\ password_hash' = ZeroHash
    /\ nonce' = [ch \in Channel |-> 0]
    /\ nonce_valid' = [ch \in Channel |-> FALSE]
    /\ ble_unlocked' = FALSE
    /\ nfc_auth_until' = 0
    /\ uptime' = 0
    /\ phase' = "emulating"
    /\ Reply("BOARD", "REBOOT", "OK")
    /\ UNCHANGED issued

Serve ==
    /\ \/ process_app_payload("NFC")
       \/ phase = "up" /\ (process_app_payload("BLE") \/ Disconnect)
       \/ Tick
    /\ UNCHANGED phase

BootInit ==
    /\ phase = "emulating"
    /\ password_hash = ZeroHash
    /\ nonce = [ch \in Channel |-> 0]
    /\ nonce_valid = [ch \in Channel |-> FALSE]
    /\ ble_unlocked = FALSE
    /\ nfc_auth_until = 0
    /\ FieldsInit
    /\ uptime = 0 /\ issued = 0
    /\ last = [ch |-> "BOARD", cmd |-> "REBOOT", status |-> "OK"]
    /\ proved = [ch \in Channel |-> Never]
    /\ spent = {}

BootNext == InitAuth \/ InitFields \/ StartBle \/ Serve \/ BootReboot

BootSpec == BootInit /\ [][BootNext]_bootVars
-----------------------------------------------------------------------------
(* A statement that does not hold.                                          *)

\* app_protocol.c:276: with its first accepted write a device leaves the
\* factory state; only a reset command or a restart brings it back.
WriteLeavesFactory ==
    [][~FactoryWindow /\ FactoryWindow' => last'.cmd \in {"FACTORY", "REBOOT"}]_bootVars
=============================================================================
