----------------------------- MODULE AppFields -----------------------------
(* app_fields.c: the registry of the values behind the FIELD_IDs, with the  *)
(* device state and the "factory initialisation done" flag.  Everything is  *)
(* in RAM.  A field value on the wire is big-endian bytes; here it is the   *)
(* sequence of integers those bytes decode to.                              *)
EXTENDS Integers, Sequences

VARIABLES g,                  \* the variable data of the registry, by name
          device_state,       \* g_device_state
          factory_init_done,  \* g_factory_init_done
          unixtime            \* g_unixtime

fieldVars == <<g, device_state, factory_init_done, unixtime>>

MAX_UINT8 == 255
MAX_UINT16 == 65535
INT32 == {x \in Int : -32768 <= x \div 65536 /\ x \div 65536 < 32768}
MAX_LAT == 900000000
MAX_LNG == 1800000000

DeviceState == {"FACTORY", "POWER_ON", "POWER_OFF"}

WritableField == {"MODE", "UPDATE_INTERVAL", "INSTALL_LOCATION"}
ReadableField == WritableField \cup
    {"DEVICE_STATE", "DEVICE_TYPE", "MODEL", "SN", "FW_VER", "HW_VER",
     "PROTOCOL_VERSION", "BATTERY", "TEMPERATURE", "DISTANCE", "POSITION",
     "GNSS_FIX", "LATITUDE", "LONGITUDE", "ALTITUDE"}

\* Bytes app_field_get() returns for a field, 0 when it does not exist.
field_value_len(fid) ==
    CASE fid \in {"DEVICE_STATE", "DEVICE_TYPE", "PROTOCOL_VERSION", "BATTERY",
                  "POSITION", "MODE", "GNSS_FIX"} -> 1
      [] fid \in {"TEMPERATURE", "DISTANCE", "UPDATE_INTERVAL", "ALTITUDE"} -> 2
      [] fid \in {"FW_VER", "HW_VER"} -> 3
      [] fid \in {"LATITUDE", "LONGITUDE"} -> 4
      [] fid = "SN" -> 6
      [] fid \in {"MODEL", "INSTALL_LOCATION"} -> 8
      [] OTHER -> 0

Sensor == {"battery", "temperature", "distance", "position"}
Config == {"mode", "update_interval", "install_lat", "install_lng",
           "gnss_fix", "latitude", "longitude", "altitude"}
Stored == Sensor \cup Config

Defaults ==
    [battery |-> 100, temperature |-> 250, distance |-> 15, position |-> 0,
     mode |-> 2, update_interval |-> 0,
     install_lat |-> 246087800, install_lng |-> 1180689300,
     gnss_fix |-> 1, latitude |-> 246087800, longitude |-> 1180689300,
     altitude |-> 15]

\* The initial values of the static variables.
FieldsInit ==
    /\ g = Defaults
    /\ device_state = "FACTORY"
    /\ factory_init_done = FALSE
    /\ unixtime = 0

FieldsRestart ==
    /\ g' = Defaults
    /\ device_state' = "FACTORY"
    /\ factory_init_done' = FALSE
    /\ unixtime' = 0

\* app_fields_init() leaves the sensor values and the time alone.
app_fields_init ==
    /\ g' = [f \in Stored |-> IF f \in Config THEN Defaults[f] ELSE g[f]]
    /\ device_state' = "FACTORY"
    /\ factory_init_done' = FALSE
    /\ UNCHANGED unixtime
-----------------------------------------------------------------------------
(* A TLV is [fid, len, val].                                                *)

InRange(fid, val) ==
    CASE fid = "MODE" -> val[1] \in 1 .. 3
      [] fid = "INSTALL_LOCATION" -> /\ val[1] \in -MAX_LAT .. MAX_LAT
                                     /\ val[2] \in -MAX_LNG .. MAX_LNG
      [] OTHER -> TRUE

\* Mutation: the values are not looked at.
validate_length_only(t) ==
    IF t.fid \notin WritableField THEN "UNSUPPORTED"
    ELSE IF t.len # field_value_len(t.fid) THEN "PARAM_LEN" ELSE "OK"

app_field_validate(t) ==
    IF t.fid \notin WritableField THEN "UNSUPPORTED"
    ELSE IF t.len # field_value_len(t.fid) THEN "PARAM_LEN"
    ELSE IF ~InRange(t.fid, t.val) THEN "PARAM_VALUE" ELSE "OK"

\* The entries of g that app_field_set() assigns, as a function.
app_field_set(fid, val) ==
    CASE fid = "MODE" -> [mode |-> val[1]]
      [] fid = "UPDATE_INTERVAL" -> [update_interval |-> val[1]]
      [] fid = "INSTALL_LOCATION" ->
            [install_lat |-> val[1], install_lng |-> val[2], gnss_fix |-> 1,
             latitude |-> val[1], longitude |-> val[2], altitude |-> 0]

\* g overwritten by the entries of w
Assign(h, w) == [f \in Stored |-> IF f \in DOMAIN w THEN w[f] ELSE h[f]]

FieldsTypeOK ==
    /\ g \in [Stored -> Int]
    /\ device_state \in DeviceState
    /\ factory_init_done \in BOOLEAN
    /\ unixtime \in Nat
=============================================================================
