------------------------------- MODULE Readings -------------------------------
(***************************************************************************)
(* From what a device reports to the fields InfluxDB is sent: an energy     *)
(* reading as integers (poller.py, emeter_fields and smart_energy_fields),  *)
(* system information with one type for each key (sysinfo_fields.py).       *)
(* InfluxDB refuses a whole batch for one value out of int64, or of another *)
(* type than the field has.                                                 *)
(*                                                                          *)
(* A number is counted in quarters, a fraction fine enough to tell rounding *)
(* from truncating.  A float of Precision or more (2^53) has no fraction.   *)
(* One measurement stands for the four of _EMETER_FIELDS.                   *)
(***************************************************************************)
EXTENDS Integers, FiniteSets

CONSTANTS
    IntMax,     \* _INT64_MAX
    Precision,  \* the first float above which every float is whole
    Scale       \* milli-units in a legacy unit: 1000

ASSUME WidthAssumption ==
    /\ IntMax \in Nat \ {0} /\ Precision \in Nat /\ Precision <= IntMax
    /\ Scale \in Nat \ {0}

IntMin == -IntMax - 1
Int64 == IntMin .. IntMax

Whole(n) == [kind |-> "int", quarters |-> 4 * n]
\* A float is the nearest one the format holds.
Float(q) ==
    [kind |-> "float",
     quarters |-> IF q \in (-4 * Precision)..(4 * Precision) THEN q ELSE 4 * (q \div 4)]
Bool(b) == [kind |-> "bool", quarters |-> IF b THEN 4 ELSE 0]
NaN == [kind |-> "nan"]
Null == [kind |-> "null"]
Text == [kind |-> "text"]

Numbers == {"int", "float"}

\* The values there are: an integer of any size, a float whole above Precision.
IsValue(v) ==
    \/ v.kind \in {"nan", "null", "text"}
    \/ v.kind = "bool" /\ v.quarters \in {0, 4}
    \/ v.kind = "int" /\ v.quarters \in Int /\ v.quarters % 4 = 0
    \/ /\ v.kind = "float" /\ v.quarters \in Int
       /\ v.quarters % 4 = 0 \/ v.quarters \in (-4 * Precision) .. (4 * Precision)

IsZero(v) == v.kind \in Numbers \cup {"bool"} /\ v.quarters = 0

\* int(x) truncates towards zero; round(x) goes to the nearest, a tie to the even one.
Truncated(q) == IF q >= 0 THEN q \div 4 ELSE -((-q) \div 4)
Rounded(q) ==
    IF q % 4 < 2 \/ (q % 4 = 2 /\ (q \div 4) % 2 = 0) THEN q \div 4 ELSE (q \div 4) + 1

\* Mutant of Storable: only what is not a finite number is refused.
FiniteOnly(v) == v.kind \in Numbers \cup {"bool"}

Storable(v) ==
    \/ v.kind = "bool"
    \/ v.kind \in Numbers /\ Truncated(v.quarters) \in Int64

AsInt(v) == Truncated(v.quarters)

-----------------------------------------------------------------------------
(* A report is a function from the keys a device sent to their values.  "power_mw" is   *)
(* a milli-unit key, "power" its legacy one, "err_code" a status.                        *)

StatusKeys == {"err_code"}

\* EmeterStatus["power_mw"]: as sent, or the legacy value scaled; a null or a text comes
\* to nothing that can be stored.
InMilli(report) ==
    IF "power_mw" \in DOMAIN report THEN report["power_mw"]
    ELSE IF "power" \in DOMAIN report /\ report["power"].kind \in Numbers \cup {"bool"}
         THEN LET scaled == Scale * report["power"].quarters IN
              IF report["power"].kind = "float" THEN Float(scaled)
              ELSE [kind |-> "int", quarters |-> scaled]
         ELSE Null

MilliField(v) == IF v.kind = "float" THEN Rounded(v.quarters) ELSE AsInt(v)

AsReported(report, keys) ==
    [k \in {k \in keys \cap DOMAIN report : Storable(report[k])} |-> AsInt(report[k])]

EmeterFields(report, legacyUnits) ==
    IF ~legacyUnits THEN AsReported(report, DOMAIN report)
    ELSE LET others == AsReported(report, DOMAIN report \ {"power_mw", "power"})
             milli == IF Storable(InMilli(report)) THEN {"power_mw"} ELSE {} IN
         [k \in DOMAIN others \cup milli |->
             IF k = "power_mw" THEN MilliField(InMilli(report)) ELSE others[k]]

\* Today's energy, as a SMART device's Energy module reports it beside the reading.
SmartEnergyFields(today) ==
    [k \in {k \in {"today_wh"} : today.kind \in Numbers /\ Storable(today)
                                  /\ today.quarters >= 0}
       |-> IF today.kind = "float" THEN Rounded(today.quarters) ELSE AsInt(today)]

\* An error reply, or one with nothing to store but its status, is refused.
Refused(report, legacyUnits) ==
    \/ /\ "err_code" \in DOMAIN report
       /\ report["err_code"].kind = "int" /\ ~IsZero(report["err_code"])
    \/ DOMAIN EmeterFields(report, legacyUnits) \subseteq StatusKeys

-----------------------------------------------------------------------------
(* System information: a key has the type its table in sysinfo_fields.py gives it.      *)

KeyType(key) ==
    CASE key \in {"rssi", "relay_state"} -> "int"
      [] key = "current_temp" -> "float"
      [] key = "device_on" -> "bool"
      [] key = "ssid" -> "dropped"
      [] OTHER -> "text"

IsWhole(v) == v.kind = "int" \/ (v.kind = "float" /\ v.quarters % 4 = 0)

\* The value of a key as its one type: none when it does not fit.
SysinfoField(key, v) ==
    CASE KeyType(key) = "int" ->
           {Whole(AsInt(w)) : w \in {w \in {v} : IsWhole(w) /\ Storable(w)}}
      [] KeyType(key) = "float" ->
           {[kind |-> "float", quarters |-> w.quarters] :
              w \in {w \in {v} : w.kind = "float" \/ (w.kind = "int" /\ Storable(w))}}
      [] KeyType(key) = "bool" -> {w \in {v} : w.kind = "bool"}
      [] KeyType(key) = "text" -> {Text}
      [] KeyType(key) = "dropped" -> {}

SysinfoKeys ==
    {"rssi", "relay_state", "current_temp", "device_on", "ssid", "fw_ver", "sw_ver"}

Truthy(v) == ~(v.kind = "null" \/ IsZero(v))

\* normalize_sysinfo: a KP125M's device_on is a relay_state of 1 or 0, its fw_ver a sw_ver.
\* One entry of a sysinfo is [key, value].
Normal(kp125m, entry) ==
    CASE kp125m /\ entry.key = "device_on" ->
           [key |-> "relay_state", value |-> Whole(IF Truthy(entry.value) THEN 1 ELSE 0)]
      [] kp125m /\ entry.key = "fw_ver" -> [entry EXCEPT !.key = "sw_ver"]
      [] OTHER -> entry

\* The fields of a sysinfo point: those of its entries that fit their key's type.
SysinfoFields(kp125m, entries) ==
    UNION {LET e == Normal(kp125m, entry) IN
           {[key |-> e.key, value |-> w] : w \in SysinfoField(e.key, e.value)} :
             entry \in entries}
==============================================================================
