--------------------------- MODULE FreshJetValues ---------------------------
(***************************************************************************)
(* The parameters of a FreshJet and the entities that show or set one of    *)
(* them: sensors, binary sensors, the switch, and the temperatures and the  *)
(* fan of the climate.  The data is a function from parameters to values as Ddm2Codec  *)
(* decodes them; Unknown is a parameter that was not received.              *)
(***************************************************************************)
EXTENDS Ddm2Codec

Unknown == Value("none", 0)

Number(in, out, unit, factor) ==
    [in |-> in, out |-> out, unit |-> unit, factor |-> factor, struct |-> {}]

ErrorList ==
    << [name |-> "error", kind |-> "x16", count |-> 0, unit |-> "error", nested |-> << >>] >>

\* How the dictionary codes the parameters of these entities.
Kind ==
    [p \in {"ac.ttemp", "ac.itemp", "ac.pwr", "ac.curr", "ac.fspd", "ac.operst", "ac.sleep",
            "ac.actext", "ac.status", "ac.on", "ac.md", "ac.lgt", "ac.dmr"} |->
        CASE p = "ac.ttemp" -> Number("INT32_T", "INT32_T", "^C", 1000)
          [] p = "ac.itemp" -> Number("-", "INT32_T", "^C", 1000)
          [] p = "ac.pwr" -> Number("INT32_T", "INT32_T", "W", 1000)
          [] p = "ac.curr" -> Number("INT32_T", "INT32_T", "A", 1000)
          [] p = "ac.fspd" -> Number("INT32_T", "INT32_T", "enum", 1)
          [] p = "ac.operst" -> Number("-", "INT32_T", "enum", 1)
          [] p = "ac.sleep" -> Number("INT32_T", "INT32_T", "bool", 1)
          [] p \in {"ac.on", "ac.lgt"} -> Number("INT32_T", "INT32_T", "bool", 1)
          [] p = "ac.md" -> Number("INT32_T", "INT32_T", "enum", 1)
          [] p = "ac.dmr" -> Number("INT32_T", "INT32_T", "%", 1)
          [] p = "ac.actext" -> Number("UINT32_T", "UINT32_T", "bitfield", 1)
          [] p = "ac.status" -> [Number("STRUCT", "STRUCT", "error", 1) EXCEPT !.struct = {ErrorList}]]

\* entity.py: a value of another type counts as not known.  Of an int, the
\* number itself; elsewhere values are in grains.
AsInt(v) == IF v.type = "int" THEN v.of \div Grain ELSE -1
AsFloat(v) == IF v.type \in {"int", "float"} THEN Value("float", v.of) ELSE Unknown
OnOff(b) == IF b THEN "on" ELSE "off"
AsBool(v) == IF v.type \in {"bool", "int"} THEN OnOff(v.of # 0) ELSE "unknown"

-----------------------------------------------------------------------------
(* FreshJetClimate: temperatures and fan.                                  *)

CurrentTemperature(d) == AsFloat(d["ac.itemp"])
TargetTemperature(d) == AsFloat(d["ac.ttemp"])

FJZ7_MIN_TEMP_C == 16 * Grain
FJZ7_MAX_TEMP_C == 31 * Grain

AC_FAN_SPEEDS == 0 .. 5
FanMode(d) == IF AsInt(d["ac.fspd"]) \in AC_FAN_SPEEDS THEN {AsInt(d["ac.fspd"])} ELSE {}

\* What a command writes: a parameter and a value.
Writes(p, value) == [p |-> p, value |-> value]

SetTemperature(temperature) == Writes("ac.ttemp", Value("float", temperature))
SetFanMode(speed) == Writes("ac.fspd", Value("int", Grain * speed))

-----------------------------------------------------------------------------
(* Switch, sensors and binary sensors.                                     *)

SleepIsOn(d) == AsBool(d["ac.sleep"])
TurnSleep(on) == Writes("ac.sleep", Value("int", IF on = "on" THEN Grain ELSE 0))

NativeValue(d, p) == AsFloat(d[p])

OPERATING_STATES == << "fan_only", "cooling", "heating" >>

OperatingState(d) ==
    LET raw == AsInt(d["ac.operst"])
    IN  IF raw \in 0 .. 2 THEN OPERATING_STATES[raw + 1] ELSE "unknown"

CompressorOn(d) ==
    LET v == d["ac.actext"]
    IN  IF v.type = "int" THEN OnOff((AsInt(v) \div 2) % 2 = 1) ELSE "unknown"

\* Codes of 0 are no errors, and neither is an empty list.
HasErrors(d) ==
    LET v == d["ac.status"]
    IN  IF v.type = "map"
        THEN OnOff(\E i \in DOMAIN v.of["error"].of : v.of["error"].of[i].of # 0)
        ELSE "unknown"
=============================================================================
