---------------------------- MODULE Cfx3Entities ----------------------------
(***************************************************************************)
(* The entities of a CFX3: what each shows of the decoded values the        *)
(* coordinator keeps, and the value each command writes.                    *)
(* The data is a function from the parameters to values as Ddm1Codec        *)
(* decodes them; Unknown is a parameter that was not received.              *)
(* Temperatures are in hundredths of a degree.                              *)
(***************************************************************************)
EXTENDS Ddm1Codec

Unknown == Value("none", 0)

\* The parameters of the entities, and how the dictionary codes them.
Kind ==
    [ c0Power                |-> "INT8_BOOLEAN",
      batteryProtectionLevel |-> "INT8_NUMBER",
      c0SetTemperature       |-> "INT16_DECIDEGREE_CELSIUS",
      c0TemperatureRange     |-> "INT16_ARRAY",
      c0MeasuredTemperature  |-> "INT16_DECIDEGREE_CELSIUS",
      c0DoorOpen             |-> "INT8_BOOLEAN",
      compressorPower        |-> "INT8_BOOLEAN",
      batteryVoltageLevel    |-> "INT16_DECICURRENT_VOLT" ]

\* Mutant: what only the binary sensor and the action need was forgotten.
CFX3_SUBSCRIPTIONS_ForClimate ==
    << "productModelNumber", "productSerialNumber", "productType", "ccFirmwareVersion",
       "c0Power", "c0MeasuredTemperature", "c0SetTemperature", "c0DoorOpen",
       "c0TemperatureRange", "coolerPower", "batteryVoltageLevel",
       "batteryProtectionLevel", "powerSource" >>

\* const.py: what the coordinator subscribes to, in this order.
CFX3_SUBSCRIPTIONS ==
    << "productModelNumber", "productSerialNumber", "productType", "ccFirmwareVersion",
       "c0Power", "c0MeasuredTemperature", "c0SetTemperature", "c0DoorOpen",
       "c0TemperatureRange", "coolerPower", "batteryVoltageLevel",
       "batteryProtectionLevel", "compressorPower", "powerSource" >>

\* entity.py: a value of another type counts as not known.
AsFloat(v) == IF v.type \in {"int", "float"} THEN Value("float", Hundredths(v)) ELSE Unknown
AsBool(v) ==
    IF v.type \in {"bool", "int"} THEN Value("bool", IF v.of = 0 THEN 0 ELSE 1) ELSE Unknown

IsOn(v) == AsBool(v) = Value("bool", 1)
IsOff(v) == AsBool(v) = Value("bool", 0)

-----------------------------------------------------------------------------
(* CompartmentClimate.                                                     *)

CompartmentMode(d) ==
    CASE IsOn(d.c0Power) -> "cool" [] IsOff(d.c0Power) -> "off" [] OTHER -> "unknown"

CompartmentAction(d) ==
    CASE IsOff(d.c0Power) -> "off"
      [] IsOn(d.c0Power) /\ IsOn(d.compressorPower) -> "cooling"
      [] IsOn(d.c0Power) /\ IsOff(d.compressorPower) -> "idle"
      [] OTHER -> "unknown"

CurrentTemperature(d) == AsFloat(d.c0MeasuredTemperature)
TargetTemperature(d) == AsFloat(d.c0SetTemperature)

FALLBACK_MIN_TEMP_C == -2200
FALLBACK_MAX_TEMP_C == 1000

MinTemp(d) ==
    IF d.c0TemperatureRange.type = "pair" THEN d.c0TemperatureRange.of[1] ELSE FALLBACK_MIN_TEMP_C
MaxTemp(d) ==
    IF d.c0TemperatureRange.type = "pair" THEN d.c0TemperatureRange.of[2] ELSE FALLBACK_MAX_TEMP_C

\* What a command writes: a parameter and a value.
Writes(p, value) == [p |-> p, value |-> value]

\* Mutant: whole degrees, like the cooler's display.
SetTemperatureWhole(temperature) == Writes("c0SetTemperature", Value("int", temperature \div 100))

SetTemperature(temperature) == Writes("c0SetTemperature", Value("float", temperature))
SetHvacMode(mode) == Writes("c0Power", Value("bool", IF mode = "cool" THEN 1 ELSE 0))

-----------------------------------------------------------------------------
(* Sensors and binary sensors: temperature and voltage, door and compressor. *)

NativeValue(d, p) == AsFloat(d[p])
BinaryIsOn(d, p) == AsBool(d[p])

-----------------------------------------------------------------------------
(* BatteryProtectionSelect.                                                *)

Options == << "low", "medium", "high" >>

CurrentOption(d) ==
    LET v == d.batteryProtectionLevel
    IN  IF v.type \in {"int", "bool"} /\ v.of \in 0 .. 2 THEN Options[v.of + 1] ELSE "unknown"

SelectOption(option) ==
    Writes("batteryProtectionLevel",
           Value("int", CHOOSE n \in 0 .. 2 : Options[n + 1] = option))
=============================================================================
