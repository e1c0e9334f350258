------------------------------ MODULE Entities ------------------------------
(***************************************************************************)
(* The climate and the light of a FreshJet: what each shows, as a function  *)
(* of the coordinator's data, and what its commands write.  The data is a   *)
(* function from parameters to numbers; Unknown stands for a value that was *)
(* not received or could not be decoded (coordinator.value() is None).      *)
(***************************************************************************)
EXTENDS Integers, Sequences

Unknown == -1

\* One element per call of coordinator.async_write().
Write(p, v) == [p |-> p, v |-> v]

\* const.py: what the coordinator subscribes to, in this order.
FJZ7_SUBSCRIPTIONS ==
    << "gw.avl", "gw.ver", "gw.sku", "ac.avl", "ac.mdl", "ac.ver", "ac.on", "ac.md",
       "ac.operst", "ac.ttemp", "ac.itemp", "ac.fspd", "ac.fs", "ac.fmd", "ac.lgt",
       "ac.dmr", "ac.sleep", "ac.pwr", "ac.curr", "ac.currlim", "ac.status", "ac.actext" >>

-----------------------------------------------------------------------------
(* FreshJetClimate.                                                        *)

\* AC_MODE_TO_HVAC and its inverse.  Turbo (5) is not offered.
HvacOfMode == << "cool", "heat", "fan_only", "auto", "dry" >>
AcModes == 0 .. 4
ModeOfHvac(hvac) == CHOOSE md \in AcModes : HvacOfMode[md + 1] = hvac

AcHvacMode(d) ==
    CASE d["ac.on"] = 0 -> "off"
      [] d["ac.on"] > 0 /\ d["ac.md"] \in AcModes -> HvacOfMode[d["ac.md"] + 1]
      [] OTHER -> "unknown"

\* ac.actext: 1 heater, 2 compressor.
Compressor(actext) == (actext \div 2) % 2 = 1
Heater(actext) == actext % 2 = 1

\* The fallback: what the active components say.
ActiveComponents(d) ==
    CASE d["ac.actext"] = Unknown -> "unknown"
      [] d["ac.actext"] # Unknown /\ Compressor(d["ac.actext"]) ->
            IF AcHvacMode(d) = "heat" THEN "heating" ELSE "cooling"
      [] d["ac.actext"] # Unknown /\ ~Compressor(d["ac.actext"]) /\ Heater(d["ac.actext"]) -> "heating"
      [] OTHER -> IF AcHvacMode(d) = "fan_only" THEN "fan" ELSE "idle"

ActionOfOperst == << "fan", "cooling", "heating" >>

AcHvacAction(d) ==
    CASE d["ac.on"] = Unknown -> "unknown"
      [] d["ac.on"] = 0 -> "off"
      [] d["ac.on"] > 0 /\ d["ac.operst"] \in 0 .. 2 -> ActionOfOperst[d["ac.operst"] + 1]
      [] OTHER -> ActiveComponents(d)

AcTurnOn == << Write("ac.on", 1) >>
AcTurnOff == << Write("ac.on", 0) >>

\* Mutant: the mode alone is written.
AcSetHvacModeOnly(d, hvac) ==
    IF hvac = "off" THEN AcTurnOff
    ELSE << Write("ac.md", ModeOfHvac(hvac)) >>

\* async_set_hvac_mode(): the unit is switched on first unless it is known
\* to be on.
AcSetHvacMode(d, hvac) ==
    IF hvac = "off" THEN AcTurnOff
    ELSE (IF d["ac.on"] > 0 THEN << >> ELSE << Write("ac.on", 1) >>)
         \o << Write("ac.md", ModeOfHvac(hvac)) >>

-----------------------------------------------------------------------------
(* FreshJetLight.  value_to_brightness and brightness_to_value are Home     *)
(* Assistant's: a linear scale between 1..100 and 1..255.                   *)

\* Python's round(n / d) for n >= 0: to the nearest, a half to the even.
RoundDiv(n, d) ==
    LET q == n \div d
        r == n % d
    IN  IF 2 * r > d \/ (2 * r = d /\ q % 2 = 1) THEN q + 1 ELSE q

Percent(brightness) == RoundDiv(brightness * 100, 255)

Brightness(percent) ==
    LET p == IF percent < 1 THEN 1 ELSE IF percent > 100 THEN 100 ELSE percent
    IN  RoundDiv(p * 255, 100)

LightIsOn(d) ==
    CASE d["ac.lgt"] = Unknown -> "unknown"
      [] d["ac.lgt"] = 0 -> "off"
      [] OTHER -> "on"

LightBrightness(d) == IF d["ac.dmr"] = Unknown THEN Unknown ELSE Brightness(d["ac.dmr"])

\* Mutant: the dimmer is set, the light not switched on.
LightDimOnly(brightness) == << Write("ac.dmr", Percent(brightness)) >>

\* async_turn_on() without a brightness, or with one.
LightTurnOn == << Write("ac.lgt", 1) >>
LightTurnOnAt(brightness) == << Write("ac.dmr", Percent(brightness)), Write("ac.lgt", 1) >>
LightTurnOff == << Write("ac.lgt", 0) >>
=============================================================================
