----------------------------- MODULE WireProbes -----------------------------
(***************************************************************************)
(* Questions to the codecs, to the framing, to the tables of parameters, to *)
(* the entities of both devices and to the console, and what the answers    *)
(* must be.  probe is the question asked.                                   *)
(***************************************************************************)
EXTENDS FrameBytes, ConsoleDdm2Values

Ddm1 == INSTANCE Ddm1Codec
Cooler == INSTANCE Cfx3Entities
Unit == INSTANCE FreshJetValues
FreshJet == INSTANCE Entities
Console == INSTANCE ConsoleValues

VARIABLE probe

Octet == 0 .. 255

Kinds1 == Ddm1!DeciKinds \cup {"INT8_BOOLEAN", "INT8_NUMBER", "UINT8_NUMBER", "INT16_ARRAY",
                              "HISTORY_DATA_ARRAY", "UTF8_STRING", "EMPTY"}

\* A sample of a history, or None.
Sample1 == {s \in SUBSET Int : \A v, w \in s : v = w}

\* The bytes of a str: those of characters.
IsUtf8(bytes) == bytes \in Seq(Octet) /\ WellFormed(bytes)

\* What may be handed to ddm1.encode, for whatever kind.
IsValue1(v) ==
    \/ v.type = "bool" /\ v.of \in {0, 1}
    \/ v.type \in {"int", "float"} /\ v.of \in Int
    \/ v.type = "pair" /\ v.of \in Int \X Int
    \/ v.type = "history" /\ v.of \in [values : Seq(Sample1), trailer : Int]
    \/ v.type = "str" /\ IsUtf8(v.of)
    \/ v.type = "none" /\ v.of = 0

Id2 == [param : Octet, class : Octet, group : Octet]

\* A range as it is decoded from two int16 of tenths, or not received.
IsRange(r) ==
    \/ r = Cooler!Unknown
    \/ /\ r = Ddm1!Value("pair", r.of) /\ r.of \in Int \X Int
       /\ \A i \in 1 .. 2 : r.of[i] % 10 = 0 /\ -327680 <= r.of[i] /\ r.of[i] <= 327670

\* What Python can tell a value to be: a sequence of such, or of whatever.
IsListOf(Each(_), v) ==
    v.type = "list" /\ v.of \in Seq({v.of[i] : i \in DOMAIN v.of}) /\ \A i \in DOMAIN v.of : Each(v.of[i])
IsMapOf(Each(_), v) ==
    v.type = "map" /\ v.of = [n \in DOMAIN v.of |-> v.of[n]] /\ \A n \in DOMAIN v.of : Each(v.of[n])

IsLeaf(v) ==
    \/ v.type = "bool" /\ v.of \in {0, 1}
    \/ v.type = "int" /\ v.of \in Int /\ v.of % Grain = 0
    \/ v.type = "float" /\ v.of \in Int
    \/ v.type = "str" /\ IsUtf8(v.of)
    \/ v.type = "bytes" /\ v.of \in Seq(Octet)
    \/ v.type = "none" /\ v.of = 0

\* What may be handed to ddm2.encode: values as deep as a struct that nests one.
IsPlainValue(v) == IsLeaf(v) \/ IsListOf(IsLeaf, v)
IsElementValue(v) == IsLeaf(v) \/ IsMapOf(IsPlainValue, v)
IsFieldValue(v) == IsElementValue(v) \/ IsListOf(IsElementValue, v)
IsValue2(v) == IsLeaf(v) \/ IsMapOf(IsFieldValue, v)

\* The fields of a struct: none twice, and nothing nested in what is nested.
IsSpec(fields) ==
    /\ fields \in Seq({fields[i] : i \in DOMAIN fields})
    /\ \A i, j \in DOMAIN fields : fields[i].name = fields[j].name => i = j
    /\ \A i \in DOMAIN fields : fields[i].count \in Nat
    /\ SpecAccepted(fields)

IsPlainSpec(fields) ==
    IsSpec(fields) /\ \A i \in DOMAIN fields : fields[i].kind \in DOMAIN Formats \cup {"s"}

IsStruct(fields) ==
    /\ IsSpec(fields)
    /\ \A i \in DOMAIN fields :
           \/ fields[i].kind \in DOMAIN Formats \cup {"s"}
           \/ fields[i].kind = "struct" /\ IsPlainSpec(fields[i].nested) /\ fields[i].nested # << >>

Types2 == {"INT32_T", "UINT32_T", "STRING", "STRUCT", "OTHER", "JUMBO", "VOID", "-"}

\* A parameter that is read as it is written.
IsParam2(param) ==
    /\ param.in \in Types2 /\ param.out = param.in
    /\ param.factor \in Nat \ {0} /\ Grain % param.factor = 0
    /\ param.struct # {} => \E s \in param.struct : param.struct = {s} /\ IsStruct(s)

\* What a user may set of a cooler: Home Assistant checks a temperature
\* against the range the entity has.
Settable(d, what, x) ==
    \/ what = "temperature" /\ x \in Int /\ Cooler!MinTemp(d) <= x /\ x <= Cooler!MaxTemp(d)
    \/ what = "mode" /\ x \in {"off", "cool"}
    \/ what = "option" /\ x \in {"low", "medium", "high"}

\* What a cooler may publish: as many bytes as its parameters take.
IsReading(raw) ==
    \A p \in DOMAIN Cooler!Kind : raw[p] \in Seq(Octet) /\ Len(raw[p]) \in Ddm1!Lengths(Cooler!Kind[p])

\* What a user may set of a FreshJet.
SettableOfUnit(what, x) ==
    \/ what = "temperature" /\ x \in Int /\ Unit!FJZ7_MIN_TEMP_C <= x /\ x <= Unit!FJZ7_MAX_TEMP_C
    \/ what = "fan" /\ x \in Unit!AC_FAN_SPEEDS
    \/ what = "sleep" /\ x \in {"on", "off"}

\* Nothing was published yet.
Silence == << -1 >>

\* What a FreshJet published last of each parameter that is subscribed to.
Received2(raw) ==
    [p \in DOMAIN Unit!Kind |->
        IF raw[p] # Silence
           /\ \E i \in DOMAIN FreshJet!FJZ7_SUBSCRIPTIONS : FreshJet!FJZ7_SUBSCRIPTIONS[i] = p
        THEN Decode(Unit!Kind[p], raw[p]).out ELSE Unit!Unknown]

\* What a FreshJet may publish: words, and a list of words of two bytes; it may have
\* published nothing yet of what it publishes on change.
IsUnitReading(raw) ==
    \A p \in DOMAIN Unit!Kind :
        \/ p = "ac.operst" /\ raw[p] = Silence
        \/ raw[p] \in Seq(Octet) /\ IF p = "ac.status" THEN Len(raw[p]) % 2 = 0
                                     ELSE Len(raw[p]) = WordBytes

\* The same in the numbers of Entities, as the climate and the light read it: a switch
\* is 0 or 1, and a dimmer below 0, which the light takes for 1 anyway, is 0.
ClimateData(d) ==
    [p \in {"ac.on", "ac.lgt", "ac.md", "ac.operst", "ac.actext", "ac.dmr"} |->
        CASE p \in {"ac.on", "ac.lgt"} /\ Unit!AsBool(d[p]) = "on" -> 1
          [] p \in {"ac.on", "ac.lgt"} /\ Unit!AsBool(d[p]) = "off" -> 0
          [] p = "ac.dmr" /\ d[p].type = "int" /\ Unit!AsInt(d[p]) < 0 -> 0
          [] OTHER -> Unit!AsInt(d[p])]

\* The questions: any value or bytes for any kind of DDM1 and any parameter of DDM2,
\* any rows as a table of DDM1, any parameter and instance of DDM2 with any table, any
\* frame, any setting of a cooler with any range and of a FreshJet, any position of a
\* dimmer, anything a cooler or a FreshJet may publish.
WellAsked ==
    /\ probe[1] = "value1" => probe[2] \in Kinds1 /\ IsValue1(probe[3])
    /\ probe[1] = "bytes1" => probe[2] \in Kinds1 /\ probe[3] \in Seq(Octet)
    /\ probe[1] = "topic2" => probe[2] \in Id2 /\ probe[3] \subseteq Id2
    /\ probe[1] = "frame" =>
           /\ probe[2] \in {"ddm1", "ddm2"}
           /\ probe[3] \in [action : Nat, topic : Seq(Octet), value : Seq(Octet)]
    /\ probe[1] = "cooler" =>
           /\ probe[2] = [p \in DOMAIN Cooler!Kind |-> probe[2][p]]
           /\ IsRange(probe[2].c0TemperatureRange)
           /\ Settable(probe[2], probe[3], probe[4])
    /\ probe[1] = "dimmer" => probe[2] \in Int
    /\ probe[1] = "cooler readings" => IsReading(probe[2])
    /\ probe[1] = "value2" => IsParam2(probe[2]) /\ IsValue2(probe[3])
    /\ probe[1] = "bytes2" => IsParam2(probe[2]) /\ probe[3] \in Seq(Octet)
    /\ probe[1] = "unit" => SettableOfUnit(probe[2], probe[3])
    /\ probe[1] = "unit readings" => IsUnitReading(probe[2])

-----------------------------------------------------------------------------
(* The codec of DDM1.                                                      *)

Within(x, y, d) == x - y <= d /\ y - x <= d

\* y is x up to its first NUL, if any.
CutAtNul(x, y) ==
    \E n \in 0 .. Len(x) :
        /\ y = SubSeq(x, 1, n)
        /\ \A i \in 1 .. n : x[i] # 0
        /\ n < Len(x) => x[n + 1] = 0

\* A sample is within half a tenth of what it was; None is None.  The lowest
\* temperature the range check lets through is the sentinel and comes back as
\* None.
SameSample(s, t) ==
    IF s = {} THEN t = {}
    ELSE IF t = {} THEN \E v \in s : Within(v, -327680, 5)
    ELSE \E v \in s, w \in t : Within(v, w, 5)

Same1(kind, v, d) ==
    CASE kind = "INT8_BOOLEAN" -> d.of = (IF v.of = 0 THEN 0 ELSE 1)
      [] kind \in {"INT8_NUMBER", "UINT8_NUMBER", "EMPTY"} -> d.of = v.of
      [] kind \in Ddm1!DeciKinds -> Within(Ddm1!Hundredths(v), d.of, 5)
      [] kind = "INT16_ARRAY" -> \A i \in 1 .. 2 : Within(v.of[i], d.of[i], 5)
      [] kind = "HISTORY_DATA_ARRAY" ->
             /\ \A i \in 1 .. 7 : SameSample(v.of.values[i], d.of.values[i])
             /\ d.of.trailer = v.of.trailer
      [] kind = "UTF8_STRING" -> CutAtNul(v.of, d.of)

\* ddm1.encode never wraps: whatever it accepts, decode reads back, within
\* half of a tenth and up to a NUL.
Ddm1RoundTrip ==
    probe[1] = "value1" =>
        LET e == Ddm1!Encode(probe[2], probe[3])
        IN  e.ok => LET d == Ddm1!Decode(probe[2], e.out)
                    IN  d.ok /\ Same1(probe[2], probe[3], d.out)

\* ddm1.encode accepts every whole tenth an int16 has (ddm1.py:92).
Ddm1EncodesTheRange ==
    (/\ probe[1] = "value1" /\ probe[2] \in Ddm1!DeciKinds /\ probe[3].type = "float"
     /\ probe[3].of % 10 = 0
     /\ probe[3].of >= -327680 /\ probe[3].of <= 327670) => Ddm1!Encode(probe[2], probe[3]).ok

\* What ddm1.decode makes of bytes from the device and encode accepts reads the same
\* when it is written back; for numbers the bytes are the same.  Only a text is not
\* accepted, and only one that grew beyond its fifteen bytes because malformed bytes
\* were replaced.
Ddm1WriteBack ==
    probe[1] = "bytes1" =>
        LET d == Ddm1!Decode(probe[2], probe[3])
            e == Ddm1!Encode(probe[2], d.out)
        IN  d.ok =>
              /\ e.ok => /\ Ddm1!Decode(probe[2], e.out) = d
                         /\ probe[2] \notin {"UTF8_STRING", "INT8_BOOLEAN"} => e.out = probe[3]
              /\ ~e.ok => probe[2] = "UTF8_STRING" /\ ~WellFormed(BeforeNul(probe[3]))

\* The codec of DDM1 changes no value on the way to a cooler or from it.
Ddm1Faithful == Ddm1RoundTrip /\ Ddm1EncodesTheRange /\ Ddm1WriteBack

-----------------------------------------------------------------------------
(* The codec of DDM2.                                                      *)

\* d is v as far as the bytes can tell: within half a step where it is scaled, else the
\* same; a bool is the raw number 0 or 1.
SameScalar(param, unit, v, d) ==
    CASE v.type = "bool" -> d.of = v.of * (IF Scales(param, unit) THEN Step(param) ELSE Grain)
      [] v.type \in {"int", "float"} ->
             IF Scales(param, unit) THEN Within(2 * v.of, 2 * d.of, Step(param)) ELSE d.of = v.of
      [] v.type = "str" -> CutAtNul(v.of, d.of)
      [] v.type \in {"bytes", "none"} -> d.of = v.of

SamePlain(param, f, v, d) == SameScalar(param, f.unit, v, d)

SameField(Same(_, _, _, _), param, f, v, d) ==
    IF Single(f) THEN Same(param, f, v, d)
    ELSE Len(d.of) = Len(v.of) /\ \A i \in DOMAIN v.of : Same(param, f, v.of[i], d.of[i])

SameFields(Same(_, _, _, _), param, fields, v, d) ==
    /\ DOMAIN d.of = DOMAIN v.of
    /\ \A i \in DOMAIN fields :
           SameField(Same, param, fields[i], v.of[fields[i].name], d.of[fields[i].name])

SameElement(param, f, v, d) ==
    IF f.kind = "struct" THEN SameFields(SamePlain, param, f.nested, v, d)
    ELSE SamePlain(param, f, v, d)

Same2(param, v, d) ==
    IF param.in = "STRUCT"
    THEN SameFields(SameElement, param, CHOOSE s \in param.struct : TRUE, v, d)
    ELSE SameScalar(param, param.unit, v, d)

\* ddm2.encode never wraps, shifts or drops a field: whatever it accepts,
\* decode reads back, scaled numbers within half a step.
Ddm2RoundTrip ==
    probe[1] = "value2" =>
        LET e == Encode(probe[2], probe[3])
        IN  e.ok => LET d == Decode(probe[2], e.out)
                    IN  d.ok /\ Same2(probe[2], probe[3], d.out)

HasText(param) ==
    \/ param.in = "STRING"
    \/ \E fields \in param.struct : \E i \in DOMAIN fields :
           \/ fields[i].kind = "s"
           \/ fields[i].kind = "struct" /\ \E j \in DOMAIN fields[i].nested : fields[i].nested[j].kind = "s"

\* A text that was read from a field and is longer than the field: malformed bytes of
\* it were replaced.
GrownPlain(f, v) == f.kind = "s" /\ f.count # 0 /\ Len(v.of) > f.count

GrownFields(Grown(_, _), fields, v) ==
    \E i \in DOMAIN fields :
        LET item == v.of[fields[i].name]
        IN  IF Single(fields[i]) THEN Grown(fields[i], item)
            ELSE \E j \in DOMAIN item.of : Grown(fields[i], item.of[j])

GrownElement(f, v) ==
    IF f.kind = "struct" THEN GrownFields(GrownPlain, f.nested, v) ELSE GrownPlain(f, v)

Grown2(param, v) ==
    param.in = "STRUCT" /\ GrownFields(GrownElement, CHOOSE s \in param.struct : TRUE, v)

\* What ddm2.decode accepts and encode accepts again reads the same when it is written
\* back; where there is no text the bytes are the same: none was ignored.  Encode does
\* not accept it only where replaced bytes made a text of a struct longer than its field.
Ddm2WriteBack ==
    probe[1] = "bytes2" =>
        LET d == Decode(probe[2], probe[3])
            e == Encode(probe[2], d.out)
        IN  (d.ok /\ probe[2].in \notin {"JUMBO", "-"}) =>
                /\ e.ok => /\ Decode(probe[2], e.out) = d
                           /\ e.out = probe[3] \/ HasText(probe[2])
                /\ ~e.ok => Grown2(probe[2], d.out)

\* The codec of DDM2 changes no value on the way to a device or from it, whatever the
\* parameter: its type, its factor and its struct.
Ddm2Faithful == Ddm2RoundTrip /\ Ddm2WriteBack

-----------------------------------------------------------------------------
(* Tables and frames.                                                      *)

\* A row of a table that loads is found by its name and by its topic, alone;
\* DDM2Parameter.topic and DDM2Table.lookup are inverse, instance included.
ParametersAreFound ==
    /\ (probe[1] = "table1") =>
           LET t == Ddm1!Table(probe[2])
           IN  t.ok => \A p \in t.out : /\ Ddm1!Get(t.out, p.key) = {p}
                                        /\ Ddm1!Lookup(t.out, p.topic) = {p}
    /\ probe[1] = "topic2" =>
           Lookup(probe[3], Topic(probe[2], probe[4])) =
               (IF probe[2] \in probe[3] THEN {<< probe[2], probe[4] >>} ELSE {})

\* A frame reads as itself or is rejected: no action byte makes one frame
\* read as another, and every well-formed frame of the protocol is read.
FramesReadAsThemselves ==
    probe[1] = "frame" =>
        LET f == probe[3]
            d == FrameDecode(FrameEncode(f), probe[2])
        IN  IsFrame(f) =>
                /\ d.ok => d.out = f
                /\ d.ok <=> f.action \in (IF f.topic = << >> THEN ControlActions(probe[2])
                                          ELSE DataActions(probe[2]))

\* Neither a frame nor the topic in it can be taken for another one.
WireIsUnambiguous == FramesReadAsThemselves /\ ParametersAreFound
-----------------------------------------------------------------------------
(* Settings that are rounded on the way.                                   *)

\* What a user sets of a CFX3 is encoded, and when the cooler reports it the
\* entity shows it: the temperature to half a tenth and never outside the
\* range the cooler gave, although it is rounded on the way.
CoolerObeys ==
    probe[1] = "cooler" =>
        LET d == probe[2]
            w == CASE probe[3] = "temperature" -> Cooler!SetTemperature(probe[4])
                   [] probe[3] = "mode" -> Cooler!SetHvacMode(probe[4])
                   [] probe[3] = "option" -> Cooler!SelectOption(probe[4])
            e == Ddm1!Encode(Cooler!Kind[w.p], w.value)
            shown == [d EXCEPT ![w.p] = Ddm1!Decode(Cooler!Kind[w.p], e.out).out]
        IN  /\ e.ok
            /\ CASE probe[3] = "temperature" ->
                      /\ Within(Cooler!TargetTemperature(shown).of, probe[4], 5)
                      /\ Cooler!TargetTemperature(shown).of \in Cooler!MinTemp(d) .. Cooler!MaxTemp(d)
                 [] probe[3] = "mode" -> Cooler!CompartmentMode(shown) = probe[4]
                 [] probe[3] = "option" -> Cooler!CurrentOption(shown) = probe[4]

\* The brightness the light entity shows of a dimmer position is one Home
\* Assistant knows, and setting it writes that position again.
DimmerRoundTrip ==
    probe[1] = "dimmer" =>
        LET shown == FreshJet!Brightness(probe[2])
        IN  /\ shown \in 1 .. 255
            /\ probe[2] \in 1 .. 100 => FreshJet!Percent(shown) = probe[2]

\* What a user sets of a FreshJet is encoded, and the entity shows it when the unit
\* echoes those bytes: the temperature to half a thousandth and never outside the range.
UnitObeys ==
    probe[1] = "unit" =>
        LET w == CASE probe[2] = "temperature" -> Unit!SetTemperature(probe[3])
                   [] probe[2] = "fan" -> Unit!SetFanMode(probe[3])
                   [] probe[2] = "sleep" -> Unit!TurnSleep(probe[3])
            e == Encode(Unit!Kind[w.p], w.value)
            shown == [p \in {w.p} |-> Decode(Unit!Kind[p], e.out).out]
        IN  /\ e.ok
            /\ CASE probe[2] = "temperature" ->
                      /\ Within(2 * Unit!TargetTemperature(shown).of, 2 * probe[3], Grain \div 1000)
                      /\ Unit!TargetTemperature(shown).of >= Unit!FJZ7_MIN_TEMP_C
                      /\ Unit!TargetTemperature(shown).of <= Unit!FJZ7_MAX_TEMP_C
                 [] probe[2] = "fan" -> Unit!FanMode(shown) = {probe[3]}
                 [] probe[2] = "sleep" -> Unit!SleepIsOn(shown) = probe[3]

\* What a user sets of a cooler, of a FreshJet or of a light comes back as set, through
\* the entity, the codec and the device.
EntitiesObey == CoolerObeys /\ UnitObeys /\ DimmerRoundTrip

-----------------------------------------------------------------------------
(* Values that are shown.                                                  *)

\* What a cooler published last of each parameter that is subscribed to.
Received1(raw) ==
    [p \in DOMAIN Cooler!Kind |->
        IF \E i \in DOMAIN Cooler!CFX3_SUBSCRIPTIONS : Cooler!CFX3_SUBSCRIPTIONS[i] = p
        THEN Ddm1!Decode(Cooler!Kind[p], raw[p]).out ELSE Cooler!Unknown]

\* Every entity of a cooler has a value once the cooler has published what the
\* coordinator subscribed to, whatever it published, so none reads a parameter that is
\* not subscribed to, or of a type it takes for no value.  The exception is a battery
\* protection level that has no name.  The range is the cooler's, even an empty one.
CoolerTells ==
    probe[1] = "cooler readings" =>
        LET d == Received1(probe[2])
            range == Ddm1!Decoded("INT16_ARRAY", probe[2].c0TemperatureRange).of
        IN  /\ Cooler!CompartmentMode(d) # "unknown" /\ Cooler!CompartmentAction(d) # "unknown"
            /\ Cooler!CurrentTemperature(d) # Cooler!Unknown
            /\ Cooler!TargetTemperature(d) # Cooler!Unknown
            /\ Cooler!MinTemp(d) = range[1] /\ Cooler!MaxTemp(d) = range[2]
            /\ Cooler!NativeValue(d, "batteryVoltageLevel") # Cooler!Unknown
            /\ Cooler!BinaryIsOn(d, "c0DoorOpen") # Cooler!Unknown
            /\ Cooler!BinaryIsOn(d, "compressorPower") # Cooler!Unknown
            /\ Cooler!CurrentOption(d) = "unknown" <=> probe[2].batteryProtectionLevel[1] \notin 0 .. 2

\* Every entity of a FreshJet has a value once the unit has published whatever the
\* coordinator subscribed to, but for what it publishes on change.  The exceptions are a
\* mode the climate does not offer, such as turbo, while the unit is on, and a fan speed
\* it does not offer.
UnitTells ==
    probe[1] = "unit readings" =>
        LET d == Received2(probe[2])
            c == ClimateData(d)
        IN  /\ FreshJet!AcHvacMode(c) = "unknown" <=>
                   (Unit!AsBool(d["ac.on"]) = "on" /\ Unit!AsInt(d["ac.md"]) \notin FreshJet!AcModes)
            /\ FreshJet!AcHvacAction(c) # "unknown"
            /\ Unit!FanMode(d) = {} <=> Unit!AsInt(d["ac.fspd"]) \notin Unit!AC_FAN_SPEEDS
            /\ FreshJet!LightIsOn(c) # "unknown"
            /\ FreshJet!LightBrightness(c) \in 1 .. 255
            /\ Unit!CurrentTemperature(d) # Unit!Unknown
            /\ Unit!TargetTemperature(d) # Unit!Unknown
            /\ \A p \in {"ac.pwr", "ac.curr"} : Unit!NativeValue(d, p) # Unit!Unknown
            /\ Unit!CompressorOn(d) # "unknown" /\ Unit!HasErrors(d) # "unknown"
            /\ Unit!SleepIsOn(d) # "unknown"

\* The climate's mode and action are off together.  Of a unit that is on, the action is
\* the operating state where there is one; it contradicts the compressor sensor (cooling
\* with the compressor off, fan or idle with it on) only where the unit's own operating
\* state does (climate.py:188 prefers it to the components).
SensorsAgree ==
    probe[1] = "unit readings" =>
        LET d == Received2(probe[2])
            c == ClimateData(d)
            action == FreshJet!AcHvacAction(c)
        IN  /\ FreshJet!AcHvacMode(c) = "off" <=> action = "off"
            /\ Unit!AsBool(d["ac.on"]) = "on" =>
                /\ Unit!OperatingState(d) \in {"cooling", "heating"} => action = Unit!OperatingState(d)
                /\ Unit!OperatingState(d) = "fan_only" => action = "fan"
                /\ (Unit!CompressorOn(d) = "on" /\ action \notin {"cooling", "heating"})
                       => Unit!OperatingState(d) = "fan_only"
                /\ (Unit!CompressorOn(d) = "off" /\ action = "cooling")
                       => Unit!OperatingState(d) = "cooling"

\* What a device publishes is shown, and by all entities alike.
EntitiesTell == CoolerTells /\ UnitTells /\ SensorsAgree

\* What a user types who copies a value the browser has, in a unit of so many parts.
Typed(x, one) ==
    CASE x.type = "num" -> Console!Digits(x.of, x.of % one # 0)
      [] x.type = "bool" -> Console!Says(IF x.of = 1 THEN "true" ELSE "false")
      [] x.type \in {"text", "null"} -> x
      [] x.type \in {"array", "object"} -> Console!Labelled

\* The ways a value the console shows can come back as a write.
SentBack1(v) ==
    {Console!Json1(v), Typed(Console!Json1(v), 100)}
        \cup {Console!Display1(unit, v) : unit \in {"-", "enum", "^C"}}

\* A value of DDM1 the console shows and gets back, as JSON, as its display text or
\* typed, is refused or writes what the device has; a number or a switch the
\* page sends as JSON is not refused, although JSON tells no int from a float.
ConsoleWriteBack1 ==
    probe[1] = "bytes1" =>
        LET d == Ddm1!Decode(probe[2], probe[3])
            Encoded(x) == LET c == Console!Coerce1(probe[2], x)
                          IN  IF c.ok THEN Ddm1!Encode(probe[2], c.out) ELSE c
        IN  d.ok =>
              /\ \A x \in SentBack1(d.out) :
                     Encoded(x).ok => Ddm1!Decode(probe[2], Encoded(x).out) = d
              /\ d.out.type \in {"bool", "int", "float"} => Encoded(Console!Json1(d.out)).ok

SentBack2(param, v) == {Json2(v), Typed(Json2(v), Grain), Display2(param, v)}

\* A value of DDM2 that the console shows and gets back is refused or writes what the
\* device has; a number is not refused as JSON, and a struct only where replaced bytes
\* made a text longer than its field.
ConsoleWriteBack2 ==
    probe[1] = "bytes2" =>
        LET d == Decode(probe[2], probe[3])
            Encoded(x) == LET c == Coerce2(probe[2], x)
                          IN  IF c.ok THEN Encode(probe[2], c.out) ELSE c
        IN  d.ok =>
              /\ \A x \in SentBack2(probe[2], d.out) :
                     Encoded(x).ok => Decode(probe[2], Encoded(x).out) = d
              /\ (d.out.type \in {"int", "float", "map"} /\ ~Encoded(Json2(d.out)).ok)
                     => Grown2(probe[2], d.out)

\* What the console shows can be sent back without becoming another value.
ConsoleWriteBack == ConsoleWriteBack1 /\ ConsoleWriteBack2
=============================================================================
