------------------------------ MODULE MCCodecs ------------------------------
(***************************************************************************)
(* The codecs on bounded inputs.  A behaviour asks one question after       *)
(* another, those of WireProbes among them.  Inputs are the ends of the     *)
(* ranges, ties, every byte, strings up to one byte too long, texts whose   *)
(* bytes are malformed, and structs of the shapes the dictionary has.       *)
(***************************************************************************)
EXTENDS WireProbes

NoProbe == << "none" >>
ASCII == 65

\* Strings of n bytes with a NUL at z, if z is a place of it.
Strings(max) == {[i \in 1 .. n |-> IF i = z THEN 0 ELSE ASCII] : n \in 0 .. max, z \in 0 .. max}

\* "e" with an acute accent, the euro sign, and what may be left of them.
Accent == << 195, 169 >>
Euro == << 226, 130, 172 >>
Spoilt == {<< 255 >>, << 195 >>, << 226, 130 >>, << 172 >>}

\* Strings of n of these with ASCII before and after, some up to max bytes long.
Mixed(parts, max) ==
    {s \in {FlattenSeq([i \in 1 .. n |-> IF i = z THEN p ELSE q]) :
                n \in 0 .. max, z \in 0 .. max, p, q \in parts \cup {<< ASCII >>}} : Len(s) <= max}

-----------------------------------------------------------------------------
(* DDM1.                                                                   *)

Edges1 == (-327690 .. -327670) \cup (-26 .. 26) \cup (327660 .. 327690)
Ints1 == {-3277, -3276, -129, -128, -1, 0, 1, 127, 128, 255, 256, 3276, 3277}
Samples == { {}, {-327680}, {-327674}, {5}, {327680} }
Histories == {[values |-> [i \in 1 .. n |-> IF i = 3 THEN a ELSE b], trailer |-> t] :
                  n \in {6, 7}, a \in Samples, b \in Samples, t \in {0, 255, 256}}
ByteEdges == {0, 1, 127, 128, 255}

Ask1(kind, type, x) == probe' = << "value1", kind, Value(type, x) >>

AskValue1 ==
    /\ probe = NoProbe
    /\ \E kind \in Kinds1 :
           \/ \E b \in {0, 1} : Ask1(kind, "bool", b)
           \/ \E n \in Ints1 : Ask1(kind, "int", n)
           \/ \E v \in Edges1 : Ask1(kind, "float", v)
           \/ \E lo, hi \in {-327686, -327685, -5, 15, 327675} : Ask1(kind, "pair", << lo, hi >>)
           \/ \E h \in Histories : Ask1(kind, "history", h)
           \/ \E s \in Strings(Ddm1!STRING_MAX_LENGTH + 1) : Ask1(kind, "str", s)
           \/ \E s \in Mixed({Accent, Euro}, Ddm1!STRING_MAX_LENGTH + 1) : Ask1(kind, "str", s)
           \/ Ask1(kind, "none", 0)

AskBytes1 ==
    /\ probe = NoProbe
    /\ \E kind \in Kinds1, data \in
           {<< b >> : b \in 0 .. 255} \cup {<< a, b >> : a, b \in ByteEdges}
           \cup {<< a, b, c, d >> : a, b, c, d \in {0, 128, 255}}
           \cup {[i \in 1 .. 15 |-> IF i % 2 = 1 THEN a ELSE b] : a, b \in ByteEdges}
           \cup Strings(Ddm1!STRING_MAX_LENGTH + 1)
           \cup Mixed(Spoilt \cup {Euro, << 0 >>}, Ddm1!STRING_MAX_LENGTH) :
           probe' = << "bytes1", kind, data >>

Keys == {"c0Power", "c0SetTemperature"}
Topics1 == {<< 0, 1, 1, 1 >>, << 16, 1, 1, 1 >>, << -1, 1, 1, 1 >>}

AskTable1 ==
    /\ probe = NoProbe
    /\ \E raw \in SUBSET [key : Keys, topic : Topics1] : probe' = << "table1", raw >>

-----------------------------------------------------------------------------
(* DDM2.                                                                   *)

Field(name, kind, count, unit) ==
    [name |-> name, kind |-> kind, count |-> count, unit |-> unit, nested |-> << >>]
Nested(name, fields, count) ==
    [name |-> name, kind |-> "struct", count |-> count, unit |-> "", nested |-> fields]
Param(type, unit, factor, struct) ==
    [in |-> type, out |-> type, unit |-> unit, factor |-> factor, struct |-> struct]

Scalars2 == {Param("INT32_T", "", 1, {}), Param("UINT32_T", "", 1, {}),
             Param("INT32_T", "^C", 10, {}), Param("INT32_T", "V", 1000, {}),
             Param("INT32_T", "enum", 10, {})}

\* mccc.ctemp, ac.status, lsrcfg.bindata, hmi.event, wifi.scan, mccc.ctemprng, dd.activelist.
Temps == Param("STRUCT", "^C", 10, {<< Field("temp", "i32", 0, "^C") >>})
Errors == Param("STRUCT", "error", 1, {<< Field("error", "x16", 0, "error") >>})
Bindata == Param("STRUCT", "-", 1, {<< Field("time", "i32", 1, ""), Field("data", "i32", 0, "") >>})
Event == Param("STRUCT", "-", 1,
               {<< Field("id", "x32", 1, ""), Field("rssi", "i8", 1, ""), Field("data", "u8", 0, "") >>})
Scan == Param("STRUCT", "-", 1,
              {<< Field("rssi", "s", 2, ""), Field("name", "s", 3, ""), Field("addr", "x8", 2, "") >>})
Ranges == Param("STRUCT", "^C", 10,
                {<< Nested("temp_range", << Field("mintemp", "i32", 1, "^C"),
                                            Field("maxtemp", "i32", 1, "^C") >>, 0) >>})
Active == Param("STRUCT", "-", 1,
                {<< Nested("active", << Field("interface", "s", 1, ""), Field("name", "s", 2, ""),
                                        Field("sep", "u8", 1, "") >>, 0) >>})
Structs2 == {Temps, Errors, Bindata, Event, Scan, Ranges, Active}
Opaque2 == {Param("STRING", "-", 1, {}), Param("OTHER", "-", 1, {}), Param("VOID", "-", 1, {}),
            Param("JUMBO", "-", 1, {}), Param("STRUCT", "-", 1, {}), Param("-", "-", 1, {})}

Top == Place(WordBytes + 1) \div 2
Tenth == Grain \div 10
Numbers2 == {Grain * n : n \in {-Top - 1, -Top, -1, 0, 1, Top - 1, Top}}

\* Halves of steps of a tenth and of a thousandth, and the last numbers that fit.
Near2 ==
    {n * (Tenth \div 2) + x : n \in -6 .. 6, x \in {-1, 0, 1}}
        \cup {Tenth * (Top - 1) + x : x \in {Tenth \div 2 - 1, Tenth \div 2}}
        \cup {-Tenth * Top - x : x \in {Tenth \div 2, Tenth \div 2 + 1}}
        \cup -26 .. 26
Small2 == {Grain * n : n \in {-129, -128, -1, 0, 1, 127, 128, 255, 256, 65535, 65536}} \cup {Grain \div 2}

Number(n) == Value(IF n % Grain = 0 THEN "int" ELSE "float", n)
Listed(s) == Value("list", s)
Mapped(f) == Value("map", f)
Lists(S) == {<< >>} \cup {<< a >> : a \in S} \cup {<< a, b >> : a, b \in S}

Ask2(param, value) == probe' = << "value2", param, value >>

AskValue2 ==
    /\ probe = NoProbe
    /\ \/ \E p \in Scalars2 : \E n \in Near2 \cup (IF p.factor = 1 THEN Numbers2 ELSE {}) :
              Ask2(p, Value("float", n))
       \/ \E p \in Scalars2, b \in {0, 1} : Ask2(p, Value("bool", b))
       \/ \E p \in Scalars2 \cup Opaque2, s \in Strings(2) \cup {Accent} :
              Ask2(p, Value("str", s)) \/ Ask2(p, Value("bytes", s))
       \/ \E p \in Opaque2 : Ask2(p, Value("none", 0))
       \/ \E l \in Lists({Value("float", n) : n \in Near2 \cup Small2}) :
              \E p \in {Temps, Errors} :
                  Ask2(p, Mapped([n \in {IF p = Temps THEN "temp" ELSE "error"} |-> Listed(l)]))
       \/ \E id \in Numbers2, r \in Small2, l \in Lists({Number(n) : n \in Small2}) :
              Ask2(Event, Mapped(("id" :> Number(id)) @@ ("rssi" :> Number(r)) @@ ("data" :> Listed(l))))
       \/ \E r \in Strings(3) \cup {Accent}, n \in Strings(4) \cup {Euro, Accent}, l \in Lists({Number(0), Number(Grain * 255), Number(Grain * 256)}) :
              Ask2(Scan, Mapped(("rssi" :> Value("str", r)) @@ ("name" :> Value("str", n))
                                @@ ("addr" :> Listed(l))))
       \/ \E lo, hi \in {-Tenth * Top - Tenth \div 2 - 1, -(Tenth \div 2), Tenth, Tenth + Tenth \div 2} :
              Ask2(Ranges, Mapped([n \in {"temp_range"} |-> Listed(
                  << Mapped(("mintemp" :> Number(lo)) @@ ("maxtemp" :> Number(hi))),
                     Mapped(("mintemp" :> Number(hi)) @@ ("maxtemp" :> Number(lo))) >>)]))

AskBytes2 ==
    /\ probe = NoProbe
    /\ \E p \in Scalars2 \cup Structs2 \cup Opaque2, a, b \in ByteEdges, z \in 0 .. 4,
          n \in 0 .. 4 * WordBytes :
           probe' = << "bytes2", p, [i \in 1 .. n |-> IF i = z THEN 0 ELSE IF i % 2 = 0 THEN a ELSE b] >>

\* Texts of a parameter, of a field and of a field of what is nested.
AskText2 ==
    /\ probe = NoProbe
    /\ \E p \in {Scan, Active} \cup Opaque2,
          data \in Mixed(Spoilt \cup {Accent, Euro, << 0 >>}, 4 * WordBytes) :
           probe' = << "bytes2", p, data >>

Ids == [param : {0, 1}, class : {0, 1}, group : {0, 1}]

AskTopic2 ==
    /\ probe = NoProbe
    /\ \E id \in Ids, ids \in {Ids, {i \in Ids : i.param = 0}}, instance \in {0, 1, 255} :
           probe' = << "topic2", id, ids, instance >>

-----------------------------------------------------------------------------
(* The entities.                                                           *)

\* What a user may set, near the ends of a range the cooler gave, or of none.
CoolerRanges == {Value("none", 0)} \cup
    {Value("pair", << lo, hi >>) : lo \in {-327680, -2200, -10}, hi \in {-10, 1000, 327670}}
CoolerData(range) ==
    [p \in DOMAIN Cooler!Kind |-> IF p = "c0TemperatureRange" THEN range ELSE Cooler!Unknown]
Temperatures(d) ==
    {t \in Edges1 \cup -2226 .. -2174 \cup 974 .. 1026 :
        Cooler!MinTemp(d) <= t /\ t <= Cooler!MaxTemp(d)}

AskCooler ==
    /\ probe = NoProbe
    /\ \E range \in CoolerRanges :
        LET d == CoolerData(range)
        IN  \/ \E t \in Temperatures(d) : probe' = << "cooler", d, "temperature", t >>
            \/ \E mode \in {"off", "cool"} : probe' = << "cooler", d, "mode", mode >>
            \/ \E n \in 1 .. 3 : probe' = << "cooler", d, "option", Cooler!Options[n] >>

AskDimmer ==
    /\ probe = NoProbe
    /\ \E percent \in 0 .. 101 : probe' = << "dimmer", percent >>

\* What a user may set of a FreshJet: near whole and half degrees.
AskUnit ==
    /\ probe = NoProbe
    /\ \/ \E whole \in 16 .. 31, part \in {-(Grain \div 2), -10, -5, -1, 0, 1, 5, 6, Grain \div 10} :
              LET t == Grain * whole + part
              IN  /\ t \in Unit!FJZ7_MIN_TEMP_C .. Unit!FJZ7_MAX_TEMP_C
                  /\ probe' = << "unit", "temperature", t >>
       \/ \E speed \in Unit!AC_FAN_SPEEDS : probe' = << "unit", "fan", speed >>
       \/ \E on \in {"on", "off"} : probe' = << "unit", "sleep", on >>

AskCoolerReadings ==
    /\ probe = NoProbe
    /\ \E power \in {<< 0 >>, << 1 >>}, compressor \in {<< 0 >>, << 1 >>}, level \in {0, 1, 2, 3, 255},
          range \in {<< 36, 255, 100, 0 >>, << 0, 0, 0, 0 >>, << 100, 0, 36, 255 >>},
          tenths \in {<< 0, 128 >>, << 36, 255 >>, << 0, 0 >>, << 100, 0 >>} :
        probe' = << "cooler readings",
            [p \in DOMAIN Cooler!Kind |->
                CASE p = "batteryProtectionLevel" -> << level >>
                  [] p = "c0TemperatureRange" -> range
                  [] p \in {"c0SetTemperature", "c0MeasuredTemperature", "batteryVoltageLevel"} -> tenths
                  [] p = "compressorPower" -> compressor
                  [] p \in {"c0Power", "c0DoorOpen"} -> power] >>

WordOf(n) == Pack(Formats["x32"], n).out

AskUnitReadings ==
    /\ probe = NoProbe
    /\ \E on \in {WordOf(0), WordOf(1), << 255, 255 >>}, md \in 0 .. 5, speed \in {0, 5, 6}, actext \in {0, 1, 2, 16, 18, 48, Top + 2},
          operst \in {Silence, WordOf(0), WordOf(1), WordOf(2), WordOf(3)},
          errors \in {<< >>, << 0, 0 >>, << 0, 0, 4, 0 >>} :
        probe' = << "unit readings",
            [p \in DOMAIN Unit!Kind |->
                CASE p = "ac.operst" -> operst
                  [] p = "ac.actext" -> WordOf(actext)
                  [] p = "ac.status" -> errors
                  [] p = "ac.fspd" -> WordOf(speed)
                  [] p \in {"ac.on", "ac.sleep", "ac.lgt"} -> on
                  [] p = "ac.md" -> WordOf(md)
                  [] p = "ac.dmr" -> IF on = << 255, 255 >> THEN on ELSE WordOf(25 * md)
                  [] p \in {"ac.ttemp", "ac.itemp", "ac.pwr", "ac.curr"} -> WordOf(25500)] >>

-----------------------------------------------------------------------------
AskFrame ==
    /\ probe = NoProbe
    /\ \E protocol \in {"ddm1", "ddm2"}, action \in 0 .. 21, value \in {<< >>, << 0 >>, << 7, 9 >>},
          topic \in {<< >>, << 1, 2, 3 >>, << 1, 2, 3, 4 >>} :
           probe' = << "frame", protocol, [action |-> action, topic |-> topic, value |-> value] >>

AskAgain == probe # NoProbe /\ probe' = NoProbe

Init == probe = NoProbe

Next == AskValue1 \/ AskBytes1 \/ AskTable1 \/ AskValue2 \/ AskBytes2 \/ AskText2 \/ AskTopic2 \/ AskCooler \/ AskDimmer
        \/ AskUnit \/ AskCoolerReadings \/ AskUnitReadings
        \/ AskFrame \/ AskAgain

Spec == Init /\ [][Next]_probe
-----------------------------------------------------------------------------
\* Every struct spec of the run is one parse_struct_spec accepts.
ASSUME \A p \in Structs2 : IsParam2(p)
=============================================================================
