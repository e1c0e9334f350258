----------------------------- MODULE Ddm2Codec -----------------------------
(***************************************************************************)
(* pyddm/ddm2.py: values of a DDM2 parameter and their bytes.               *)
(*                                                                          *)
(* A parameter is a record of its id, in and out type, unit, factor and     *)
(* struct: {} or {the sequence of its fields}.  A field has a name, a kind, *)
(* a count (0: variable), a unit and, for kind "struct", nested fields;     *)
(* these nest once, as in the dictionary, and not to any depth.             *)
(* A value is [type, of]: an int or float counts Grains of one, so that     *)
(* what is no whole number can be told; a bool is 0 or 1; bytes are a byte  *)
(* sequence, and a str that of its UTF-8 bytes; a map is a function from    *)
(* field names to values.                                                   *)
(***************************************************************************)
EXTENDS Integers, Sequences, SequencesExt, Ddm2Table, Utf8Text

CONSTANTS
    WordBytes,      \* bytes of an INT32 or UINT32: 4
    Grain           \* in how many parts numbers are told apart: a multiple of the factors

ASSUME WordBytesAssumption == WordBytes \in 2 .. 4
ASSUME GrainAssumption == Grain \in Nat \ {0} /\ Grain % 1000 = 0

Done(x) == [ok |-> TRUE, out |-> x]
Rejected == [ok |-> FALSE]
Value(type, x) == [type |-> type, of |-> x]

\* _ELEMENT_FORMATS: size, and whether signed.
Formats ==
    [ i8  |-> [size |-> 1, signed |-> TRUE],
      u8  |-> [size |-> 1, signed |-> FALSE],
      x8  |-> [size |-> 1, signed |-> FALSE],
      x16 |-> [size |-> 2, signed |-> FALSE],
      i32 |-> [size |-> WordBytes, signed |-> TRUE],
      x32 |-> [size |-> WordBytes, signed |-> FALSE] ]

Unitless == {"", "-", "bool", "enum", "bitfield", "error", "instance"}

-----------------------------------------------------------------------------
(* struct.pack and struct.unpack, least significant byte first.            *)

\* What a one in the i-th byte counts.
Place(i) ==
    CASE i = 1 -> 1
      [] i = 2 -> 256
      [] i = 3 -> 65536
      [] i = 4 -> 256 * 65536
      [] i = 5 -> 65536 * 65536

Capacity(fmt) == Place(fmt.size + 1)

Representable(fmt, n) ==
    IF fmt.signed THEN -(Capacity(fmt) \div 2) <= n /\ n < Capacity(fmt) \div 2
    ELSE 0 <= n /\ n < Capacity(fmt)

Pack(fmt, n) ==
    IF Representable(fmt, n) THEN Done([i \in 1 .. fmt.size |-> (n \div Place(i)) % 256])
    ELSE Rejected

Unpack(fmt, data) ==
    LET Part(i) == IF i <= fmt.size THEN data[i] * Place(i) ELSE 0
        n == Part(1) + Part(2) + Part(3) + Part(4)
    IN  IF Representable(fmt, n) THEN n ELSE n - Capacity(fmt)

\* round(n / d): a tie to the even one.
Rounded(n, d) ==
    LET q == n \div d
        r == n % d
    IN  IF 2 * r > d \/ (2 * r = d /\ q % 2 = 1) THEN q + 1 ELSE q

\* bytes.ljust.
Padded(data, n) == [i \in 1 .. n |-> IF i <= Len(data) THEN data[i] ELSE 0]

-----------------------------------------------------------------------------
\* The factor applies to what is in the parameter's own unit.
Scales(param, unit) == param.factor # 1 /\ unit = param.unit /\ unit \notin Unitless

\* The grains of a raw number.
Step(param) == Grain \div param.factor

ScaleOut(param, raw, unit) ==
    IF Scales(param, unit) THEN Value("float", raw * Step(param)) ELSE Value("int", raw * Grain)

\* Mutant: the factor applies whatever the unit.
ScaleInAlways(param, value, unit) ==
    CASE value.type = "bool" -> Done(value.of)
      [] value.type \notin {"bool", "int", "float"} -> Rejected
      [] OTHER -> Done(Rounded(value.of, Step(param)))

ScaleIn(param, value, unit) ==
    CASE value.type = "bool" -> Done(value.of)
      [] value.type \notin {"bool", "int", "float"} -> Rejected
      [] value.type \in {"int", "float"} /\ Scales(param, unit) ->
             Done(Rounded(value.of, Step(param)))
      [] value.type \in {"int", "float"} /\ ~Scales(param, unit) ->
             IF value.of % Grain = 0 THEN Done(value.of \div Grain) ELSE Rejected

PackValue(param, fmt, value, unit) ==
    LET raw == ScaleIn(param, value, unit)
    IN  IF raw.ok THEN Pack(fmt, raw.out) ELSE Rejected

-----------------------------------------------------------------------------
(* Structs.  What holds of the elements that nest nothing is stated first,  *)
(* and handed to the operators on fields.                                   *)

\* Where each of the fields, or elements, of these sizes ends.
Ends(sizes) ==
    LET end[i \in 0 .. Len(sizes)] == IF i = 0 THEN 0 ELSE end[i - 1] + sizes[i] IN end

PlainSize(f) == IF f.kind = "s" THEN 1 ELSE Formats[f.kind].size

FieldEnds(Size(_), fields) == Ends([i \in DOMAIN fields |-> Size(fields[i]) * fields[i].count])

FixedSize(fields) == FieldEnds(PlainSize, fields)[Len(fields)]

ElementSize(f) == IF f.kind = "struct" THEN FixedSize(f.nested) ELSE PlainSize(f)

\* parse_struct_spec: only the last field may be variable, and none of a nested struct.
SpecAccepted(fields) ==
    \A i \in DOMAIN fields :
        /\ fields[i].count = 0 => i = Len(fields)
        /\ fields[i].kind = "struct" =>
               \A j \in DOMAIN fields[i].nested : fields[i].nested[j].count # 0

Single(f) == f.kind = "s" \/ f.count = 1

Concat(outs) ==
    IF \A i \in DOMAIN outs : outs[i].ok THEN Done(FlattenSeq([i \in DOMAIN outs |-> outs[i].out]))
    ELSE Rejected

EncodeField(Element(_, _, _), param, f, item) ==
    IF Single(f) THEN Element(param, f, item)
    ELSE IF item.type # "list" \/ (f.count # 0 /\ Len(item.of) # f.count) THEN Rejected
    ELSE Concat([i \in DOMAIN item.of |-> Element(param, f, item.of[i])])

EncodeFields(Element(_, _, _), param, fields, items) ==
    IF DOMAIN items # {fields[i].name : i \in DOMAIN fields} THEN Rejected
    ELSE Concat([i \in DOMAIN fields |->
                    EncodeField(Element, param, fields[i], items[fields[i].name])])

EncodePlain(param, f, value) ==
    IF f.kind # "s" THEN PackValue(param, Formats[f.kind], value, f.unit)
    ELSE IF value.type # "str" THEN Rejected
    ELSE IF f.count = 0 THEN Done(value.of)
    ELSE IF Len(value.of) > f.count THEN Rejected
    ELSE Done(Padded(value.of, f.count))

EncodeElement(param, f, value) ==
    IF f.kind # "struct" THEN EncodePlain(param, f, value)
    ELSE IF value.type # "map" THEN Rejected
    ELSE EncodeFields(EncodePlain, param, f.nested, value.of)

EncodeStruct(param, fields, items) == EncodeFields(EncodeElement, param, fields, items)

\* A chunk cut into elements.
Elements(chunk, size) ==
    [i \in 1 .. Len(chunk) \div size |-> SubSeq(chunk, (i - 1) * size + 1, i * size)]

DecodeField(Element(_, _, _), size, param, f, chunk) ==
    IF Single(f) THEN Element(param, f, chunk)
    ELSE LET parts == Elements(chunk, size)
         IN  Value("list", [i \in DOMAIN parts |-> Element(param, f, parts[i])])

\* The bytes of a field: a variable one takes what is left.
Chunk(ends, fields, i, data) ==
    SubSeq(data, ends[i - 1] + 1, IF fields[i].count = 0 THEN Len(data) ELSE ends[i])

\* The data ends with the last field; a variable one has whole elements.
Exact(Size(_), fields, data) ==
    LET n == Len(fields)
        left == Len(data) - FieldEnds(Size, fields)[n]
    IN  IF n > 0 /\ fields[n].count = 0 THEN left >= 0 /\ left % Size(fields[n]) = 0 ELSE left = 0

DecodeFields(Element(_, _, _), Size(_), param, fields, data) ==
    LET ends == FieldEnds(Size, fields)
        Decoded(i) == DecodeField(Element, Size(fields[i]), param, fields[i],
                                  Chunk(ends, fields, i, data))
        At(name) == CHOOSE i \in DOMAIN fields : fields[i].name = name
    IN  Value("map", [name \in {fields[i].name : i \in DOMAIN fields} |-> Decoded(At(name))])

DecodePlain(param, f, data) ==
    IF f.kind = "s" THEN Value("str", Text(data))
    ELSE ScaleOut(param, Unpack(Formats[f.kind], data), f.unit)

DecodeElement(param, f, data) ==
    IF f.kind # "struct" THEN DecodePlain(param, f, data)
    ELSE DecodeFields(DecodePlain, PlainSize, param, f.nested, data)

DecodeStruct(param, fields, data) ==
    IF Exact(ElementSize, fields, data)
    THEN Done(DecodeFields(DecodeElement, ElementSize, param, fields, data)) ELSE Rejected

-----------------------------------------------------------------------------
\* INT32 and UINT32.
Word(type) == Formats[IF type = "INT32_T" THEN "i32" ELSE "x32"]

Encode(param, value) ==
    CASE param.in \in {"INT32_T", "UINT32_T"} ->
             PackValue(param, Word(param.in), value, param.unit)
      [] param.in = "STRING" -> IF value.type = "str" THEN Done(value.of) ELSE Rejected
      [] param.in = "STRUCT" ->
             IF param.struct # {} /\ value.type = "map"
             THEN EncodeStruct(param, CHOOSE s \in param.struct : TRUE, value.of) ELSE Rejected
      [] param.in = "VOID" -> IF value.type = "none" THEN Done(<< >>) ELSE Rejected
      [] param.in = "OTHER" -> IF value.type = "bytes" THEN Done(value.of) ELSE Rejected
      [] param.in \in {"-", "JUMBO"} -> Rejected

Decode(param, data) ==
    CASE param.out \in {"INT32_T", "UINT32_T"} ->
             IF Len(data) = WordBytes
             THEN Done(ScaleOut(param, Unpack(Word(param.out), data), param.unit)) ELSE Rejected
      [] param.out = "STRING" -> Done(Value("str", Text(data)))
      [] param.out = "STRUCT" ->
             IF param.struct # {}
             THEN DecodeStruct(param, CHOOSE s \in param.struct : TRUE, data) ELSE Rejected
      [] param.out \in {"VOID", "-"} ->
             IF data = << >> THEN Done(Value("none", 0)) ELSE Rejected
      [] param.out \in {"OTHER", "JUMBO"} -> Done(Value("bytes", data))
=============================================================================
