----------------------------- MODULE Ddm1Codec -----------------------------
(***************************************************************************)
(* pyddm/ddm1.py: values of the CFX3's parameters and their bytes.          *)
(*                                                                          *)
(* A value is [type, of].  Numbers are exact: an int is itself, a float a   *)
(* number of hundredths, so that rounding to tenths is visible.  A string   *)
(* is the sequence of its UTF-8 bytes, well-formed whoever made it.  A      *)
(* history sample that may be None is a set of at most one sample.          *)
(***************************************************************************)
EXTENDS Integers, Sequences, Utf8Text

\* What encode and decode return, or the CodecError they raise.
Done(x) == [ok |-> TRUE, out |-> x]
Rejected == [ok |-> FALSE]

Value(type, x) == [type |-> type, of |-> x]

STRING_MAX_LENGTH == 15
HISTORY_VALUES == 7
HISTORY_LENGTH == HISTORY_VALUES * 2 + 1
HISTORY_NO_SAMPLE == -32768

DeciKinds == {"INT16_DECIDEGREE_CELSIUS", "INT16_DECICURRENT_VOLT"}

-----------------------------------------------------------------------------
\* struct "<h": least significant byte first, two's complement.
Int16(raw) == << raw % 256, (raw \div 256) % 256 >>

ToInt16(b) == LET n == b[1] + 256 * b[2] IN IF n < 32768 THEN n ELSE n - 65536

\* Mutant: towards minus infinity.
TenthsCut(v) == v \div 10

\* round(value * 10): to the nearest tenth, a tie to the even one.
Tenths(v) ==
    LET q == v \div 10
        r == v % 10
    IN  IF r > 5 \/ (r = 5 /\ q % 2 = 1) THEN q + 1 ELSE q

\* The range check of _deci_to_bytes.
DeciFits(v) == Tenths(v) >= -32768 /\ Tenths(v) <= 32767

DeciBytes(v) == Int16(Tenths(v))

\* Raw tenths, as hundredths.
FromDeci(b) == 10 * ToInt16(b)

Hundredths(value) == IF value.type = "float" THEN value.of ELSE 100 * value.of

\* A sample of a history; None is the sentinel.
SampleBytes(s) == IF s = {} THEN Int16(HISTORY_NO_SAMPLE) ELSE DeciBytes(CHOOSE v \in s : TRUE)
Sample(b) == IF ToInt16(b) = HISTORY_NO_SAMPLE THEN {} ELSE {FromDeci(b)}

Terminated(raw) == IF Len(raw) = STRING_MAX_LENGTH THEN raw ELSE Append(raw, 0)

-----------------------------------------------------------------------------
\* The types of values encode() takes for a kind.
Types(kind) ==
    CASE kind = "INT8_BOOLEAN" -> {"bool", "int"}
      [] kind \in {"INT8_NUMBER", "UINT8_NUMBER"} -> {"int"}
      [] kind \in DeciKinds -> {"int", "float"}
      [] kind = "INT16_ARRAY" -> {"pair"}
      [] kind = "HISTORY_DATA_ARRAY" -> {"history"}
      [] kind = "UTF8_STRING" -> {"str"}
      [] kind = "EMPTY" -> {"none"}

Fits(kind, value) ==
    CASE kind \in {"INT8_BOOLEAN", "EMPTY"} -> TRUE
      [] kind = "INT8_NUMBER" -> value.of \in -128 .. 127
      [] kind = "UINT8_NUMBER" -> value.of \in 0 .. 255
      [] kind \in DeciKinds -> DeciFits(Hundredths(value))
      [] kind = "INT16_ARRAY" -> \A i \in 1 .. 2 : DeciFits(value.of[i])
      [] kind = "HISTORY_DATA_ARRAY" ->
             /\ Len(value.of.values) = HISTORY_VALUES
             /\ \A i \in 1 .. HISTORY_VALUES : \A v \in value.of.values[i] : DeciFits(v)
             /\ value.of.trailer \in 0 .. 255
      [] kind = "UTF8_STRING" -> Len(value.of) <= STRING_MAX_LENGTH

Bytes(kind, value) ==
    CASE kind = "INT8_BOOLEAN" -> << IF value.of = 0 THEN 0 ELSE 1 >>
      [] kind \in {"INT8_NUMBER", "UINT8_NUMBER"} -> << value.of % 256 >>
      [] kind \in DeciKinds -> DeciBytes(Hundredths(value))
      [] kind = "INT16_ARRAY" -> DeciBytes(value.of[1]) \o DeciBytes(value.of[2])
      [] kind = "HISTORY_DATA_ARRAY" ->
             [i \in 1 .. HISTORY_LENGTH |->
                 IF i = HISTORY_LENGTH THEN value.of.trailer
                 ELSE SampleBytes(value.of.values[(i + 1) \div 2])[2 - (i % 2)]]
      [] kind = "UTF8_STRING" -> Terminated(value.of)
      [] kind = "EMPTY" -> << >>

Encode(kind, value) ==
    IF value.type \in Types(kind) /\ Fits(kind, value) THEN Done(Bytes(kind, value)) ELSE Rejected

\* The lengths decode() takes for a kind.
Lengths(kind) ==
    CASE kind \in {"INT8_BOOLEAN", "INT8_NUMBER", "UINT8_NUMBER"} -> {1}
      [] kind \in DeciKinds -> {2}
      [] kind = "INT16_ARRAY" -> {4}
      [] kind = "HISTORY_DATA_ARRAY" -> {HISTORY_LENGTH}
      [] kind = "UTF8_STRING" -> 0 .. STRING_MAX_LENGTH
      [] kind = "EMPTY" -> {0}

Decoded(kind, data) ==
    CASE kind = "INT8_BOOLEAN" -> Value("bool", IF data[1] = 0 THEN 0 ELSE 1)
      [] kind = "INT8_NUMBER" -> Value("int", IF data[1] < 128 THEN data[1] ELSE data[1] - 256)
      [] kind = "UINT8_NUMBER" -> Value("int", data[1])
      [] kind \in DeciKinds -> Value("float", FromDeci(data))
      [] kind = "INT16_ARRAY" ->
             Value("pair", << FromDeci(SubSeq(data, 1, 2)), FromDeci(SubSeq(data, 3, 4)) >>)
      [] kind = "HISTORY_DATA_ARRAY" ->
             Value("history",
                   [values |-> [i \in 1 .. HISTORY_VALUES |->
                                   Sample(SubSeq(data, 2 * i - 1, 2 * i))],
                    trailer |-> data[HISTORY_LENGTH]])
      [] kind = "UTF8_STRING" -> Value("str", Text(data))
      [] kind = "EMPTY" -> Value("none", 0)

Decode(kind, data) == IF Len(data) \in Lengths(kind) THEN Done(Decoded(kind, data)) ELSE Rejected

-----------------------------------------------------------------------------
\* DDM1Table: rows with a runtime byte in the topic (null, here -1) are left
\* out; a name or a topic used twice is an error.
Rows(raw) == {p \in raw : \A i \in 1 .. 4 : p.topic[i] # -1}

Table(raw) ==
    IF \A p, q \in Rows(raw) : p # q => p.key # q.key /\ p.topic # q.topic
    THEN Done(Rows(raw)) ELSE Rejected

\* The rows a lookup by name or by topic finds.
Get(table, key) == {p \in table : p.key = key}
Lookup(table, topic) == {p \in table : p.topic = topic}
=============================================================================
