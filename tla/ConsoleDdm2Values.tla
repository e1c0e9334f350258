------------------------- MODULE ConsoleDdm2Values -------------------------
(***************************************************************************)
(* tools/ac_console/server.py: how a value of DDM2 travels between the      *)
(* codec and the browser, through the same functions as one of DDM1.        *)
(* A struct that nests one is a value four levels deep.                     *)
(***************************************************************************)
EXTENDS Ddm2Codec, ConsoleTexts

JsonScalar(v) ==
    CASE v.type \in {"int", "float"} -> Json("num", v.of)
      [] v.type = "bool" -> v
      [] v.type = "str" -> Json("text", v.of)
      [] v.type = "bytes" -> Labelled
      [] v.type = "none" -> Json("null", 0)

JsonOf(Part(_), v) ==
    CASE v.type = "list" -> Json("array", [i \in DOMAIN v.of |-> Part(v.of[i])])
      [] v.type = "map" -> Json("object", [n \in DOMAIN v.of |-> Part(v.of[n])])
      [] OTHER -> JsonScalar(v)

JsonPlainField(v) == JsonOf(JsonScalar, v)
JsonElement(v) == JsonOf(JsonPlainField, v)
JsonField(v) == JsonOf(JsonElement, v)
Json2(v) == JsonOf(JsonField, v)

\* Units that display_value prints; a parameter of unit "enum" has its names.
Display2(param, v) ==
    CASE v.type \in {"int", "float"} /\ param.unit = "bool" ->
             Says(IF v.of = 0 THEN "off" ELSE "on")
      [] v.type \in {"int", "float"} /\ param.unit \in {"", "-", "error", "instance"} ->
             Digits(v.of, v.type = "float")
      [] v.type = "str" -> Json("text", v.of)
      [] OTHER -> Labelled

FromJsonScalar(x) ==
    CASE x.type = "num" -> Value(IF x.of % Grain = 0 THEN "int" ELSE "float", x.of)
      [] x.type = "bool" -> x
      [] x.type = "null" -> Value("none", 0)
      [] IsText(x) -> Value("str", x.of)

FromJsonOf(Part(_), x) ==
    CASE x.type = "array" -> Value("list", [i \in DOMAIN x.of |-> Part(x.of[i])])
      [] x.type = "object" -> Value("map", [n \in DOMAIN x.of |-> Part(x.of[n])])
      [] OTHER -> FromJsonScalar(x)

FromJsonPlainField(x) == FromJsonOf(FromJsonScalar, x)
FromJsonElement(x) == FromJsonOf(FromJsonPlainField, x)
FromJsonField(x) == FromJsonOf(FromJsonElement, x)
FromJson2(x) == FromJsonOf(FromJsonField, x)

Coerce2(param, x) ==
    CASE x.type = "name" /\ param.unit = "enum" -> Done(Value("int", x.of))
      [] ~(x.type = "name" /\ param.unit = "enum") /\ IsText(x)
             /\ param.in \in {"INT32_T", "UINT32_T"} ->
             IF x.type = "digits" THEN Done(Value(IF x.of.dotted THEN "float" ELSE "int", x.of.n))
             ELSE Rejected
      [] IsText(x) /\ param.in = "VOID" -> Done(Value("none", 0))
      [] x.type = "array" /\ param.in = "STRUCT" /\ param.struct # {} ->
             LET fields == CHOOSE s \in param.struct : TRUE
             IN  Done(Value("map", fields[1].name :> FromJson2(x)))
      [] OTHER -> Done(FromJson2(x))
=============================================================================
