--------------------------- MODULE ConsoleValues ---------------------------
(***************************************************************************)
(* tools/ac_console/server.py: how a value of DDM1 travels between the      *)
(* codec and the browser.  json_value makes a decoded value JSON,           *)
(* display_value a text; the page sends either back, as JSON or as what     *)
(* somebody typed, and coerce_write_value makes it a value for the codec.   *)
(***************************************************************************)
EXTENDS Ddm1Codec, ConsoleTexts

YesWords == {"true", "on", "yes"}

Number1(n) == IF n = {} THEN Json("null", 0) ELSE Json("num", CHOOSE m \in n : TRUE)

\* json_value, and what json.dumps and the browser make of the result.
Json1(v) ==
    CASE v.type \in {"int", "float"} -> Json("num", Hundredths(v))
      [] v.type = "bool" -> v
      [] v.type = "str" -> Json("text", v.of)
      [] v.type = "pair" -> Json("array", [i \in 1 .. 2 |-> Json("num", v.of[i])])
      [] v.type = "history" ->
             Json("object", [values |-> Json("array", [i \in DOMAIN v.of.values |->
                                                            Number1(v.of.values[i])]),
                              trailer |-> Json("num", 100 * v.of.trailer)])
      [] v.type = "none" -> Json("null", 0)

\* display_value: only a string or an enum's number is free of a label.
Display1(unit, v) ==
    CASE v.type = "bool" -> Says(IF v.of = 0 THEN "no" ELSE "yes")
      [] v.type \in {"int", "float"} /\ unit \in {"-", "enum"} ->
             Digits(Hundredths(v), v.type = "float")
      [] v.type = "str" -> Json("text", v.of)
      [] OTHER -> Labelled

\* json.loads: a number without a fraction is an int.
FromJson1(x) ==
    CASE x.type = "num" -> IF x.of % 100 = 0 THEN Value("int", x.of \div 100) ELSE Value("float", x.of)
      [] x.type = "bool" -> x
      [] x.type = "null" -> Value("none", 0)
      [] x.type \in {"array", "object"} -> Value(x.type, x.of)
      [] IsText(x) -> Value("str", x.of)

\* Mutant: bool() of a text.
Coerce1Truthy(kind, x) ==
    IF kind = "INT8_BOOLEAN" /\ IsText(x) THEN Done(Value("bool", 1))
    ELSE Done(FromJson1(x))

\* coerce_write_value; Rejected is a ValueError of int() or float().
Coerce1(kind, x) ==
    CASE kind = "INT8_BOOLEAN" /\ IsText(x) ->
             Done(Value("bool", IF \/ x.type = "word" /\ x.of \in YesWords
                                   \/ x.type = "digits" /\ x.of = [n |-> 100, dotted |-> FALSE]
                                THEN 1 ELSE 0))
      [] kind \in {"INT8_NUMBER", "UINT8_NUMBER"} /\ IsText(x) ->
             IF x.type = "digits" /\ ~x.of.dotted THEN Done(Value("int", x.of.n \div 100)) ELSE Rejected
      [] kind \in DeciKinds /\ IsText(x) ->
             IF x.type = "digits" THEN Done(Value("float", x.of.n)) ELSE Rejected
      [] kind = "EMPTY" /\ IsText(x) -> Done(Value("none", 0))
      [] OTHER -> Done(FromJson1(x))
=============================================================================
