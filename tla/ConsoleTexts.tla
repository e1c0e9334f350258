---------------------------- MODULE ConsoleTexts ----------------------------
(***************************************************************************)
(* What the browser and tools/ac_console/server.py send each other.         *)
(*                                                                          *)
(* JSON is [type, of]: a num counts hundredths and has lost whether it was  *)
(* an int or a float; a text is a string.  A text is known by what Python   *)
(* can make of it: "digits" is a number, with a decimal point if dotted; a  *)
(* "word" one of yes, no, true, false, on, off; a "name" an enum member;    *)
(* "text" anything else, as bytes.                                          *)
(***************************************************************************)
EXTENDS Integers, Sequences

Json(type, x) == [type |-> type, of |-> x]
Digits(n, dotted) == Json("digits", [n |-> n, dotted |-> dotted])
Says(w) == Json("word", w)
IsText(x) == x.type \in {"digits", "word", "name", "text"}

\* Texts no parser takes: a number with its unit, hex bytes.
Labelled == Json("text", << 32 >>)
=============================================================================
