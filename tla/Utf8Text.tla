------------------------------ MODULE Utf8Text ------------------------------
(***************************************************************************)
(* What both codecs read a text field as: the bytes before the first NUL,   *)
(* decoded as UTF-8 with errors="replace", so that bytes no character has   *)
(* become U+FFFD.  A text is the sequence of its UTF-8 bytes.               *)
(***************************************************************************)
EXTENDS Integers, Sequences, SequencesExt

\* U+FFFD, which stands for malformed bytes.
Replacement == << 239, 191, 189 >>

\* How many bytes the character has that starts with this one; 0 where none does.
CharacterSize(lead) ==
    CASE lead < 128 -> 1
      [] lead \in 194 .. 223 -> 2
      [] lead \in 224 .. 239 -> 3
      [] lead \in 240 .. 244 -> 4
      [] OTHER -> 0

\* The second byte says no more than the first that the character has its shortest
\* form, is no surrogate, and is one Unicode has.
Second(lead) ==
    CASE lead = 224 -> 160 .. 191
      [] lead = 237 -> 128 .. 159
      [] lead = 240 -> 144 .. 191
      [] lead = 244 -> 128 .. 143
      [] OTHER -> 128 .. 191

\* Byte i belongs to the character that starts, or is cut off or spoilt later, at byte j.
Reaches(data, j, i) ==
    /\ j <= i /\ i <= Len(data) /\ i - j < CharacterSize(data[j])
    /\ \A k \in j + 1 .. i : data[k] \in (IF k = j + 1 THEN Second(data[j]) ELSE 128 .. 191)

\* Byte i is in a character that is complete.
InCharacter(data, i) ==
    \E j \in 1 .. i : Reaches(data, j, i) /\ Reaches(data, j, j + CharacterSize(data[j]) - 1)

WellFormed(data) == \A i \in DOMAIN data : InCharacter(data, i)

\* What byte i contributes: itself, or U+FFFD once for the start of a character that
\* is not complete and for every other byte.
Piece(data, i) ==
    CASE InCharacter(data, i) -> << data[i] >>
      [] ~InCharacter(data, i) /\ (\E j \in 1 .. i - 1 : Reaches(data, j, i)) -> << >>
      [] OTHER -> Replacement

Replaced(data) ==
    IF WellFormed(data) THEN data ELSE FlattenSeq([i \in DOMAIN data |-> Piece(data, i)])

BeforeNul(data) ==
    LET before == {n \in 0 .. Len(data) : \A i \in 1 .. n : data[i] # 0}
    IN  SubSeq(data, 1, CHOOSE n \in before : \A m \in before : m <= n)

Text(data) == Replaced(BeforeNul(data))
=============================================================================
