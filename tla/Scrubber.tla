------------------------------- MODULE Scrubber -------------------------------
(***************************************************************************)
(* Removing secrets from a text (src/src/scrubber.rs): every known value is *)
(* replaced by a mask, one value after the other, then whatever has the     *)
(* format of a secret.                                                      *)
(*                                                                         *)
(* A text is a sequence of characters.  One character stands for a whole    *)
(* token that one of the regular expressions matches (Formatted), so a      *)
(* value is never a part of a token, and replacing it cuts none in two.     *)
(***************************************************************************)
EXTENDS Integers, SequencesExt

CONSTANTS Formatted,  \* the characters that stand for tokens in a known format
          MinLength   \* MIN_LITERAL_SECRET_LEN

ASSUME ScrubberAssumption == MinLength \in Nat \ {0}

Blank == " "
Mask == "[REDACTED]"

OccursAt(s, text, i) == SubSeq(text, i, i + Len(s) - 1) = s

Occurs(s, text) == \E i \in 1 .. Len(text) - Len(s) + 1 : OccursAt(s, text, i)

\* Wrong: the first occurrence only.
ReplacesFirst(text, s) ==
  IF s # <<>> /\ Occurs(s, text) THEN ReplaceFirstSubSeq(<<Mask>>, s, text) ELSE text

\* str::replace: from left to right, each occurrence that begins after the last.
Replaced(text, s) ==
  LET from[i \in 1 .. Len(text) + 1] ==
        IF i > Len(text) THEN <<>>
        ELSE IF i + Len(s) - 1 <= Len(text) /\ OccursAt(s, text, i)
             THEN <<Mask>> \o from[i + Len(s)]
             ELSE <<text[i]>> \o from[i + 1]
  IN from[1]

\* str::trim.
Trim(s) == LET ink == {i \in DOMAIN s : s[i] # Blank}
           IN  IF ink = {} THEN <<>> ELSE SubSeq(s, Min(ink), Max(ink))

\* The values that are looked for.
Literals(values) == {v \in {Trim(v) : v \in values} : Len(v) >= MinLength}

\* The second layer.
ScrubFormats(text) == [i \in DOMAIN text |-> IF text[i] \in Formatted THEN Mask ELSE text[i]]

\* Wrong: the loop ends at the first value that is found.
ScrubsOneValue(text, values) ==
  LET found == {v \in Literals(values) : Occurs(v, text)}
  IN {ScrubFormats(t) : t \in IF found = {} THEN {text} ELSE {Replaced(text, v) : v \in found}}

\* scrub_output, with the values in some order: values() of a hash map has none.
ScrubOutputs(text, values) ==
  {ScrubFormats(FoldLeft(Replaced, text, order)) : order \in SetToSeqs(Literals(values))}

-----------------------------------------------------------------------------
(* What scrubbing is to do.                                                *)

\* The i-th character of a text belongs to one of the values.
Covered(text, values, i) ==
  \E v \in values : \E j \in i - Len(v) + 1 .. i :
    j >= 1 /\ j + Len(v) - 1 <= Len(text) /\ OccursAt(v, text, j)

\* The characters of a text that belong to a secret.
Secret(text, values) ==
  {i \in DOMAIN text : text[i] \in Formatted \/ Covered(text, values, i)}

\* The characters of a text at some places.
Chosen(text, places) ==
  LET from[i \in 1 .. Len(text) + 1] ==
        IF i > Len(text) THEN <<>>
        ELSE (IF i \in places THEN <<text[i]>> ELSE <<>>) \o from[i + 1]
  IN from[1]

Public(text, values) == Chosen(text, DOMAIN text \ Secret(text, values))
Unmasked(text) == Chosen(text, {i \in DOMAIN text : text[i] # Mask})

\* No value contains another one, or ends as one begins (itself included).
Apart(values) ==
  \A v, w \in values :
    /\ v # w => ~ Occurs(v, w)
    /\ \A n \in 1 .. Len(v) - 1 :
         n < Len(w) => SubSeq(v, Len(v) - n + 1, Len(v)) # SubSeq(w, 1, n)
=============================================================================
