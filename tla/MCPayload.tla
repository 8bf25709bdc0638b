----------------------------- MODULE MCPayload ------------------------------
(* Instances of Payload for TLC: keys of two bytes.                        *)
EXTENDS Payload

TwoKeys == {<<15, 0>>, <<171, 205>>}

\* A sign for a digit (taken for the first key), a letter that is no digit, a
\* text that is too short, and characters of more than one byte, in and across
\* the pairs.
Mistyped == {<<"+", "F", "0", "0">>, <<"0", "g", "0", "0">>, <<"0", "f", "0">>,
             <<"two bytes", "0", "0">>, <<"0", "two bytes", "0">>,
             <<"g", "0", "two bytes">>, <<"0", "three bytes">>}
=============================================================================
