----------------------------- MODULE MCFraming -----------------------------
(***************************************************************************)
(* Values of the constants for the model-checking runs of Framing.         *)
(***************************************************************************)
EXTENDS Framing

\* All messages of up to two binary digits; lengths are two digits.
ShortMessages == UNION {[1..n -> {0, 1}] : n \in 0..2}
TwoMessages == {<<>>, <<0, 1>>}
=============================================================================
