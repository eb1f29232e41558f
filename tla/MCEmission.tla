----------------------------- MODULE MCEmission -----------------------------
(***************************************************************************)
(* Emission for TLC, with the program's rigs and basis points, and         *)
(* intervals a few runs can mint.                                          *)
(***************************************************************************)
EXTENDS Emission

\* No boost; one that cuts, one that adds a half; two that multiply to 3; and
\* a 0, which mints nothing.
MCBoosts == {<<>>, <<5000>>, <<15000>>, <<20000, 15000>>, <<0>>}
=============================================================================
