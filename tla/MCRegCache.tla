----------------------------- MODULE MCRegCache -----------------------------
(***************************************************************************)
(* Two integer registers, one of them expedited, and a float; two values.  *)
(***************************************************************************)
EXTENDS RegCache

MCOrder == <<"r1", "pc", "f0">>
=============================================================================
