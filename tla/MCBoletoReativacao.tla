-------------------------- MODULE MCBoletoReativacao --------------------------
(***************************************************************************)
(* Instances of BoletoReativacao: one approval at a time, or two.          *)
(***************************************************************************)
EXTENDS BoletoReativacao, TLC

CONSTANTS s1, s2
=============================================================================
