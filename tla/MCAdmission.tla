------------------------------ MODULE MCAdmission ------------------------------
(***************************************************************************)
(* An instance of Admission for TLC.                                       *)
(***************************************************************************)
EXTENDS Admission

CONSTANTS s1, i1, i2
==============================================================================
