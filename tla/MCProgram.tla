----------------------------- MODULE MCProgram -----------------------------
(* Program with a few logs, on both targets.                              *)
EXTENDS Program
=============================================================================
