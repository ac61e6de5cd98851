------------------------------ MODULE MCOtaPal ------------------------------
(* OtaPal with images of two blocks.                                       *)
EXTENDS OtaPal
=============================================================================
