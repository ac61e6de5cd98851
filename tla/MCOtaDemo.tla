----------------------------- MODULE MCOtaDemo -----------------------------
(* OtaDemo with a few buffers, messages, operations and failures.          *)
EXTENDS OtaDemo
=============================================================================
