--------------------------- MODULE MCLargeMessage ---------------------------
(* LargeMessage with a few messages.                                       *)
EXTENDS LargeMessage
=============================================================================
