---------------------------- MODULE MCTransport ----------------------------
(* Transport with the three variants and a few sockets.                    *)
EXTENDS Transport
=============================================================================
