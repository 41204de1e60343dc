------------------------------- MODULE MCApart ------------------------------
(* Apart on the instances of MCSessions.                                    *)
EXTENDS MCSessions, Apart
=============================================================================
