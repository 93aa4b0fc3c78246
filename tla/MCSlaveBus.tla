----------------------------- MODULE MCSlaveBus ----------------------------
(* An instance of SlaveBus for TLC.                                        *)
EXTENDS SlaveBus, TLC

CONSTANTS wifi, pserial

(* The tasks and what they send.                                           *)
SentAs == (wifi :> "others") @@ (pserial :> "serial")
=============================================================================
