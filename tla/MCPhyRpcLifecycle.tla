------------------------- MODULE MCPhyRpcLifecycle -------------------------
(* Instances of PhyRpcLifecycle for TLC.                                   *)
EXTENDS PhyRpcLifecycle

(* Two responses, of which deinit forgets the first.                      *)
SmallDeinitIds == {2}

(* The ids of the source: 28 of the 47 responses and one of the 7 events.  *)
SourceDeinitIds == 1 .. 28 \union {48}
=============================================================================
