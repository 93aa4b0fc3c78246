---------------------------- MODULE MCSlaveWifi ----------------------------
(* Instances of SlaveWifi for TLC.                                         *)
EXTENDS SlaveWifi, TLC

(* The host controls Wi-Fi; the slave starts and connects by itself        *)
(* (network split); it also reconnects.                                    *)
HostBuild  == [on_start |-> FALSE, on_disconnect |-> FALSE, connect_sta |-> FALSE]
SplitBuild == [on_start |-> TRUE, on_disconnect |-> FALSE, connect_sta |-> TRUE]
RetryBuild == [on_start |-> TRUE, on_disconnect |-> TRUE, connect_sta |-> TRUE]

(* A change the slave looks for, one it does not, and one of capabilities. *)
HostInits == {[compared |-> 1, other |-> 0, caps |-> "default"],
              [compared |-> 1, other |-> 1, caps |-> "default"],
              [compared |-> 1, other |-> 0, caps |-> "host"]}

ConfigSymmetry == Permutations(Config)

AllBuilds == {HostBuild, SplitBuild, RetryBuild}
=============================================================================
