---------------------------- MODULE MCPhyRpcHost ----------------------------
(* Instances of PhyRpcHost for TLC.                                        *)
EXTENDS PhyRpcHost

(* A full answer, a refusal, and an answer too short for its header; and a *)
(* getter that works next to one that does not.                            *)
KindsOfEach == {<<"ESP_OK", "body">>, <<"ESP_ERR", "header">>, <<"ESP_OK", "short">>}
MainKinds   == {<<"ESP_OK", "body">>, <<"ESP_ERR", "header">>}
=============================================================================
