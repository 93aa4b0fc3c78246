----------------------------- MODULE MCRpcCore -----------------------------
(* Instances of RpcCore for TLC.                                           *)
EXTENDS RpcCore
=============================================================================
