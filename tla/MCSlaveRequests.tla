------------------------- MODULE MCSlaveRequests -------------------------
(* SlaveRequests with every family of requests. *)
EXTENDS SlaveRequests

AllFamilies == Family
=============================================================================
