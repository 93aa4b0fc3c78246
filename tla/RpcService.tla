----------------------------- MODULE RpcService -----------------------------
(***************************************************************************)
(* What the host library promises (esp_hosted_open.h): a synchronous call  *)
(* interface over an asynchronous channel.  A call starts, is given a      *)
(* fresh operation id and ends exactly once; the peer answers an operation *)
(* at most once, possibly after the call has ended or never; and a call    *)
(* that ends with a peer status ends with the one given to its operation.  *)
(* How calls are matched with answers -- slots, semaphores, locks -- is    *)
(* left to the implementation.                                             *)
(***************************************************************************)
EXTENDS Naturals

CONSTANTS Caller,      (* tasks that make calls                            *)
          PeerStatus,  (* statuses the peer answers with                   *)
          NoAnswerYet, (* status of a call that ended without the peer's   *)
          None         (* no operation                                     *)

VARIABLES phase,   (* [Caller -> {"idle", "starting", "pending"}]          *)
          opOf,    (* [Caller -> operation of the call in progress]        *)
          issued,  (* number of operations issued so far                   *)
          said,    (* set of <<operation, status>>: the peer's answers     *)
          outcome  (* [Caller -> <<operation, status>>] of the last call   *)

svars == <<phase, opOf, issued, said, outcome>>

SInit == /\ phase   = [c \in Caller |-> "idle"]
         /\ opOf    = [c \in Caller |-> None]
         /\ issued  = 0
         /\ said    = {}
         /\ outcome = [c \in Caller |-> <<None, NoAnswerYet>>]

Start(c) == /\ phase[c] = "idle"
            /\ phase'   = [phase EXCEPT ![c] = "starting"]
            /\ outcome' = [outcome EXCEPT ![c] = <<None, NoAnswerYet>>]
            /\ UNCHANGED <<opOf, issued, said>>

Refuse(c) == /\ phase[c] = "starting"
             /\ phase' = [phase EXCEPT ![c] = "idle"]
             /\ UNCHANGED <<opOf, issued, said, outcome>>

Issue(c) == /\ phase[c] = "starting"
            /\ issued' = issued + 1
            /\ phase'  = [phase EXCEPT ![c] = "pending"]
            /\ opOf'   = [opOf EXCEPT ![c] = issued + 1]
            /\ UNCHANGED <<said, outcome>>

Say(op, st) == /\ op \in 1 .. issued
               /\ \A s \in PeerStatus : <<op, s>> \notin said
               /\ said' = said \union {<<op, st>>}
               /\ UNCHANGED <<phase, opOf, issued, outcome>>

Finish(c, st) == /\ phase[c] = "pending"
                 /\ st = NoAnswerYet \/ <<opOf[c], st>> \in said
                 /\ phase'   = [phase EXCEPT ![c] = "idle"]
                 /\ opOf'    = [opOf EXCEPT ![c] = None]
                 /\ outcome' = [outcome EXCEPT ![c] = <<opOf[c], st>>]
                 /\ UNCHANGED <<issued, said>>

SNext == \/ \E c \in Caller : Start(c) \/ Refuse(c) \/ Issue(c)
         \/ \E op \in 1 .. issued, st \in PeerStatus : Say(op, st)
         \/ \E c \in Caller, st \in PeerStatus \union {NoAnswerYet} :
              Finish(c, st)

SSpec == SInit /\ [][SNext]_svars

=============================================================================
