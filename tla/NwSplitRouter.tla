--------------------------- MODULE NwSplitRouter ---------------------------
(***************************************************************************)
(* Network split: which IP stack a received station frame goes to, the     *)
(* slave's own, the host's, or both (slave/main/nw_split_router.c).  The   *)
(* answer depends on the frame, the ports reserved for the host, whether   *)
(* the host sleeps, and, on the iperf port, whether the slave listens      *)
(* there.                                                                  *)
(***************************************************************************)
EXTENDS Integers, Sequences

CONSTANTS
  MaxAllowed,    (* MAX_ALLOWED_TCP_SRC_PORTS and its like                 *)
  DefaultBridge  (* DEFAULT_LWIP_TO_SEND                                   *)

Bridges == {"slave", "host", "both", "invalid"}

ASSUME RouterAssumption == MaxAllowed \in Nat /\ DefaultBridge \in Bridges \ {"invalid"}

(* The ports of the code and of the default Kconfig ranges.                *)
MQTT_PORT == 1883
IPERF_PORT == 5001
DHCP_CLIENT_PORT == 68
IsRemote(port) == port \in 49152 .. 61439
IsLocal(port)  == port \in 61440 .. 65535

(* Sixteen bits. *)
Word == {w \in Nat : w < 65536}

(* A frame: what the router looks at.  "says" is "wakeup-host" when the TCP *)
(* payload starts with that string; wnd is the TCP window.                 *)
Frame == [proto: {"multicast", "tcp", "udp", "echo", "echo_reply",
                  "arp_request", "arp_reply", "other"},
          src: Word, dst: Word, says: {"", "wakeup-host"}, wnd: Word]

-----------------------------------------------------------------------------
(* The reserved ports, from the comma separated list of the configuration. *)

(* port_buf has six places, and its index is set back to four when it      *)
(* reaches five: the terminator overwrites the fifth digit.                *)
Kept(port) == IF port >= 10000 THEN port \div 10 ELSE port

(* init_allowed_ports, first call for its list: an empty list leaves the   *)
(* type without ports, and a port past MaxAllowed is ignored.              *)
Allowed(ports) == {Kept(ports[i]) : i \in {j \in DOMAIN ports : j <= MaxAllowed}}

(* punch_hole_for_host_ports_from_config: one list each.                   *)
AllowedPorts(cfg) ==
  [tcp |-> [src |-> Allowed(cfg.tcp.src), dst |-> Allowed(cfg.tcp.dst)],
   udp |-> [src |-> Allowed(cfg.udp.src), dst |-> Allowed(cfg.udp.dst)]]

IsReserved(f, allowed) == f.src \in allowed.src \/ f.dst \in allowed.dst

-----------------------------------------------------------------------------
(* nw_split_filter_and_route_packet; open says whether the slave listens   *)
(* on the iperf port (is_local_tcp_port_open, is_local_udp_port_open).     *)

(* host_mqtt_wakeup_triggered: the window is taken for the payload's       *)
(* length, and the string must come first.                                 *)
IsWakeUp(f) == f.src = MQTT_PORT /\ f.says = "wakeup-host" /\ f.wnd >= 11

(* What the iperf port alone decides, if anything.                         *)
IperfBridge(f, saving, open) ==
  IF f.dst # IPERF_PORT THEN {} ELSE
  IF open THEN {"slave"} ELSE IF saving THEN {} ELSE {"host"}

(* Mutant of RemoteBridge: ordinary traffic wakes the host.                *)
RemoteAlways(f, saving) == "host"

(* The host's own ports: a sleeping host is not woken for ordinary traffic. *)
RemoteBridge(f, saving) ==
  IF ~saving \/ (f.proto = "tcp" /\ IsWakeUp(f)) THEN "host" ELSE "invalid"

PortBridge(f, saving) ==
  CASE IsRemote(f.dst) -> RemoteBridge(f, saving)
    [] IsLocal(f.dst)  -> "slave"
    [] OTHER           -> DefaultBridge

Route(f, allowed, saving, open) ==
  CASE f.proto \in {"multicast", "echo", "arp_request"} -> "slave"
    [] f.proto \in {"echo_reply", "arp_reply"} -> IF saving THEN "slave" ELSE "both"
    [] f.proto \in {"tcp", "udp"} ->
         IF IsReserved(f, allowed[f.proto]) THEN "host" ELSE
         IF IperfBridge(f, saving, open) # {}
         THEN CHOOSE b \in IperfBridge(f, saving, open) : TRUE ELSE
         IF f.proto = "udp" /\ f.dst = DHCP_CLIENT_PORT THEN "both"
         ELSE PortBridge(f, saving)
    [] f.proto = "other" -> DefaultBridge
=============================================================================
