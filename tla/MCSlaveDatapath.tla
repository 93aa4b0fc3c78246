-------------------------- MODULE MCSlaveDatapath --------------------------
(* An instance of SlaveDatapath for TLC.                                   *)
EXTENDS SlaveDatapath, TLC

(* The default lists of the Kconfig menu, with a five-digit port.          *)
ReservedPorts ==
  [tcp |-> [src |-> <<22, 8554>>, dst |-> <<22, 80, 443, 8080, 49200>>],
   udp |-> [src |-> <<>>, dst |-> <<53, 123>>]]

Plain(proto, src, dst) == [proto |-> proto, src |-> src, dst |-> dst, says |-> "", wnd |-> 500]

StationFrames ==
  {Plain("tcp", 40000, 8080), Plain("tcp", 8554, 49300), Plain("tcp", 40000, 49200),
   Plain("tcp", 40000, 4920), Plain("tcp", 40000, 61500),
   Plain("tcp", MQTT_PORT, 49300), Plain("tcp", 40000, IPERF_PORT),
   Plain("udp", 40000, 123), Plain("udp", 67, DHCP_CLIENT_PORT), Plain("udp", 40000, 49200),
   Plain("echo", 0, 0), Plain("arp_reply", 0, 0), Plain("multicast", 0, 0), Plain("other", 0, 0),
   [Plain("tcp", MQTT_PORT, 49300) EXCEPT !.says = "wakeup-host"],
   [Plain("tcp", MQTT_PORT, 49300) EXCEPT !.says = "wakeup-host", !.wnd = 0]}

TwoBuilds == {[split |-> TRUE, unload |-> TRUE, light_sleep |-> TRUE],
              [split |-> FALSE, unload |-> FALSE, light_sleep |-> FALSE]}

SenderSymmetry == Permutations(Senders)
=============================================================================
