---------------------------- MODULE MCPhyOverlay ----------------------------
EXTENDS PhyOverlay

(* All symbols; none; and a chip that can enable but not disable, and the  *)
(* other way round.                                                        *)
AllSymbols == UNION {HookOf(r) : r \in Hooked}
  \union {"phy_force_rx_gain", "phy_enable_agc", "phy_disable_agc", "phy_agc_max_gain_set",
          "phy_enable_cca", "phy_disable_cca", "phy_enable_low_rate",
          "phy_disable_low_rate", "esp_ieee802154"}
Chips == {AllSymbols, {}, {"phy_disable_agc", "phy_enable_cca", "phy_enable_low_rate"},
          AllSymbols \ {"phy_enable_cca", "phy_enable_agc", "phy_enable_low_rate"}}

AllParts  == Part
Powers    == {-33, 1, 21, 31, 32}
(* Short ones, and one that only raw 802.11 takes, with a length of two    *)
(* bytes.                                                                  *)
SomeFrames == {<<5>>, <<5, 6>>, <<5, 6, 7, 8>>, [i \in 1 .. 260 |-> i % 7]}
=============================================================================
