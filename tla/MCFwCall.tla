------------------------------ MODULE MCFwCall ------------------------------
(* Scenarios for TLC: the calls are taken in groups that interact, and the *)
(* ways the device can boot by themselves.                                 *)
EXTENDS FwCall

Case(build, ops, n, r, c) ==
    [build |-> build, ops |-> ops, opens |-> n, user |-> 2, rejects |-> r,
     cfg |-> c, fast |-> {FALSE}, chain |-> {"flb"}, fw |-> {"up"}]
Boots ==
    [build |-> "linux", ops |-> {}, opens |-> 2, user |-> 0, rejects |-> 0,
     cfg |-> {}, fast |-> BOOLEAN, chain |-> {"none", "flb", "rbl"},
     fw |-> {"booting", "up"}]
AllScenarios ==
    { Boots,
      Case("esxi", {"stats", "service"}, 2, 0, {}),
      Case("esxi", {"pause", "nway", "service"}, 2, 0, {}),
      Case("esxi", {"wol", "service"}, 2, 1, {}),
      Case("linux", {"eee", "loopback"}, 2, 0, {}),
      Case("linux", {"temp"}, 1, 0, {"PAUSE"}),
      Case("linux", {"request"}, 1, 0, {"WOL"}),
      Case("linux", {"cable", "service"}, 1, 0, {}) }
=============================================================================
