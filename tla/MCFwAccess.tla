----------------------------- MODULE MCFwAccess -----------------------------
(* FwAccess for TLC: the calls in groups that share a semaphore. *)
EXTENDS FwAccess

CONSTANTS Rtnl, User     \* the thread under rtnl, and hwmon or /dev/ptp

Does(r, u) == [t \in {Rtnl, User} |-> IF t = Rtnl THEN r ELSE u]
Mixes == { Does({"downld", "upload"}, {"downld"}),
           Does({"msm"}, {"msm"}),
           Does({"phy"}, {"msm"}) }
TwoRegs == <<1, 2>>
=============================================================================
