SPECIFICATION Spec
CONSTANTS
  Rtnl = Rtnl
  User = User
  Threads = {Rtnl, User}
  JobSets <- Mixes
  W = 2
  Vers = 2
  MaxPhy = 2
  PhyAt = 1
  PtpRegs <- TwoRegs
  Hangs = TRUE
  Fw = Fw
  Free = Free
INVARIANTS SemaphoresHold WholeTransfer OnlyThePtpBit
PROPERTIES RamRecovers
