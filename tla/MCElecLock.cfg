\* Two locks, up to two failing transfers.
CONSTANTS
  Slots = {0, 1}
  tshell = tshell
  NoReq = NoReq
  MaxFaults = 2
SPECIFICATION FairSpec
INVARIANTS
  NeverBothCoils
  OnlyPulsedCoil
PROPERTY CoilReleased
