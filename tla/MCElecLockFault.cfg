\* One lock, one failing transfer.
CONSTANTS
  Slots = {0}
  tshell = tshell
  NoReq = NoReq
  MaxFaults = 1
SPECIFICATION Spec
INVARIANT SuccessMeansReleased
