\* Two chips with a thread each, and a bus that does not fail.
CONSTANTS
  p0 = p0
  p1 = p1
  q0 = q0
  stat = stat
  led = led
  NoReq = NoReq
  NCHIP = 2
  Port0 <- OnePortPair
  Port1 <- SecondPort
  Clients <- TwoThreads
  Users <- OneThreadEach
  Cmds <- AppCmds
  MaxFaults = 0
SPECIFICATION Spec
PROPERTY PinsAreIndependent
