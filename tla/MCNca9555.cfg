\* One chip, three pins, every call, up to two failing transfers.
CONSTANTS
  p0 = p0
  p1 = p1
  q0 = q0
  stat = stat
  led = led
  NoReq = NoReq
  NCHIP = 1
  Port0 <- TwoPins
  Port1 <- SecondPort
  Clients <- OneThread
  Users <- AllToOne
  Cmds <- AllCmds
  MaxFaults = 2
SPECIFICATION Spec
PROPERTIES
  BootOnlyReleases
  BootSurvivesOneFault
  NoSpuriousHigh
