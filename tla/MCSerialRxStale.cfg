\* Every interrupt is taken before the next byte arrives, the buffer and the
\* queue are never full.
CONSTANTS
  BUFSZ = 9
  IDX_MOD = 32
  FRAME = 2
  MaxLate = 0
  MQ_SIZE = 8
  MaxBytes = 8
SPECIFICATION Spec
INVARIANT FrameReached
CHECK_DEADLOCK FALSE
