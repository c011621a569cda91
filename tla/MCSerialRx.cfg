\* A buffer of five bytes and frames of two: the buffer wraps inside frames.
CONSTANTS
  BUFSZ = 5
  IDX_MOD = 16
  FRAME = 2
  MaxLate = 4
  MQ_SIZE = 2
  MaxBytes = 18
SPECIFICATION FairSpec
INVARIANTS
  OfferedInOrder
  NothingStranded
PROPERTIES
  LossOnlyByOverrun
  FramesAreRead
\* The tag reader may fall silent.
CHECK_DEADLOCK FALSE
