\* One slot, windows of two samples; the lock sensor settles on 1.
CONSTANTS
  APP_NUM = 1
  WINDOW = 2
  THRESH = 1
  AmrSamples = {0, 1}
  LockSamples = {1}
  SEM_MOD = 2
  CODE_LEN = 2
  Tags = {a}
  a = a
  Zero = Zero
  FF = FF
  NoTok = NoTok
SPECIFICATION FairSpec
INVARIANTS
  TypeOK
  LampExclusive
  WaiterMeansEmpty
  ScanNeverForges
PROPERTIES
  UsesSemaphore
  StatusRecorded
  ClearedLampRedrawn
  StableTagAdopted
