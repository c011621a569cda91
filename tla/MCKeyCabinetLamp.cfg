\* Shows the race between key_status_led and check_key.
CONSTANTS
  APP_NUM = 1
  WINDOW = 7
  THRESH = 4
  AmrSamples = {0, 1}
  LockSamples = {0}
  SEM_MOD = 2
  CODE_LEN = 1
  Tags = {a}
  a = a
  Zero = Zero
  FF = FF
  NoTok = NoTok
SPECIFICATION Spec
INVARIANT LampMatchesRecord
