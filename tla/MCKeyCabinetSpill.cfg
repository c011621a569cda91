\* Shows the bytes str2hex clears.
CONSTANTS
  APP_NUM = 1
  WINDOW = 2
  THRESH = 1
  AmrSamples = {0, 1}
  LockSamples = {0}
  SEM_MOD = 2
  CODE_LEN = 1
  Tags = {a}
  a = a
  Zero = Zero
  FF = FF
  NoTok = NoTok
SPECIFICATION Spec
INVARIANT StatusIsDebounced
