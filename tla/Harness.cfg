CONSTANTS
  TIMEOUT_THRESHHOLD = 3
  WINDOW = 2
  FORGED_CHALLENGES_TO_WARN = 2
  SYNCH_FAILURES_TO_WARN = 3
  JUMP_THRESHOLD_STEPS = 2
  SAMPLES_FOR_BASELINE = 2
  MAX_CELLS = 2
  NAS_TIMEOUT = 3
  home_plmn = {1}
  Recordings <- AllRecordings
SPECIFICATION Spec
INVARIANTS
  IdentityRequestsTold
  FlashCatchTold
  LocationWarnedOnce
  DowngradeJudged
  JumpIsOneCell
  SilenceIsReal
