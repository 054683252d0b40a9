SPECIFICATION Spec
CONSTANTS
  Threads = {t1, t2}
  Idle = Idle
  NULL = NULL
  PRIORITY_LEVELS = 4
  PRIORITY_NORMAL = 1
  PRIORITY_LOW = 2
  TIME_SLICE_BASE_MS = 0
  SLICE_STEP = 1
  CPU_HISTORY_SAMPLES = 1
  PRIORITY_BOOST_THRESHOLD = 30
  PRIORITY_DEMOTE_THRESHOLD = 80
  U8 = 256
  COUNTER_WIDTH = 1
  TICK_WIDTH = 5
  MaxSleep = 1
  BasePriorities = {1}
  NewPriorities = {}
  Calls = {"yield"}
  Cooperative = FALSE
INVARIANT NoThreadLost
