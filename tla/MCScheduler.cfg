SPECIFICATION FairSpec
CONSTANTS
  Threads = {t1, t2, t3}
  Idle = Idle
  NULL = NULL
  PRIORITY_LEVELS = 4
  PRIORITY_NORMAL = 1
  PRIORITY_LOW = 2
  TIME_SLICE_BASE_MS = 2
  SLICE_STEP = 0
  CPU_HISTORY_SAMPLES = 1
  PRIORITY_BOOST_THRESHOLD = 30
  PRIORITY_DEMOTE_THRESHOLD = 40
  U8 = 256
  COUNTER_WIDTH = 16
  TICK_WIDTH = 3
  MaxSleep = 2
  NewPriorities = {}
  BasePriorities = {1}
  Calls = {"yield", "sleep", "exit", "block"}
  Cooperative = TRUE
INVARIANTS QueuesSound NoThreadLost
PROPERTIES NoOversleep ImplementsRunQueues LoopsEnd ReadyRuns
