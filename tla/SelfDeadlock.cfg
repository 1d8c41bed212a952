SPECIFICATION FairSpec
CONSTANTS
  Threads = {t1, t2}
  Main = main
  Ops = {o1}
  Configs = {c1}
  XrayConfigs = {}
  Pids = {1, 2, 3}
  Jobs = {1, 2, 3, 4}
  None = none
  Inputs = {"stop", "event"}
  MaxGeneration = 1
  MaxEvents = 1
CHECK_DEADLOCK FALSE
PROPERTIES
  StopEndsService
