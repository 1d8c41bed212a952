SPECIFICATION Spec
CONSTANTS
  Threads = {t1, t2}
  Main = main
  Ops = {o1}
  Configs = {c1, x1}
  XrayConfigs = {x1}
  Pids = {1, 2, 3}
  Jobs = {1, 2, 3, 4}
  None = none
  Inputs = {"start", "status", "engine_exit", "crash", "restart"}
  MaxGeneration = 3
  MaxEvents = 0
CHECK_DEADLOCK FALSE
SYMMETRY Symmetry
INVARIANTS
  EngineIsMarked
  OneRuntime
