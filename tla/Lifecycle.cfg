SPECIFICATION Spec
CONSTANTS
  Threads = {t1, t2}
  Main = main
  Ops = {o1}
  Configs = {c1}
  XrayConfigs = {c1}
  Pids = {1, 2, 3}
  Jobs = {1, 2, 3, 4}
  None = none
  Inputs = {"start", "overlap", "stop", "prepare", "status", "engine_exit"}
  MaxGeneration = 2
  MaxEvents = 0
CHECK_DEADLOCK FALSE
SYMMETRY Symmetry
INVARIANTS
  TypeOK
  EnginesAreContained
  ProtectedIsReal
  FailedOwnsNothing
