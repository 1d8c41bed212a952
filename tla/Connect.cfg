SPECIFICATION Spec
CONSTANTS
  Platforms = {"windows", "macos", "appstore"}
  Threads = {t1, t2}
  Nobody = nobody
  Requests <- MixedRequests
  NoRequest = norequest
  Inputs = {"compat", "repair", "update", "quit", "restart", "service_exit", "proxy_error", "faults"}
  MaxConnects = 2
CHECK_DEADLOCK FALSE
SYMMETRY Symmetry
INVARIANTS
  TypeOK
  EnginesAreNamed
  OneLocalEngine
  DisconnectWins
  ProxyIsTracked
