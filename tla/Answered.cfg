SPECIFICATION FairSpec
CONSTANTS
  Platforms = {"windows", "macos", "appstore"}
  Threads = {t1, t2}
  Nobody = nobody
  Requests <- OtherRequests
  NoRequest = norequest
  Inputs = {"status", "quit", "engine_exit", "service_exit", "proxy_error"}
  MaxConnects = 2
CHECK_DEADLOCK FALSE
PROPERTIES
  CallsAreAnsweredUnlessWedged
