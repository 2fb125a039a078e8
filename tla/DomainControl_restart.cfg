\* Stops, restarts and deletions of one domain.
SPECIFICATION ControlSpec
CONSTANTS
  Domains = {d1}
  Runs = {r1}
  Callers = {c0, c1, c2}
  Creator = c0
  NoRun = NoRun
  NoRow = NoRow
  NoCaller = NoCaller
  Ops = {"stop", "restart", "delete"}
  Origins = {o1}
  Timers = FALSE
  MaxRestarts = 0
\* A deleted domain is at rest for good.
CHECK_DEADLOCK FALSE
PROPERTIES DeletedStaysDeleted
