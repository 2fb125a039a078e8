\* Two requests that stop, delete or re-route a domain that crashes and restarts.
SPECIFICATION ControlFairSpec
CONSTANTS
  Domains = {d1}
  Runs = {r1}
  Callers = {c0, c1, c2}
  Creator = c0
  NoRun = NoRun
  NoRow = NoRow
  NoCaller = NoCaller
  Ops = {"stop", "delete", "routes"}
  Origins = {o1}
  Timers = TRUE
  MaxRestarts = 1
\* A deleted domain is at rest for good.
CHECK_DEADLOCK FALSE
INVARIANTS ActiveIsTracked
PROPERTIES StopTakesEffect LocksReleased
