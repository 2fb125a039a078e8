\* Two lives: restarts, deletions and a creation, then a crash at any step and a start-up.
SPECIFICATION LifeFairSpec
CONSTANTS
  Domains = {d1}
  Runs = {r1}
  Callers = {c0, c1, c2}
  Creator = c0
  NoRun = NoRun
  NoRow = NoRow
  NoCaller = NoCaller
  Ops = {"restart", "delete"}
  Origins = {o1}
  Timers = FALSE
  MaxRestarts = 0
  MaxStarts = 2
\* A deleted domain is at rest for good.
CHECK_DEADLOCK FALSE
INVARIANTS LifeTypeOK
PROPERTIES ActiveComesBack BootCompletes
