\* A deletion between the insert of a row and its spawn.
SPECIFICATION ControlSpec
CONSTANTS
  Domains = {d1}
  Runs = {r1}
  Callers = {c0, c1}
  Creator = c0
  NoRun = NoRun
  NoRow = NoRow
  NoCaller = NoCaller
  Ops = {"delete"}
  Origins = {o1}
  Timers = FALSE
  MaxRestarts = 0
\* A deleted domain is at rest for good.
CHECK_DEADLOCK FALSE
INVARIANTS DeletedHasNoProcess
