\* A stop that falls into the backoff.
SPECIFICATION Spec
CONSTANTS
  Domains = {d1}
  Runs = {r1}
  Callers = {c1}
  NoRun = NoRun
  MaxRestarts = 1
INVARIANT StopNotLost
