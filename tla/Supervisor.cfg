\* Two starts and two stops of one domain interleave; one retry.
SPECIFICATION FairSpec
CONSTANTS
  Domains = {d1}
  Runs = {r1, r2}
  Callers = {c1, c2}
  NoRun = NoRun
  MaxRestarts = 1
INVARIANTS TypeOK AtMostOneProcess ProcessIsTracked FirstStopNotLost
PROPERTIES ReleasedByOwner ImplementsSlots TerminatedIsReleased RetryEnds
