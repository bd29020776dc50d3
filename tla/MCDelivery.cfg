\* Two targets of every way to send; posts and
\* lookups may fail, SIGTERM and crashes.
SPECIFICATION DFairSpec
CONSTANTS
  f1 = f1
  f2 = f2
  Hosts = {"ghcr.io"}
  Configured = 2
  MaxStreak = 3
  NumNotifiers = 2
  TargetLists <- Pairs
  Mode = "batch"
  Fingerprints = {f1, f2}
  ItemLists <- Lists
  Faults = {"notify", "lostack", "restart", "crash", "read"}
INVARIANTS DTypeOK OnceUnlessInterrupted EveryTargetTried OneAlertPerOutage AlertedOnce
PROPERTIES ImplementsPipeline CycleEnds
