\* Two processes, everything may fail, one item per message.
SPECIFICATION Spec
CONSTANTS
  f1 = f1
  f2 = f2
  daemon = daemon
  check = check
  Procs = {daemon, check}
  NumNotifiers = 2
  Mode = "individual"
  Fingerprints = {f1, f2}
  ItemLists <- TwinLists
  Faults = {"read", "write", "notify", "lostack", "expiry", "restart", "crash"}
INVARIANTS TypeOK MarkedWasReceived
PROPERTY KeepsLedger
