\* One daemon, everything may fail; the running digest is known.
SPECIFICATION DFairSpec
CONSTANTS
  Procs = {"daemon"}
  NumKeys = 1
  Opaque = {1}
  Manifests <- MCManifests
  Snapshots <- OldContainer
  Winners <- NoWinners
  Workers = 1
  DefaultPolicy <- Default
  NumNotifiers = 1
  Mode = "batch"
  Faults = {"read", "write", "registry", "notify", "lostack", "expiry", "restart", "crash"}
INVARIANT NothingHidden
PROPERTY DriftIsDelivered
