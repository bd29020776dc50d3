\* Nothing fails; two containers run different old digests of one tag.
SPECIFICATION DSpec
CONSTANTS
  Procs = {"daemon"}
  NumKeys = 1
  Opaque = {1}
  Manifests <- MCManifests
  Snapshots <- TwoOldContainers
  Winners <- NoWinners
  Workers = 1
  DefaultPolicy <- Default
  NumNotifiers = 1
  Mode = "batch"
  Faults = {}
INVARIANT OncePerEvent
