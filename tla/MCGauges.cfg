\* One process, two images on a pool of one worker, the registry may fail.
SPECIFICATION GFairSpec
CONSTANTS
  Procs = {"daemon"}
  NumKeys = 2
  Opaque = {1}
  Manifests <- MCManifests
  Snapshots <- MCSnapshots
  Winners <- MCWinners
  Workers = 1
  DefaultPolicy <- Default
  Faults = {"registry"}
INVARIANTS TypeOK RetainsObservation TransitionReported DriftShowsAsUpdate
PROPERTY CheckEnds
