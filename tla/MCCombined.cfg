\* The same tags, and a combined candidate that is not what its comment says.
SPECIFICATION DetectSpec
CONSTANTS
  Currents <- MCCurrents
  TagLists <- MCTagLists
  NoTag = NoTag
  Scans = {}
  NumTags = 0
  Matches = {}
  Workers = 1
  Faults = {}
INVARIANT CombinedCarriesBoth
