\* Every order of up to three of eleven tags, seven running tags; three drifted
\* digests on two workers, three candidates of which two match.
SPECIFICATION DetectFairSpec
CONSTANTS
  Currents <- MCCurrents
  TagLists <- MCTagLists
  NoTag = NoTag
  Scans = {"s1", "s2", "s3"}
  NumTags = 3
  Matches = {1, 2}
  Workers = 2
  Faults = {"registry", "timeout"}
INVARIANTS TypeOK NewestMatchWins ListedOnce RequestsBounded
INVARIANTS NewestReported BestIsNewest BaseNewest CombinedUpdatesBoth
PROPERTY ScansEnd
