\* Four platforms, three contents; four tags on pages of one, at most three.
SPECIFICATION Spec
CONSTANTS
  Platforms <- MCPlatforms
  Contents <- MCContents
  NumTags = 4
  PageSize = 1
  maxTagListPages = 3
  Faults = {"request", "link"}
INVARIANTS AnswerIsPlatformVerified SpellingDoesNotMatter ListingComplete
PROPERTY CallsEnd
