\* Up to three containers of six references and three images.
SPECIFICATION Spec
CONSTANTS
  HostLike = {"docker.io", "ghcr.io"}
  Raws <- MCRaws
  Images = {"i1", "i2", "i3"}
  PlatformOf <- MCPlatformOf
  RepoDigests <- MCRepoDigests
  NoPlatform = ""
  MaxLen = 3
INVARIANTS LostOnlyAlone PlatformRecovered DigestFound
