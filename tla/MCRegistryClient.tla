-------------------------- MODULE MCRegistryClient ---------------------------
(* Instances of RegistryClient for TLC. *)
EXTENDS RegistryClient

Linux(a, v) == [os |-> "linux", arch |-> a, variant |-> v]

MCPlatforms == {Linux("amd64", ""), Linux("arm64", ""), Linux("arm64", "v8"), Linux("arm", "v7")}

Single(d, p) == [kind |-> "single", digest |-> d, config |-> p]

Entry(d, p) == [digest |-> d, platform |-> p]

\* Two single manifests, and an index with both spellings of arm64.
MCContents ==
  {Single("s1", Linux("amd64", "")), Single("s2", Linux("arm64", "v8")),
   [kind |-> "index", digest |-> "x1",
    entries |-> <<Entry("m1", Linux("arm64", "v8")), Entry("m2", Linux("arm64", "")),
                  Entry("m3", Linux("arm", "v7"))>>]}
=============================================================================
