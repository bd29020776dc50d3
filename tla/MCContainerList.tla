--------------------------- MODULE MCContainerList ---------------------------
(* Instances of ContainerList for TLC. *)
EXTENDS ContainerList, TLC

Raw(name, tag, digest) == [name |-> name, tag |-> tag, digest |-> digest]
Entry(name, digest) == [name |-> name, digest |-> digest]

\* One image of Docker Hub in three spellings, a mirror of it, a pinned one,
\* and a string with no repository.
MCRaws ==
  {Raw(<<"nginx">>, "", ""), Raw(<<"docker.io", "nginx">>, "latest", ""),
   Raw(<<"docker.io", "library", "nginx">>, "1", ""), Raw(<<"ghcr.io", "me", "nginx">>, "1", ""),
   Raw(<<"nginx">>, "1", "sha"), Raw(<<"ghcr.io", "">>, "", "")}

MCPlatformOf == "i1" :> "amd64" @@ "i2" :> "amd64" @@ "i3" :> "arm64"

\* Known under its short name; under two registries; under another image's
\* name and without a digest.
MCRepoDigests ==
  "i1" :> <<Entry(<<"redis">>, "d0"), Entry(<<"nginx">>, "d1")>> @@
  "i2" :> <<Entry(<<"docker.io", "library", "nginx">>, "d2"), Entry(<<"ghcr.io", "me", "nginx">>, "d3")>> @@
  "i3" :> <<Entry(<<"nginx">>, "")>>
=============================================================================
