----------------------------- MODULE References ------------------------------
(***************************************************************************)
(* internal/image: what a raw image string refers to.  A raw string is its *)
(* slash-separated name, its tag and its digest, "" for what it leaves     *)
(* out.                                                                    *)
(***************************************************************************)
EXTENDS Naturals, Sequences

CONSTANT HostLike  \* the name components with a dot or a colon, and localhost

DefaultRegistry == "docker.io"

ASSUME HostAssumption == DefaultRegistry \in HostLike /\ "" \notin HostLike

Registry(raw) ==
  IF Len(raw.name) > 1 /\ raw.name[1] \in HostLike THEN raw.name[1] ELSE DefaultRegistry

\* The name without its registry, with Docker Hub's implicit namespace.
Qualified(raw) ==
  LET path == IF Len(raw.name) > 1 /\ raw.name[1] \in HostLike THEN Tail(raw.name) ELSE raw.name
  IN  IF Registry(raw) = DefaultRegistry /\ Len(path) = 1 THEN <<"library">> \o path ELSE path

Parseable(raw) == raw.name # <<>> /\ Qualified(raw) # <<"">>

\* The tag of a string that has a digest too stays part of the repository.
ParseReference(raw) ==
  [registry |-> Registry(raw),
   repository |-> [path |-> Qualified(raw), colon |-> IF raw.digest # "" THEN raw.tag ELSE ""],
   tag |-> IF raw.digest # "" THEN "" ELSE IF raw.tag = "" THEN "latest" ELSE raw.tag,
   digest |-> raw.digest]
=============================================================================
