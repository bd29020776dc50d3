--------------------------- MODULE ContainerList -----------------------------
(***************************************************************************)
(* docker.Client.ListContainers: one request for the running containers,   *)
(* then one image inspection after another, each of which may fail, and    *)
(* backfillPlatforms over what came out.  The platform decides the image   *)
(* group a container is checked in and the digest whether it is up to      *)
(* date, so losing them or mixing them up is what can go wrong here.  (The *)
(* inspectFailed map is never written, so its branch is never taken: a     *)
(* failed image is inspected again for every container.)                   *)
(***************************************************************************)
EXTENDS Naturals, Sequences, SequencesExt, References

CONSTANTS
  Raws,         \* raw image strings of the containers
  Images,       \* image ids
  PlatformOf,   \* the platform of each image
  RepoDigests,  \* the names and digests each image is known under
  NoPlatform,   \* the zero Platform
  MaxLen        \* bound on the number of containers

\* Docker names an image it knows by its short name, Podman by its full one;
\* neither writes docker.io/nginx.
RepoName(name) ==
  /\ name \in Seq(STRING) /\ name # <<>>
  /\ ~(Len(name) = 2 /\ name[1] = DefaultRegistry)

ASSUME ContainerListAssumption ==
  /\ \A r \in Raws : r.name \in Seq(STRING)
  /\ \A i \in Images :
       /\ PlatformOf[i] # NoPlatform
       /\ Len(RepoDigests[i]) \in Nat /\ DOMAIN RepoDigests[i] = 1..Len(RepoDigests[i])
       /\ \A e \in ToSet(RepoDigests[i]) : RepoName(e.name)
  /\ MaxLen \in Nat

Container == [raw : Raws, image : Images]

VARIABLES
  containers,    \* the summaries of the running containers
  next,          \* the container inspected next
  imageCache,    \* images inspected successfully in this call
  observations,  \* what the loop has produced: container index, platform, digest
  filled,        \* how many of them backfillPlatforms has been through
  result         \* what it has kept of them, in the end what ListContainers returns

vars == <<containers, next, imageCache, observations, filled, result>>

Lists == UNION {[1..n -> Container] : n \in 0..MaxLen}

Init ==
  /\ containers \in Lists
  /\ next = 1
  /\ imageCache = {}
  /\ observations = <<>>
  /\ filled = 0
  /\ result = <<>>

raw(i) == containers[i].raw

\* What backfillPlatforms tells references apart by.  A string that does not
\* parse is a repository of its own without a registry.
refKey(i) ==
  IF Parseable(raw(i))
  THEN LET r == ParseReference(raw(i)) IN <<r.registry, r.repository, r.tag>>
  ELSE <<"", [path |-> raw(i).name, colon |-> raw(i).tag], "">>

\* A bug to rule out: names must be equal.
EquivalentEqual(a, b) == a = b

\* One of the names is the other, or ends in it after a slash.
repoNamesEquivalent(a, b) == IsSuffix(a, b) \/ IsSuffix(b, a)

\* The first entry with an equivalent name; an entry may have no digest.
matchRepoDigest(entries, repository) ==
  LET match == {i \in DOMAIN entries :
                  /\ entries[i].digest # "" /\ repository.colon = ""
                  /\ repoNamesEquivalent(entries[i].name, repository.path)}
  IN  IF match = {} THEN "" ELSE entries[CHOOSE i \in match : \A j \in match : i <= j].digest

Observe(platform, digest) ==
  observations' = Append(observations, [at |-> next, platform |-> platform, digest |-> digest])

\* The inspection fails: all that is known is the summary.
SummaryOnly ==
  /\ next \in DOMAIN containers
  /\ containers[next].image \notin imageCache
  /\ Observe(NoPlatform, "")
  /\ next' = next + 1
  /\ UNCHANGED <<containers, imageCache, filled, result>>

\* The image is inspected, or was before; a reference that does not parse is
\* skipped.
SummaryAndImage ==
  /\ next \in DOMAIN containers
  /\ imageCache' = imageCache \union {containers[next].image}
  /\ IF ~Parseable(raw(next))
       THEN UNCHANGED observations
       ELSE Observe(PlatformOf[containers[next].image],
                    matchRepoDigest(RepoDigests[containers[next].image],
                                    ParseReference(raw(next)).repository))
  /\ next' = next + 1
  /\ UNCHANGED <<containers, filled, result>>

\* The positions of the observations that know the platform of reference r.
Siblings(r) ==
  {j \in DOMAIN observations :
     refKey(observations[j].at) = r /\ observations[j].platform # NoPlatform}

\* A bug to rule out: only containers listed earlier can lend a platform.
KnownBefore(o) ==
  LET earlier == {j \in Siblings(refKey(o.at)) : observations[j].at < o.at}
  IN  IF earlier = {} THEN NoPlatform
      ELSE observations[CHOOSE j \in earlier : \A k \in earlier : k <= j].platform

\* A bug to rule out: any container with a platform lends it.
KnownAnyRef(o) ==
  LET lenders == {j \in DOMAIN observations : observations[j].platform # NoPlatform}
  IN  IF lenders = {} THEN NoPlatform
      ELSE observations[CHOOSE j \in lenders : \A k \in lenders : k <= j].platform

\* known[ref]: the last container of the list that has it lends its platform.
Known(o) ==
  LET lenders == Siblings(refKey(o.at))
  IN  IF lenders = {} THEN NoPlatform
      ELSE observations[CHOOSE j \in lenders : \A k \in lenders : k <= j].platform

AllSeen == next = Len(containers) + 1  \* the first loop is through

\* One turn of backfillPlatforms: keep, complete or drop an observation.
backfillPlatforms ==
  /\ AllSeen /\ filled < Len(observations)
  /\ LET o == observations[filled + 1]
         p == IF o.platform # NoPlatform THEN o.platform ELSE Known(o)
     IN  result' = IF p # NoPlatform THEN Append(result, [o EXCEPT !.platform = p]) ELSE result
  /\ filled' = filled + 1
  /\ UNCHANGED <<containers, next, imageCache, observations>>

Done == AllSeen /\ filled = Len(observations)

\* The next cycle starts from nothing.  That the containers may have changed
\* since is in Init already: a call keeps no state.
ListAgain ==
  /\ Done
  /\ next' = 1 /\ imageCache' = {} /\ observations' = <<>> /\ filled' = 0 /\ result' = <<>>
  /\ UNCHANGED containers

Next == SummaryOnly \/ SummaryAndImage \/ backfillPlatforms \/ ListAgain

Spec == Init /\ [][Next]_vars

-----------------------------------------------------------------------------

Reported == {result[j].at : j \in DOMAIN result}

\* The two containers were started from one tag of one repository, however
\* their references spell it: Docker's own reading, in which a name with no
\* registry is on Docker Hub and a single component there is in library.
SpelledOut(name) ==
  LET host == IF name[1] \in HostLike /\ Len(name) > 1 THEN <<>> ELSE <<DefaultRegistry>>
      full == host \o name
  IN  IF full[1] = DefaultRegistry /\ Len(full) = 2
      THEN <<DefaultRegistry, "library", full[2]>> ELSE full

SameImage(i, j) ==
  /\ Parseable(raw(i)) /\ Parseable(raw(j))
  /\ SpelledOut(raw(i).name) = SpelledOut(raw(j).name)
  /\ raw(i).digest = "" /\ raw(j).digest = ""
  /\ raw(i).tag = raw(j).tag \/ {raw(i).tag, raw(j).tag} = {"", "latest"}

Inspected(i) == \E k \in DOMAIN observations : observations[k].at = i /\ observations[k].platform # NoPlatform

\* A failed inspection costs a container its place in the check only if no
\* other container of the same image could be inspected, before or after it
\* and however its reference is spelled; and nothing that ParseReference
\* rejects gets a place.
LostOnlyAlone ==
  Done =>
    \A i \in DOMAIN containers :
      /\ ~Parseable(raw(i)) => i \notin Reported
      /\ i \notin Reported =>
           \A j \in DOMAIN containers : SameImage(i, j) => ~Inspected(j) /\ j \notin Reported

\* When all images of a reference are for one platform, every container is
\* reported with the platform of the image it runs, in list order and once.
PlatformRecovered ==
  \A j \in DOMAIN result :
    /\ \A k \in DOMAIN result : j < k => result[j].at < result[k].at
    /\ (\A i \in DOMAIN containers :
          SameImage(i, result[j].at) =>
            PlatformOf[containers[i].image] = PlatformOf[containers[result[j].at].image])
       /\ raw(result[j].at).digest = ""
       => result[j].platform = PlatformOf[containers[result[j].at].image]

\* matchRepoDigest: a container whose image was inspected, and is known under
\* the repository the container was started from, has a digest, in whichever
\* spelling the two name it; and it is the digest of that repository if the
\* image is known under no other name with the same last component.  (With one,
\* the suffix comparison may take the other's digest.)
DigestFound ==
  \A j \in DOMAIN result :
    LET i     == result[j].at
        known == ToSet(RepoDigests[containers[i].image])
        own   == {e \in known : e.digest # "" /\ SpelledOut(e.name) = SpelledOut(raw(i).name)}
    IN  Inspected(i) /\ own # {} /\ raw(i).digest = "" =>
          /\ result[j].digest # ""
          /\ (\A e \in known : Last(e.name) = Last(raw(i).name) => e \in own)
             => result[j].digest \in {e.digest : e \in own}
=============================================================================
