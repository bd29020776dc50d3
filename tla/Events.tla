------------------------------- MODULE Events -------------------------------
(***************************************************************************)
(* The vocabulary shared by every component: the update events the         *)
(* observer emits (internal/event) and the policies that filter them       *)
(* (internal/policy).  Image references, tags and platforms are abstracted *)
(* to one group key, because they are only ever compared for equality.     *)
(***************************************************************************)
EXTENDS Naturals, Sequences, FiniteSets

\* The empty Go string: no digest, or no candidate tag.
NoDigest == ""

\* Policy.Allows: the policy field that decides each event type.  Types the
\* switch does not name (REGISTRY_OUTAGE) fall to its default case.
CategoryOf ==
  [PATCH_AVAILABLE              |-> "patch",
   APPLICATION_PATCH_AVAILABLE  |-> "patch",
   MINOR_AVAILABLE              |-> "minor",
   APPLICATION_MINOR_AVAILABLE  |-> "minor",
   MAJOR_AVAILABLE              |-> "major",
   APPLICATION_MAJOR_AVAILABLE  |-> "major",
   FAMILY_ADVANCEMENT_AVAILABLE |-> "family-advancement",
   BASE_ADVANCEMENT_AVAILABLE   |-> "base-advancement",
   TAG_CHANGED                  |-> "tag-changed",
   TAG_MUTATED                  |-> "tag-mutation",
   OTHER_PLATFORM_UPDATE        |-> "other-platform"]

EventTypes == DOMAIN CategoryOf

\* The fields of policy.Policy, under the names their container labels use.
Categories == {"patch", "minor", "major", "family-advancement",
               "base-advancement", "tag-changed", "tag-mutation",
               "other-platform"}

Policies == [Categories -> BOOLEAN]

Default == [c \in Categories |-> c \notin {"family-advancement", "other-platform"}]

Allows(p, t) == t \in EventTypes /\ p[CategoryOf[t]]

\* A label set maps the policy labels a container carries to their values.
\* parseBool takes exactly "true" and "false"; any other value is skipped.
ApplyLabels(base, labels) ==
  [c \in Categories |->
     IF c \in DOMAIN labels /\ labels[c] \in {"true", "false"}
       THEN labels[c] = "true"
       ELSE base[c]]

-----------------------------------------------------------------------------

\* One detected event.  CurrentDigest, CombinedCandidate and the timestamp
\* only decorate the message and are left out.
Event(k, t, tag, digest) ==
  [key |-> k, type |-> t, tag |-> tag, digest |-> digest]

\* The deduplication identity hashes registry, repository, current tag and
\* platform (together the key), the type and the candidate digest.  The
\* candidate tag is not part of it.
Fingerprint(e) == <<e.key, e.type, e.digest>>
=============================================================================
