------------------------------ MODULE MCGauges ------------------------------
(* Instances of Gauges, and of Observer with it, for TLC. *)
EXTENDS Gauges, TLC

NoLabels == [c \in {} |-> ""]

Unwanted == "tag-mutation" :> "false"

Runs(k, d, labels) ==
  [key |-> k, pinned |-> FALSE, skip |-> FALSE, digest |-> d, labels |-> labels]

\* An index, and a single manifest pushed over it.
MCManifests == {[platform |-> "d1", index |-> "i1"], [platform |-> "d2", index |-> NoDigest]}

\* Key 1 with an unknown digest while key 2 is excluded; both watched, where
\* key 2 has an up to date member that does not want the event beside a
\* drifting one that does.
MCSnapshots ==
  {[c1 |-> Runs(1, NoDigest, NoLabels), c2 |-> [Runs(2, "i1", NoLabels) EXCEPT !.skip = TRUE]],
   [c1 |-> Runs(1, "i1", NoLabels), c2 |-> Runs(2, "i1", Unwanted), c3 |-> Runs(2, "i0", NoLabels),
    c4 |-> [Runs(2, "", NoLabels) EXCEPT !.pinned = TRUE]]}

MCWinners == {<<[type |-> "PATCH_AVAILABLE", tag |-> "t1"]>>}
=============================================================================
