------------------------------ MODULE MCDaemon ------------------------------
(* Instances of Daemon for TLC: one image. *)
EXTENDS Daemon

NoLabels == [c \in {} |-> ""]

Runs(d) == [key |-> 1, pinned |-> FALSE, skip |-> FALSE, digest |-> d, labels |-> NoLabels]

MCManifests == {[platform |-> "d1", index |-> "i1"], [platform |-> "d2", index |-> "i2"]}

\* One container whose image is older than anything the registry serves.
OldContainer == {[c1 |-> Runs("i0")]}

\* Two containers started from different older images of the same tag.
TwoOldContainers == {[c1 |-> Runs("i0"), c2 |-> Runs("i00")]}

NoWinners == {<<>>}
=============================================================================
