----------------------------- MODULE MCPipeline -----------------------------
(* Instances of Pipeline for TLC. *)
EXTENDS Pipeline, TLC

CONSTANTS f1, f2, daemon, check

Want(f)   == [fp |-> f, allowed |-> 1]
Unwant(f) == [fp |-> f, allowed |-> 0]

\* Results that name each event once, in either order, and one that no
\* container wants.
DistinctLists == {<<>>, <<Want(f1)>>, <<Want(f1), Want(f2)>>, <<Want(f2), Unwant(f1)>>}

\* Two drifted digests of one image: two events with one fingerprint.
TwinLists == DistinctLists \union {<<Want(f1), Want(f1)>>}
=============================================================================
