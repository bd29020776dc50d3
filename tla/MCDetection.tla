---------------------------- MODULE MCDetection -----------------------------
(* Instances of Detection for TLC. *)
EXTENDS Detection, TLC

None == [n |-> <<0, 0, 0>>, precision |-> 0]

V3(a, b, c) == [kind |-> "version", name |-> "", ver |-> [n |-> <<a, b, c>>, precision |-> 3]]
V2(a, b) == [kind |-> "version", name |-> "", ver |-> [n |-> <<a, b, 0>>, precision |-> 2]]
V1(a) == [kind |-> "version", name |-> "", ver |-> [n |-> <<a, 0, 0>>, precision |-> 1]]
B(f, a, b) == [kind |-> "base", name |-> f, ver |-> [n |-> <<a, b, 0>>, precision |-> 2]]
Bare(f) == [kind |-> "base", name |-> f, ver |-> None]
Other == [kind |-> "other", name |-> "", ver |-> None]
Empty == [kind |-> "empty", name |-> "", ver |-> None]

\* Plain and composite running tags of every precision, an opaque one, and one
\* that is neither.
MCCurrents ==
  {<<V3(1, 2, 3)>>, <<V2(1, 2)>>, <<V1(1)>>, <<Other>>,
   <<V3(1, 2, 3), B("alpine", 3, 22)>>, <<V1(1), Bare("alpine")>>, <<Bare("alpine"), Empty>>}

\* 1.2.4, 1.10.0, 2, 1.2.3 itself; composite tags with the same base and with two
\* newer ones, the newest on an older release, and with bases of another family,
\* one with equal numbers; a pre-release; a tag with two version tokens.
Pool ==
  {<<V3(1, 2, 4)>>, <<V3(1, 10, 0)>>, <<V1(2)>>, <<V3(1, 2, 3)>>,
   <<V3(1, 2, 4), B("alpine", 3, 22)>>, <<V3(1, 2, 4), B("alpine", 3, 23)>>,
   <<V3(1, 0, 0), B("alpine", 3, 24)>>, <<V3(1, 2, 5), B("debian", 12, 0)>>,
   <<V3(1, 2, 4), B("debian", 3, 23)>>, <<V3(1, 3, 0), Other>>, <<V3(1, 2, 6), V1(7)>>}

\* Every order of up to three of them.
MCTagLists ==
  UNION {{s \in [1..k -> Pool] : \A i, j \in 1..k : i # j => s[i] # s[j]} : k \in 0..3}
=============================================================================
