----------------------------- MODULE MCDelivery -----------------------------
(* Instances of Delivery for TLC. *)
EXTENDS Delivery

CONSTANTS f1, f2

Want(f) == [fp |-> f, allowed |-> 1]

Lists == {<<Want(f1), Want(f2)>>, <<[fp |-> f2, allowed |-> 0]>>}

Pairs == {<<"discord", "gotify">>, <<"webhook", "stdout">>}
=============================================================================
