------------------------------- MODULE Ledger -------------------------------
(***************************************************************************)
(* What the notification pipeline promises, without its mechanism.  A      *)
(* ledger of which recipient has which notification, and a set of          *)
(* notifications that will not be sent again.  A notification is only      *)
(* retired once some recipient has it, so nothing is retired unseen.       *)
(***************************************************************************)
CONSTANTS Notifiers, Fingerprints

VARIABLES
  received,  \* pairs <<notifier, fingerprint>>: who has seen what
  retired    \* fingerprints that will be suppressed from now on

vars == <<received, retired>>

Init == received = {} /\ retired = {}

\* A recipient gets some notifications, perhaps ones it already has.
Receive(n, F) ==
  /\ received' = received \union ({n} \X F)
  /\ UNCHANGED retired

Retire(f) ==
  /\ \E n \in Notifiers : <<n, f>> \in received
  /\ retired' = retired \union {f}
  /\ UNCHANGED received

\* The retention period of some retired notifications ends.
Forget(F) ==
  /\ F \subseteq retired
  /\ retired' = retired \ F
  /\ UNCHANGED received

Next ==
  \/ \E n \in Notifiers, F \in SUBSET Fingerprints : Receive(n, F)
  \/ \E f \in Fingerprints : Retire(f)
  \/ \E F \in SUBSET Fingerprints : Forget(F)

Spec == Init /\ [][Next]_vars
=============================================================================
