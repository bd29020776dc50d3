------------------------------ MODULE Pipeline ------------------------------
(***************************************************************************)
(* The notification pipeline of cmd/image-watch/pipeline.go:               *)
(* BuildNotification, Deliver, MarkDelivered and DeliverAndMark, as run by *)
(* every process that shares one state database: the daemon, and each      *)
(* `image-watch check` started beside it.  Every store call and every      *)
(* Notify call is a step of its own, so processes interleave between them  *)
(* and a process can die between any two.                                  *)
(***************************************************************************)
EXTENDS Naturals, Sequences, FiniteSets

CONSTANTS
  Procs,         \* the processes sharing the state database
  NumNotifiers,  \* configured delivery targets; zero when every Build failed
  Mode,          \* notifications.mode
  Fingerprints,  \* the deduplication identities of the events considered
  ItemLists,     \* the event lists one check can hand to BuildNotification
  Faults         \* which of the failures below may happen

\* read / write   a store read / write returns an error
\* notify         a notifier returns an error and its target got nothing
\* lostack        ... or the target got some of the items all the same
\* expiry         the 90 days of notification retention can run out
\* restart        a process may be stopped between cycles
\* crash          a process may die at any point
FaultKinds == {"read", "write", "notify", "lostack", "expiry", "restart", "crash"}

Notifiers == 1..NumNotifiers

\* One detected event on its way into a notification: its fingerprint and
\* how many containers allowContainers names, those whose own policy allows
\* the type.
Item == [fp : Fingerprints, allowed : Nat]

ASSUME PipelineAssumption ==
  /\ NumNotifiers \in Nat
  /\ Mode \in {"batch", "individual"}
  /\ ItemLists \subseteq Seq(Item)
  /\ Faults \subseteq FaultKinds

VARIABLES
  phase,      \* what each process is doing
  todo,       \* the events BuildNotification has not examined yet
  note,       \* fingerprints of the items not yet delivered and marked
  cursor,     \* the notifier Deliver calls next, or the item to mark next
  delivered,  \* whether a notifier took the current batch
  notified,   \* the notifications table: no row, a row, a row past retention
  received,   \* history: <<n, f>> once target n got f
  repeated    \* history: <<n, f>> once target n got f again

vars == <<phase, todo, note, cursor, delivered, notified, received, repeated>>

-----------------------------------------------------------------------------

\* The items of the message being delivered: all of them in batch mode, one
\* at a time in individual mode.
Batch(p) ==
  IF Mode = "batch" \/ note[p] = <<>> THEN note[p] ELSE <<Head(note[p])>>

Rest(p) == IF Mode = "batch" \/ note[p] = <<>> THEN <<>> ELSE Tail(note[p])

Items(s) == {s[i] : i \in DOMAIN s}

HasTwice(s, f) == \E i, j \in DOMAIN s : i # j /\ s[i] = f /\ s[j] = f

\* A database opened for the first time, by no process yet.
Init ==
  /\ phase = [p \in Procs |-> "down"]
  /\ todo = [p \in Procs |-> <<>>]
  /\ note = [p \in Procs |-> <<>>]
  /\ cursor = [p \in Procs |-> 1]
  /\ delivered = [p \in Procs |-> FALSE]
  /\ notified = [f \in Fingerprints |-> "none"]
  /\ received = {}
  /\ repeated = {}

\* NewSQLiteStore: opening the database prunes the rows past retention.
Open(p) ==
  /\ phase[p] = "down"
  /\ phase' = [phase EXCEPT ![p] = "idle"]
  /\ notified' = [f \in Fingerprints |->
                    IF notified[f] = "expired" THEN "none" ELSE notified[f]]
  /\ UNCHANGED <<todo, note, cursor, delivered, received, repeated>>

\* A check has produced its results; BuildNotification starts on them.
Begin(p, items) ==
  /\ phase[p] = "idle"
  /\ phase' = [phase EXCEPT ![p] = "building"]
  /\ todo' = [todo EXCEPT ![p] = items]
  /\ UNCHANGED <<note, cursor, delivered, notified, received, repeated>>

\* No container of the image wants the type.
SkipUnwanted(p) ==
  /\ phase[p] = "building" /\ todo[p] # <<>>
  /\ Head(todo[p]).allowed = 0
  /\ todo' = [todo EXCEPT ![p] = Tail(@)]
  /\ UNCHANGED <<phase, note, cursor, delivered, notified, received, repeated>>

\* HasNotified finds a row.
SuppressNotified(p) ==
  /\ phase[p] = "building" /\ todo[p] # <<>>
  /\ Head(todo[p]).allowed > 0
  /\ notified[Head(todo[p]).fp] # "none"
  /\ todo' = [todo EXCEPT ![p] = Tail(@)]
  /\ UNCHANGED <<phase, note, cursor, delivered, notified, received, repeated>>

\* HasNotified finds no row, or fails: the item is included either way.
IncludeItem(p) ==
  /\ phase[p] = "building" /\ todo[p] # <<>>
  /\ Head(todo[p]).allowed > 0
  /\ notified[Head(todo[p]).fp] = "none" \/ "read" \in Faults
  /\ note' = [note EXCEPT ![p] = Append(@, Head(todo[p]).fp)]
  /\ todo' = [todo EXCEPT ![p] = Tail(@)]
  /\ UNCHANGED <<phase, cursor, delivered, notified, received, repeated>>

\* A bug to rule out: the loop over the notifiers starts before the first.
FinishBuildAtZero(p) ==
  /\ phase[p] = "building" /\ todo[p] = <<>>
  /\ phase' = [phase EXCEPT ![p] = IF note[p] = <<>> THEN "idle" ELSE "delivering"]
  /\ cursor' = [cursor EXCEPT ![p] = 0]
  /\ delivered' = [delivered EXCEPT ![p] = FALSE]
  /\ UNCHANGED <<todo, note, notified, received, repeated>>

\* The notification is built; an empty one ends the cycle.
FinishBuild(p) ==
  /\ phase[p] = "building" /\ todo[p] = <<>>
  /\ phase' = [phase EXCEPT ![p] = IF note[p] = <<>> THEN "idle" ELSE "delivering"]
  /\ cursor' = [cursor EXCEPT ![p] = 1]
  /\ delivered' = [delivered EXCEPT ![p] = FALSE]
  /\ UNCHANGED <<todo, note, notified, received, repeated>>

\* Target n gets the items of s, a batch or a part of one.
Receive(n, s) ==
  /\ received' = received \union ({n} \X Items(s))
  /\ repeated' = repeated \union
       {<<n, f>> : f \in {g \in Items(s) : <<n, g>> \in received \/ HasTwice(s, g)}}

NotifyOK(p) ==
  /\ phase[p] = "delivering" /\ cursor[p] \in Notifiers
  /\ Receive(cursor[p], Batch(p))
  /\ delivered' = [delivered EXCEPT ![p] = TRUE]
  /\ cursor' = [cursor EXCEPT ![p] = @ + 1]
  /\ UNCHANGED <<phase, todo, note, notified>>

\* The current target gets some items of the batch, but Notify does not
\* return nil: a target that posts one message per item goes on after a
\* failed one, and an answer can be lost, so the items got are any subset.
HandPart(p) ==
  /\ phase[p] = "delivering" /\ cursor[p] \in Notifiers
  /\ \E I \in SUBSET DOMAIN Batch(p) :
       /\ I = {} \/ "lostack" \in Faults
       /\ Receive(cursor[p], [i \in I |-> Batch(p)[i]])

\* Deliver goes on to the next notifier.
NotifyFail(p) ==
  /\ "notify" \in Faults
  /\ HandPart(p)
  /\ cursor' = [cursor EXCEPT ![p] = @ + 1]
  /\ UNCHANGED <<phase, todo, note, delivered, notified>>

\* DeliverAndMark moves to the next item (individual mode) or returns.
NextBatch(p) ==
  /\ note' = [note EXCEPT ![p] = Rest(p)]
  /\ phase' = [phase EXCEPT ![p] = IF Rest(p) = <<>> THEN "idle" ELSE "delivering"]
  /\ cursor' = [cursor EXCEPT ![p] = 1]
  /\ delivered' = [delivered EXCEPT ![p] = FALSE]

\* A bug to rule out: MarkDelivered called whatever Deliver reported.
EndDeliverMarkAlways(p) ==
  /\ phase[p] = "delivering" /\ cursor[p] \notin Notifiers
  /\ phase' = [phase EXCEPT ![p] = "marking"]
  /\ cursor' = [cursor EXCEPT ![p] = 1]
  /\ UNCHANGED <<todo, note, delivered, notified, received, repeated>>

\* Every notifier was called: mark the batch if one of them took it.
EndDeliver(p) ==
  /\ phase[p] = "delivering" /\ cursor[p] \notin Notifiers
  /\ \/ /\ delivered[p]
        /\ phase' = [phase EXCEPT ![p] = "marking"]
        /\ cursor' = [cursor EXCEPT ![p] = 1]
        /\ UNCHANGED <<note, delivered>>
     \/ ~delivered[p] /\ NextBatch(p)
  /\ UNCHANGED <<todo, notified, received, repeated>>

\* A bug to rule out: in individual mode, mark the items of the whole
\* notification instead of the one that was delivered.
MarkWholeNote(p) ==
  /\ phase[p] = "marking" /\ cursor[p] \in DOMAIN Batch(p)
  /\ notified' = [f \in Fingerprints |->
                    IF f \in Items(note[p]) THEN "fresh" ELSE notified[f]]
  /\ cursor' = [cursor EXCEPT ![p] = @ + 1]
  /\ UNCHANGED <<phase, todo, note, delivered, received, repeated>>

\* MarkNotified inserts the row or renews its time.
MarkItem(p) ==
  /\ phase[p] = "marking" /\ cursor[p] \in DOMAIN Batch(p)
  /\ notified' = [notified EXCEPT ![Batch(p)[cursor[p]]] = "fresh"]
  /\ cursor' = [cursor EXCEPT ![p] = @ + 1]
  /\ UNCHANGED <<phase, todo, note, delivered, received, repeated>>

\* MarkNotified fails; MarkDelivered only logs a warning.
MarkFail(p) ==
  /\ "write" \in Faults
  /\ phase[p] = "marking" /\ cursor[p] \in DOMAIN Batch(p)
  /\ cursor' = [cursor EXCEPT ![p] = @ + 1]
  /\ UNCHANGED <<phase, todo, note, delivered, notified, received, repeated>>

EndMark(p) ==
  /\ phase[p] = "marking" /\ cursor[p] \notin DOMAIN Batch(p)
  /\ NextBatch(p)
  /\ UNCHANGED <<todo, notified, received, repeated>>

\* The process ends, perhaps in the middle of a Notify call, and everything it
\* held in memory is gone.
Die(p) ==
  /\ phase' = [phase EXCEPT ![p] = "down"]
  /\ todo' = [todo EXCEPT ![p] = <<>>]
  /\ note' = [note EXCEPT ![p] = <<>>]
  /\ cursor' = [cursor EXCEPT ![p] = 1]
  /\ delivered' = [delivered EXCEPT ![p] = FALSE]
  /\ HandPart(p) \/ UNCHANGED <<received, repeated>>
  /\ UNCHANGED notified

\* A check run returns, or the daemon is stopped while it waits.
Stop(p) == "restart" \in Faults /\ phase[p] = "idle" /\ Die(p)

Crash(p) == "crash" \in Faults /\ phase[p] # "down" /\ Die(p)

\* A row outlives the retention period; nothing happens until the next Open.
Expire(f) ==
  /\ "expiry" \in Faults
  /\ notified[f] = "fresh"
  /\ notified' = [notified EXCEPT ![f] = "expired"]
  /\ UNCHANGED <<phase, todo, note, cursor, delivered, received, repeated>>

\* The steps of one cycle once its results are known.
Cycle(p) ==
  \/ SkipUnwanted(p)
  \/ SuppressNotified(p)
  \/ IncludeItem(p)
  \/ FinishBuild(p)
  \/ NotifyOK(p)
  \/ NotifyFail(p)
  \/ EndDeliver(p)
  \/ MarkItem(p)
  \/ MarkFail(p)
  \/ EndMark(p)

Next ==
  \/ \E p \in Procs : Open(p)
  \/ \E p \in Procs, items \in ItemLists : Begin(p, items)
  \/ \E p \in Procs : Cycle(p)
  \/ \E p \in Procs : Stop(p) \/ Crash(p)
  \/ \E f \in Fingerprints : Expire(f)

Spec == Init /\ [][Next]_vars

-----------------------------------------------------------------------------

Phases == {"down", "idle", "building", "delivering", "marking"}

Receipts == Notifiers \X Fingerprints

TypeOK ==
  /\ phase \in [Procs -> Phases]
  /\ todo \in [Procs -> Seq(Item)]
  /\ note \in [Procs -> Seq(Fingerprints)]
  /\ cursor \in [Procs -> Nat \ {0}]
  /\ delivered \in [Procs -> BOOLEAN]
  /\ notified \in [Fingerprints -> {"none", "fresh", "expired"}]
  /\ received \subseteq Receipts
  /\ repeated \subseteq Receipts

\* MarkDelivered never hides an event nobody was told about: a fingerprint
\* with a row in the notifications table has reached some target, whatever
\* fails, dies, expires or runs beside it.
MarkedWasReceived ==
  \A f \in Fingerprints :
    notified[f] # "none" => \E n \in Notifiers : <<n, f>> \in received

\* No target is ever sent the same event twice.  This is what deduplication
\* is for; it can only be had from a single process, a store that answers,
\* and results that name each event once.
AtMostOnce == repeated = {}

\* The pipeline implements the delivery ledger.
Promise == INSTANCE Ledger WITH
             retired <- {f \in Fingerprints : notified[f] # "none"}

KeepsLedger == Promise!Spec
=============================================================================
