------------------------------ MODULE Delivery ------------------------------
(***************************************************************************)
(* The second half of Daemon.runCycle with the notification targets taken  *)
(* apart: the events' notification goes through DeliverAndMark, then the   *)
(* registry outage alerts go through Deliver.  A Notify call is a series   *)
(* of HTTP posts, each of which succeeds, fails, loses its answer or is    *)
(* rate limited.  SIGTERM cancels the context every later post and store   *)
(* call runs under; the cycle itself runs to its end.                      *)
(***************************************************************************)
EXTENDS OutageTracker, SequencesExt

CONSTANTS
  NumNotifiers,  \* how many notifiers were built
  TargetLists,   \* the types they can have, in order
  Mode,          \* notifications.mode
  Fingerprints,  \* the events' deduplication identities
  ItemLists,     \* the event lists one check can hand over
  Faults         \* Pipeline's fault kinds

Notifiers == 1..NumNotifiers

VARIABLES
  targets,      \* the notifiers' types
  phase, todo, note, cursor, delivered, notified, received, repeated,
  stage,        \* runCycle: waiting for the ticker, events, then alerts
  alertNote,    \* the hosts of the outage notification
  alertCursor,  \* the notifier that gets it next
  call,         \* the Notify call in progress
  cancelled,    \* SIGTERM has cancelled the context
  told,    \* history: alerts target n got since host h last answered
  missed,  \* history: <<n, x>> when n's call for event or host x failed, and n
           \* did not get x
  excused  \* history: <<n, f>> when event f may reach n again, see Excuse

pipeVars == <<phase, todo, note, cursor, delivered, notified, received, repeated>>
trackVars == <<consecutiveFailures, alreadyNotified, streak, alerts>>
alertVars == <<alertNote, alertCursor, told>>
allVars == <<pipeVars, trackVars, stage, alertVars, call, cancelled, missed, excused, targets>>

\* The daemon is the only process.
D == "daemon"

\* Under a cancelled context the store and the targets fail as well, and a
\* target that posts item by item can be left with a part of the batch.
P == INSTANCE Pipeline WITH
       Procs <- {D}, Faults <- Faults \union {"read", "write", "notify", "lostack"}

\* Events and registries are different things to be told of.
ASSUME DeliveryAssumption ==
  /\ NumNotifiers \in Nat
  /\ Mode \in {"batch", "individual"}
  /\ ItemLists \subseteq Seq(P!Item)
  /\ Faults \subseteq P!FaultKinds
  /\ IsFiniteSet(Hosts)
  /\ Fingerprints \intersect Hosts = {}

-----------------------------------------------------------------------------
\* One Notify call.

NoCall == [target |-> 0, left |-> <<>>, attempt |-> 1, failed |-> FALSE, got |-> {}]

\* discord and webhook send a message per item and go on after a failed one;
\* stdout writes item by item and stops at an error; gotify, ntfy and the
\* services put the whole batch into one message.
PerItem == {"discord", "webhook", "stdout"}

\* discord posts a rate-limited message again, up to this many times.
MaxAttempts == 3

\* The messages of one Notify call, as the sets of positions they carry.
Messages(type, batch) ==
  IF type \in PerItem THEN [i \in DOMAIN batch |-> {i}] ELSE <<DOMAIN batch>>

\* The notification being delivered, and the notifier whose turn it is.
Current == IF stage = "alerts" THEN alertNote ELSE P!Batch(D)

Turn == IF stage = "alerts" THEN alertCursor ELSE cursor[D]

Delivering == stage = "alerts" \/ phase[D] = "delivering"

\* Deliver calls the next notifier.
StartNotify ==
  /\ Delivering /\ call = NoCall /\ Turn \in Notifiers
  /\ call' = [NoCall EXCEPT !.target = Turn, !.left = Messages(targets[Turn], Current)]
  /\ UNCHANGED <<pipeVars, trackVars, stage, alertVars, cancelled, missed, excused>>

\* Everything but stdout sends under the context.
Reachable == ~cancelled \/ targets[call.target] = "stdout"

\* The message is done with; its positions in got reached the target.
Posted(got, failed) ==
  /\ call' = [call EXCEPT !.left = IF failed /\ targets[call.target] = "stdout" THEN <<>> ELSE Tail(@),
                          !.attempt = 1,
                          !.got = @ \union got, !.failed = @ \/ failed]
  /\ UNCHANGED <<pipeVars, trackVars, stage, alertVars, cancelled, missed, excused>>

PostOK == call.left # <<>> /\ Reachable /\ Posted(Head(call.left), FALSE)

\* A bug to rule out: the error of one message is not joined to the others.
PostFailForgotten ==
  /\ call.left # <<>> /\ ~cancelled /\ "notify" \in Faults
  /\ Posted({}, Len(call.left) = 1)

\* An error or another status.  The target may have got the message all the
\* same, except when the context was cancelled before the request went out.
PostFail ==
  /\ call.left # <<>>
  /\ \/ ~Reachable /\ Posted({}, TRUE)
     \/ /\ Reachable /\ "notify" \in Faults
        /\ \/ Posted({}, TRUE)
           \/ "lostack" \in Faults /\ Posted(Head(call.left), TRUE)

\* A bug to rule out: the attempts are not counted.
PostLimitedForever ==
  /\ call.left # <<>> /\ ~cancelled /\ "notify" \in Faults
  /\ targets[call.target] = "discord"
  /\ call' = [call EXCEPT !.attempt = 3 - @]
  /\ UNCHANGED <<pipeVars, trackVars, stage, alertVars, cancelled, missed, excused>>

\* Status 429: discord waits and tries again, the last attempt is an error.
PostLimited ==
  /\ call.left # <<>> /\ ~cancelled /\ "notify" \in Faults
  /\ targets[call.target] = "discord"
  /\ \/ /\ call.attempt < MaxAttempts
        /\ call' = [call EXCEPT !.attempt = @ + 1]
        /\ UNCHANGED <<pipeVars, trackVars, stage, alertVars, cancelled, missed, excused>>
     \/ call.attempt = MaxAttempts /\ Posted({}, TRUE)

\* Every message was posted: Notify returns the joined errors, or nil.
Finished == call # NoCall /\ call.left = <<>>

NotGot == {call.target} \X {Current[i] : i \in DOMAIN Current \ call.got}

\* The call's effect on the receipts.
Receipts == P!Receive(call.target, [i \in call.got |-> Current[i]])

\* A bug to rule out: Deliver stops at the first notifier that succeeds.
EventsReturnFirst ==
  /\ Finished /\ stage = "events"
  /\ Receipts
  /\ delivered' = [delivered EXCEPT ![D] = @ \/ ~call.failed]
  /\ cursor' = [cursor EXCEPT ![D] = IF call.failed THEN @ + 1 ELSE NumNotifiers + 1]
  /\ missed' = (missed \union NotGot) \ received'
  /\ call' = NoCall
  /\ UNCHANGED <<phase, todo, note, notified, trackVars, stage, alertVars, cancelled, excused>>

EventsReturn ==
  /\ Finished /\ stage = "events"
  /\ Receipts
  /\ delivered' = [delivered EXCEPT ![D] = @ \/ ~call.failed]
  /\ cursor' = [cursor EXCEPT ![D] = @ + 1]
  /\ missed' = (missed \union NotGot) \ received'
  /\ call' = NoCall
  /\ UNCHANGED <<phase, todo, note, notified, trackVars, stage, alertVars, cancelled, excused>>

\* A bug to rule out: a notifier that fails is called again.
AlertsReturnRetry ==
  /\ Finished /\ stage = "alerts"
  /\ told' = [told EXCEPT ![call.target] =
                [h \in Hosts |-> @[h] + Cardinality({i \in call.got : alertNote[i] = h})]]
  /\ alertCursor' = IF call.failed THEN alertCursor ELSE alertCursor + 1
  /\ missed' = missed \union NotGot
  /\ call' = NoCall
  /\ UNCHANGED <<pipeVars, trackVars, stage, alertNote, cancelled, excused>>

AlertsReturn ==
  /\ Finished /\ stage = "alerts"
  /\ told' = [told EXCEPT ![call.target] =
                [h \in Hosts |-> @[h] + Cardinality({i \in call.got : alertNote[i] = h})]]
  /\ alertCursor' = alertCursor + 1
  /\ missed' = missed \union NotGot
  /\ call' = NoCall
  /\ UNCHANGED <<pipeVars, trackVars, stage, alertNote, cancelled, excused>>

-----------------------------------------------------------------------------
\* runCycle.

\* The events F may reach the targets N again: their delivery failed, could not
\* be recorded or was cut short, or they were looked up in vain.
Excuse(N, F) == excused' = excused \union (N \X F)

NothingTold == [n \in Notifiers |-> [h \in Hosts |-> 0]]

DInit ==
  /\ Init /\ P!Init
  /\ stage = "wait"
  /\ alertNote = <<>> /\ alertCursor = 1
  /\ targets \in TargetLists
  /\ call = NoCall
  /\ cancelled = FALSE
  /\ told = NothingTold
  /\ missed = {} /\ excused = {}

\* The daemon starts.  The 90 days of retention do not run out here.
Start ==
  /\ P!Open(D)
  /\ UNCHANGED <<targets, trackVars, stage, alertVars, call, cancelled, missed, excused>>

\* A check under a cancelled context fails, and the cycle with it.
BeginCycle ==
  /\ stage = "wait" /\ ~cancelled
  /\ \E items \in ItemLists : P!Begin(D, items)
  /\ stage' = "events"
  /\ UNCHANGED <<targets, trackVars, alertVars, call, cancelled, missed, excused>>

\* A bug to rule out: the deduplication lookup is not made.
BuildUnchecked ==
  /\ P!SkipUnwanted(D) \/ P!IncludeItem(D) \/ P!FinishBuild(D)
  /\ UNCHANGED <<trackVars, stage, alertVars, call, cancelled, missed, excused>>

\* BuildNotification.  A lookup fails if the store does, and always under a
\* cancelled context; the item is then included whether it has a row or not.
\* Once the context is cancelled no target but stdout can be reached.
Build ==
  /\ \/ P!SkipUnwanted(D) /\ UNCHANGED excused
     \/ ~cancelled /\ P!SuppressNotified(D) /\ UNCHANGED excused
     \/ /\ P!IncludeItem(D)
        /\ \/ ~cancelled /\ notified[Head(todo[D]).fp] = "none" /\ UNCHANGED excused
           \/ /\ cancelled \/ "read" \in Faults
              /\ Excuse({n \in Notifiers : cancelled => targets[n] = "stdout"}, {Head(todo[D]).fp})
     \/ P!FinishBuild(D) /\ UNCHANGED excused
  /\ UNCHANGED <<trackVars, stage, alertVars, call, cancelled, missed>>

EndDeliver ==
  /\ P!EndDeliver(D)
  /\ Excuse(Notifiers, IF delivered[D] THEN {} ELSE P!Items(P!Batch(D)))
  /\ UNCHANGED <<trackVars, stage, alertVars, call, cancelled, missed>>

\* MarkDelivered; a mark under a cancelled context fails.
Mark ==
  /\ \/ ~cancelled /\ P!MarkItem(D) /\ UNCHANGED excused
     \/ /\ cancelled \/ "write" \in Faults
        /\ P!MarkFail(D)
        /\ Excuse(Notifiers, {P!Batch(D)[cursor[D]]})
     \/ P!EndMark(D) /\ UNCHANGED excused
  /\ UNCHANGED <<trackVars, stage, alertVars, call, cancelled, missed>>

\* The events are done with; the results are searched for outages.  The
\* alerts' order is that of a map.
Detect ==
  /\ stage = "events" /\ phase[D] = "idle"
  /\ \E byHost \in [Hosts -> Group] :
       /\ \A h \in Hosts : byHost[h] = {"failed"} => streak[h] < MaxStreak
       /\ DetectOutages(byHost)
       /\ alertNote' \in SetToSeqs(Raised(byHost))
       /\ stage' = IF Raised(byHost) = {} THEN "wait" ELSE "alerts"
       /\ told' = [n \in Notifiers |->
                     [h \in Hosts |-> IF "ok" \in byHost[h] THEN 0 ELSE told[n][h]]]
       /\ missed' = missed \ (Notifiers \X {h \in Hosts : "ok" \in byHost[h]})
  /\ alertCursor' = 1
  /\ UNCHANGED <<pipeVars, call, cancelled, excused>>

\* Every notifier was called; an error is only logged.
EndAlerts ==
  /\ stage = "alerts" /\ call = NoCall /\ alertCursor \notin Notifiers
  /\ stage' = "wait"
  /\ alertNote' = <<>>
  /\ alertCursor' = 1
  /\ UNCHANGED <<pipeVars, trackVars, told, call, cancelled, missed, excused>>

\* SIGTERM.
Cancel ==
  /\ "restart" \in Faults
  /\ phase[D] # "down" /\ ~cancelled
  /\ cancelled' = TRUE
  /\ UNCHANGED <<targets, pipeVars, trackVars, stage, alertVars, call, missed, excused>>

\* The process is gone, and with it the tracker and the Notify call.
Gone ==
  /\ IF stage = "events" /\ call # NoCall THEN Receipts ELSE UNCHANGED <<received, repeated>>
  /\ P!Die(D)
  /\ Restart
  /\ stage' = "wait"
  /\ alertNote' = <<>> /\ alertCursor' = 1
  /\ call' = NoCall
  /\ cancelled' = FALSE
  /\ told' = NothingTold
  /\ missed' = missed \ (Notifiers \X Hosts)
  /\ UNCHANGED targets

\* Daemon.Run sees the cancelled context between cycles.
Exit ==
  /\ cancelled /\ stage = "wait" /\ phase[D] = "idle"
  /\ Gone
  /\ UNCHANGED excused

Crash ==
  /\ "crash" \in Faults /\ phase[D] # "down"
  /\ Gone
  /\ Excuse(Notifiers, P!Items(P!Batch(D)))

Cycle ==
  /\ \/ Build
     \/ StartNotify
     \/ PostOK
     \/ PostFail
     \/ PostLimited
     \/ EventsReturn
     \/ AlertsReturn
     \/ EndDeliver
     \/ Mark
     \/ Detect
     \/ EndAlerts
  /\ UNCHANGED targets

DNext ==
  \/ Start
  \/ BeginCycle
  \/ Cycle
  \/ Cancel
  \/ Exit
  \/ Crash

DSpec == DInit /\ [][DNext]_allVars

\* The daemon keeps executing: requests have a ten second timeout, and the
\* ticker of a running daemon ticks.
DFairSpec == DSpec /\ WF_allVars(Cycle) /\ WF_allVars(Exit)

-----------------------------------------------------------------------------

Calls ==
  [target : Notifiers \union {0}, left : Seq(SUBSET Nat), attempt : 1..MaxAttempts,
   failed : BOOLEAN, got : SUBSET Nat]

DTypeOK ==
  /\ TypeOK /\ P!TypeOK
  /\ stage \in {"wait", "events", "alerts"}
  /\ alertNote \in Seq(Hosts)
  /\ alertCursor \in Nat
  /\ call \in Calls
  /\ cancelled \in BOOLEAN
  /\ told \in [Notifiers -> [Hosts -> Nat]]
  /\ missed \subseteq Notifiers \X (Fingerprints \union Hosts)
  /\ excused \subseteq Notifiers \X Fingerprints

\* A Notify call that returns nil has handed over the whole batch, and one
\* that fails has handed over a part of it at most, whichever way the target
\* splits, retries or loses its messages: the targets and runCycle implement
\* the notification pipeline.
ImplementsPipeline == P!Spec

\* "once per event" (README) as far as it goes: a target gets an event again
\* only if an earlier delivery of it failed everywhere, could not be recorded
\* or was cut short by a crash, or if the lookup of its row failed, after which
\* it is included anyway.  In particular a stop repeats nothing that was
\* recorded, wherever SIGTERM falls, except on stdout: the lookups it makes
\* fail are of no use to a target that is reached under the context.
OnceUnlessInterrupted == repeated \subseteq excused

\* One target's failure does not keep the news from the others: whatever is
\* recorded as notified, or alerted, every target has got or has failed.
EveryTargetTried ==
  \A n \in Notifiers :
    /\ \A f \in Fingerprints : notified[f] # "none" => <<n, f>> \in received \union missed
    /\ \A h \in Hosts :
         stage # "alerts" /\ alerts[h] > 0 => told[n][h] > 0 \/ <<n, h>> \in missed

\* A target hears of an outage once at most, and never of one that is shorter
\* than the threshold, although its failures are never reported back to the
\* tracker.
AlertedOnce == \A n \in Notifiers, h \in Hosts : told[n][h] <= alerts[h]

\* A cycle ends, also when discord answers every post with 429 and when the
\* daemon was told to stop.
CycleEnds == stage # "wait" ~> stage = "wait"
=============================================================================
