------------------------------- MODULE Daemon -------------------------------
(***************************************************************************)
(* The whole loop: Daemon.Run repeats runCycle, which runs a check         *)
(* (Observer) and hands its results to the notification pipeline           *)
(* (Pipeline); `image-watch check` runs the same two halves once.  The     *)
(* observations table and the notifications table live in one database     *)
(* that outlives the processes; everything else dies with its process.     *)
(***************************************************************************)
EXTENDS Observer, SequencesExt

CONSTANTS
  NumNotifiers,  \* configured delivery targets
  Mode           \* notifications.mode

VARIABLES phase, todo, note, cursor, delivered, notified, received, repeated

pipeVars == <<phase, todo, note, cursor, delivered, notified, received, repeated>>

allVars == <<served, obs, seen, checking, snapshot, worker, pipeVars>>

\* The event types a check of these keys can report.
ReportedTypes ==
  {digestEventType(k) : k \in Keys}
  \union (UNION {{ws[i].type : i \in DOMAIN ws} : ws \in Winners})
  \union (IF Winners \subseteq {<<>>} THEN {} ELSE {"OTHER_PLATFORM_UPDATE"})

Fingerprints ==
  Keys \X ReportedTypes \X ({m.platform : m \in Manifests} \union {NoDigest})

\* The pipeline, fed by the checks rather than by a list of inputs.
Pipe == INSTANCE Pipeline WITH ItemLists <- {}, Faults <- Faults \ {"registry"}

ASSUME DaemonAssumption ==
  /\ NumNotifiers \in Nat
  /\ Mode \in {"batch", "individual"}
  /\ Faults \ {"registry"} \subseteq Pipe!FaultKinds

-----------------------------------------------------------------------------

DInit == Init /\ Pipe!Init

\* BuildNotification walks the results in key order and skips those with an
\* error; allowContainers names the containers that want an event.
ResultItems(p) ==
  LET items(k) == [i \in DOMAIN worker[p][k].events |->
                     LET e == worker[p][k].events[i]
                     IN  [fp |-> Fingerprint(e), allowed |-> Cardinality(Allowed(snapshot[p], k, e.type))]]
  IN  FlattenSeq([k \in Keys |-> IF worker[p][k].pc = "ok" THEN items(k) ELSE <<>>])

\* runCycle starts at once, then at every tick.
RunCheck(p) == phase[p] = "idle" /\ StartCheck(p) /\ UNCHANGED pipeVars

Check(p) == (\E k \in Keys : checkGroup(p, k)) /\ UNCHANGED pipeVars

\* Check returns its results and BuildNotification begins.
HandOver(p) == EndCheck(p) /\ Pipe!Begin(p, ResultItems(p))

Notify(p) == Pipe!Cycle(p) /\ UNCHANGED vars

OpenStore(p) == Pipe!Open(p) /\ UNCHANGED vars

\* The process is killed, or returns between cycles.
Die(p) ==
  /\ phase[p] # "down"
  /\ "crash" \in Faults \/ ("restart" \in Faults /\ phase[p] = "idle" /\ ~checking[p])
  /\ Pipe!Die(p)
  /\ checking' = [checking EXCEPT ![p] = FALSE]
  /\ worker' = [worker EXCEPT ![p] = [k \in Keys |-> Idle]]
  /\ UNCHANGED <<served, obs, seen, snapshot>>

Expire(f) == Pipe!Expire(f) /\ UNCHANGED vars

Publish(k) == Push(k) /\ UNCHANGED pipeVars

DNext ==
  \/ \E p \in Procs : RunCheck(p) \/ Check(p) \/ HandOver(p) \/ Notify(p)
  \/ \E p \in Procs : OpenStore(p) \/ Die(p)
  \/ \E f \in Fingerprints : Expire(f)
  \/ \E k \in Keys : Publish(k)

DSpec == DInit /\ [][DNext]_allVars

\* Processes are started, the ticker ticks and calls return (weak fairness);
\* registries and notification targets are not down at every single attempt
\* (strong fairness).
DFairness ==
  \A p \in Procs :
    /\ WF_allVars(OpenStore(p))
    /\ WF_allVars(RunCheck(p))
    /\ WF_allVars(Check(p) \/ HandOver(p))
    /\ WF_allVars(Notify(p))
    /\ SF_allVars(Pipe!NotifyOK(p) /\ UNCHANGED vars)
    /\ \A k \in Keys : SF_allVars(ResolveOK(p, k) /\ UNCHANGED pipeVars)

DFairSpec == DSpec /\ DFairness

-----------------------------------------------------------------------------

\* Every container list shows a container that wants to hear about this key
\* and runs a known digest other than the one the registry serves.
Drifting(k) ==
  /\ ServedDigest(served[k]) # NoDigest
  /\ \A snap \in Snapshots :
       \E c \in Members(snap, k) :
         /\ snap[c].digest \notin {NoDigest, ServedDigest(served[k])}
         /\ Allows(ApplyLabels(DefaultPolicy, snap[c].labels), digestEventType(k))

Delivered(f) == \E n \in 1..NumNotifiers : <<n, f>> \in received

\* An update a running container is known to lack is reported in the end:
\* if the registry goes on serving it and some process stays up, a target
\* receives it, whatever failed, crashed or was cut short before.  Point-in-
\* time drift (detectDigestDriftEvents) is what makes this survive the loss
\* of a transition event.
DriftIsDelivered ==
  \A k \in Keys, m \in Manifests :
    <>[](served[k] = m /\ Drifting(k) /\ \E p \in Procs : phase[p] # "down")
    => <>Delivered(Fingerprint(DigestEvent(k, m)))

\* "once per event" (README): no target is sent the same event twice.
OncePerEvent == Pipe!AtMostOnce

\* Rows of the notifications table stand for events some target received,
\* also when observation, delivery, crashes and pruning all interleave.
NothingHidden == Pipe!MarkedWasReceived
=============================================================================
