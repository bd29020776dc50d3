------------------------------ MODULE Observer ------------------------------
(***************************************************************************)
(* One detection cycle of internal/observer: Check lists the containers,   *)
(* groups them by image, and a bounded pool of workers runs checkGroup for *)
(* each group: read the previous observation, ask the registry, write the  *)
(* new observation, compare.  Several processes may run cycles over one    *)
(* store.  Store calls and the registry call are separate steps; what the  *)
(* rest of checkGroup computes from them is one step (Detect).             *)
(***************************************************************************)
EXTENDS Events, Indices

CONSTANTS
  Procs,        \* processes that share the store
  NumKeys,      \* image groups, numbered in the order of groupKey.less
  Opaque,       \* the keys whose tag ParseTag finds no version in
  Manifests,    \* the answers ResolveForPlatform can give for a tag
  Snapshots,    \* the container lists the runtime can report (below)
  Winners,      \* the candidate lists AnalyzeCandidates can return
  Workers,      \* concurrency.workers
  DefaultPolicy,
  Faults        \* which calls may fail: "read", "write", "registry"

Keys == 1..NumKeys

\* registry.ManifestObservation: the manifest for the running platform, and
\* the index the tag points to when it is multi-arch.  Either may be empty.
Digests == {NoDigest} \union {m.platform : m \in Manifests} \union {m.index : m \in Manifests}

ManifestType == [platform : Digests, index : Digests]

CandidateTags == {""} \union UNION {{ws[i].tag : i \in DOMAIN ws} : ws \in Winners}

\* A snapshot maps container names to runtime.ContainerObservations: the key;
\* pinned, when the reference has a digest or no tag; skip, when it carries
\* the skip label; the digest it runs, if known; and its policy labels.
SnapshotOK(snap) ==
  /\ IsFiniteSet(DOMAIN snap)
  /\ \A c \in DOMAIN snap :
       /\ snap[c].key \in Keys
       /\ snap[c].pinned \in BOOLEAN /\ snap[c].skip \in BOOLEAN
       /\ snap[c].digest \in STRING

ASSUME ObserverAssumption ==
  /\ NumKeys \in Nat
  /\ Opaque \subseteq Keys
  /\ Manifests \subseteq ManifestType
  /\ \A snap \in Snapshots : SnapshotOK(snap)
  /\ \A ws \in Winners : ws \in Seq([type : EventTypes, tag : CandidateTags])
  /\ DefaultPolicy \in Policies
  /\ Workers \in Nat \ {0}

VARIABLES
  served,    \* the registry: what each key's tag resolves to now
  obs,       \* the observations table
  seen,      \* history: the platform digests of the last two successful checks
  checking,  \* whether a process is inside Check
  snapshot,  \* the containers its cycle listed
  worker     \* the checkGroup call of each process and key

vars == <<served, obs, seen, checking, snapshot, worker>>

-----------------------------------------------------------------------------

\* state.Observation together with GetObservation's found flag; NoRow is
\* also what a failed read leaves behind.
NoRow == [found |-> FALSE, platform |-> NoDigest, index |-> NoDigest, status |-> ""]

Idle == [pc |-> "idle", prev |-> NoRow, got |-> [platform |-> NoDigest, index |-> NoDigest],
         partial |-> FALSE, events |-> <<>>]

\* groupContainers: the watched members of a key.
Members(snap, k) ==
  {c \in DOMAIN snap : snap[c].key = k /\ ~snap[c].pinned /\ ~snap[c].skip}

Groups(snap) == {k \in Keys : Members(snap, k) # {}}

\* allowContainers: the members whose own policy (ContainerPolicies) allows
\* the type.
Allowed(snap, k, t) ==
  {c \in Members(snap, k) : Allows(ApplyLabels(DefaultPolicy, snap[c].labels), t)}

\* Result.ServedDigest: the index digest, if the tag points to an index.
ServedDigest(m) == IF m.index = NoDigest THEN m.platform ELSE m.index

\* A bug to rule out: versionable tags are left without a type.
DigestTypeUnset(k) == IF k \in Opaque THEN "TAG_CHANGED" ELSE ""

digestEventType(k) == IF k \in Opaque THEN "TAG_CHANGED" ELSE "TAG_MUTATED"

\* A same-tag event.  The tag enrichment may infer for it only decorates
\* the message.
DigestEvent(k, m) == Event(k, digestEventType(k), "", m.platform)

\* A bug to rule out: the index digests are compared.
TransitionByIndex(k, prev, m) ==
  IF /\ prev.found /\ prev.index # NoDigest /\ m.index # NoDigest
     /\ prev.index # m.index
    THEN <<DigestEvent(k, m)>>
    ELSE <<>>

\* A digest transition between two successful checks.
detectDigestEvents(k, prev, m) ==
  IF /\ prev.found /\ prev.platform # NoDigest /\ m.platform # NoDigest
     /\ prev.platform # m.platform
    THEN <<DigestEvent(k, m)>>
    ELSE <<>>

\* A bug to rule out: only transitions are reported.
DriftIgnored(k, m, running) == <<>>

\* One event for each distinct digest some member runs that is not the one
\* the registry serves; unknown running digests do not count.
detectDigestDriftEvents(k, m, running) ==
  LET distinct == {d \in running : d # NoDigest /\ d # ServedDigest(m)}
  IN  IF ServedDigest(m) = NoDigest
        THEN <<>>
        ELSE [i \in 1..Cardinality(distinct) |-> DigestEvent(k, m)]

\* The winning candidates that could be verified for the running platform,
\* in order.  verdict is what resolving each distinct candidate tag gave.
detectVersionCandidateEvents(k, winners, verdict) ==
  LET verified == {i \in DOMAIN winners : verdict[winners[i].tag] # "error"}
      actualType(w) == IF verdict[w.tag] = "other" THEN "OTHER_PLATFORM_UPDATE" ELSE w.type
      candidate(w) == Event(k, actualType(w), w.tag, NoDigest)
  IN  Squeeze([i \in verified |-> candidate(winners[i])])

-----------------------------------------------------------------------------

Init ==
  /\ served \in [Keys -> Manifests]
  /\ obs = [k \in Keys |-> NoRow]
  /\ seen = [k \in Keys |-> [before |-> NoDigest, now |-> NoDigest]]
  /\ checking = [p \in Procs |-> FALSE]
  /\ snapshot \in [Procs -> Snapshots]
  /\ worker = [p \in Procs |-> [k \in Keys |-> Idle]]

\* Somebody pushes: the tag resolves to something else.
Push(k) ==
  /\ \E m \in Manifests \ {served[k]} : served' = [served EXCEPT ![k] = m]
  /\ UNCHANGED <<obs, seen, checking, snapshot, worker>>

\* Check: ListContainers and groupContainers.  (When ListContainers fails
\* the cycle ends with nothing changed.)
StartCheck(p) ==
  /\ ~checking[p]
  /\ checking' = [checking EXCEPT ![p] = TRUE]
  /\ \E snap \in Snapshots :
       /\ snapshot' = [snapshot EXCEPT ![p] = snap]
       /\ worker' = [worker EXCEPT ![p] =
            [k \in Keys |-> IF k \in Groups(snap) THEN [Idle EXCEPT !.pc = "queued"] ELSE Idle]]
  /\ UNCHANGED <<served, obs, seen>>

\* A bug to rule out: a group that failed keeps its place in the pool.
ActiveUnlessOK(p) == {k \in Keys : worker[p][k].pc \notin {"idle", "queued", "ok"}}

Active(p) == {k \in Keys : worker[p][k].pc \notin {"idle", "queued", "ok", "failed"}}

\* errgroup.Go blocks while the pool is full, so groups start in key order.
Launch(p, k) ==
  /\ worker[p][k].pc = "queued"
  /\ \A j \in Keys : worker[p][j].pc = "queued" => k <= j
  /\ Cardinality(Active(p)) < Workers
  /\ worker' = [worker EXCEPT ![p][k].pc = "get"]
  /\ UNCHANGED <<served, obs, seen, checking, snapshot>>

\* checkGroup reads the previous observation; a failed read leaves none.
GetPrevious(p, k) ==
  /\ worker[p][k].pc = "get"
  /\ \/ worker' = [worker EXCEPT ![p][k].pc = "resolve", ![p][k].prev = obs[k]]
     \/ /\ "read" \in Faults
        /\ worker' = [worker EXCEPT ![p][k].pc = "resolve", ![p][k].partial = TRUE]
  /\ UNCHANGED <<served, obs, seen, checking, snapshot>>

\* ResolveForPlatform answers with what the registry serves at that moment.
ResolveOK(p, k) ==
  /\ worker[p][k].pc = "resolve"
  /\ worker' = [worker EXCEPT ![p][k].pc = "put", ![p][k].got = served[k]]
  /\ UNCHANGED <<served, obs, seen, checking, snapshot>>

ResolveFail(p, k) ==
  /\ "registry" \in Faults
  /\ worker[p][k].pc = "resolve"
  /\ worker' = [worker EXCEPT ![p][k].pc = "stale"]
  /\ UNCHANGED <<served, obs, seen, checking, snapshot>>

\* markStale reads the row again, ignoring an error.
StaleGet(p, k) ==
  /\ worker[p][k].pc = "stale"
  /\ \E row \in {obs[k]} \union (IF "read" \in Faults THEN {NoRow} ELSE {}) :
       worker' = [worker EXCEPT ![p][k].pc = "stalePut", ![p][k].prev = row]
  /\ UNCHANGED <<served, obs, seen, checking, snapshot>>

\* A bug to rule out: markStale writes a new row instead of the old one.
StaleRowBlank(prev) ==
  [found |-> TRUE, platform |-> NoDigest, index |-> NoDigest,
   status |-> IF prev.found THEN "stale" ELSE "unknown"]

\* The row markStale writes: the one it read, with its status changed.
StaleRow(prev) ==
  [prev EXCEPT !.found = TRUE, !.status = IF prev.found THEN "stale" ELSE "unknown"]

\* ... and writes it back; an error is ignored.  The result carries Err.
StalePut(p, k) ==
  /\ worker[p][k].pc = "stalePut"
  /\ \/ obs' = [obs EXCEPT ![k] = StaleRow(worker[p][k].prev)]
     \/ "write" \in Faults /\ UNCHANGED obs
  /\ worker' = [worker EXCEPT ![p][k].pc = "failed"]
  /\ UNCHANGED <<served, seen, checking, snapshot>>

FreshRow(m) ==
  [found |-> TRUE, platform |-> m.platform, index |-> m.index, status |-> "fresh"]

\* The new observation is stored before anything is compared or delivered.
PutObservation(p, k) ==
  /\ worker[p][k].pc = "put"
  /\ \/ /\ obs' = [obs EXCEPT ![k] = FreshRow(worker[p][k].got)]
        /\ worker' = [worker EXCEPT ![p][k].pc = "detect"]
     \/ /\ "write" \in Faults
        /\ worker' = [worker EXCEPT ![p][k].pc = "detect", ![p][k].partial = TRUE]
        /\ UNCHANGED obs
  /\ seen' = [seen EXCEPT ![k] = [before |-> @.now, now |-> worker[p][k].got.platform]]
  /\ UNCHANGED <<served, checking, snapshot>>

\* The digests the members of k run, as this cycle listed them.
Running(p, k) == {snapshot[p][c].digest : c \in Members(snapshot[p], k)}

\* A digest transition takes the place of the drift events.
DigestEvents(p, k) ==
  LET w == worker[p][k]
      transition == detectDigestEvents(k, w.prev, w.got)
  IN  IF transition # <<>>
        THEN transition
        ELSE detectDigestDriftEvents(k, w.got, Running(p, k))

\* What candidate analysis adds: nothing for an opaque tag or when the tags
\* cannot be listed, which makes the result partial.
CandidateOutcomes(k) ==
  IF k \in Opaque
    THEN {[events |-> <<>>, partial |-> FALSE]}
    ELSE (UNION {{[events  |-> detectVersionCandidateEvents(k, ws, v),
                   partial |-> \E i \in DOMAIN ws : v[ws[i].tag] = "error"] :
                   v \in [{ws[i].tag : i \in DOMAIN ws} ->
                            {"same", "other"} \union
                              (IF "registry" \in Faults THEN {"error"} ELSE {})]} :
                 ws \in Winners})
         \union (IF "registry" \in Faults
                   THEN {[events |-> <<>>, partial |-> TRUE]} ELSE {})

Detect(p, k) ==
  /\ worker[p][k].pc = "detect"
  /\ \E c \in CandidateOutcomes(k) :
       worker' = [worker EXCEPT ![p][k].pc = "ok",
                                ![p][k].events = DigestEvents(p, k) \o c.events,
                                ![p][k].partial = @ \/ c.partial]
  /\ UNCHANGED <<served, obs, seen, checking, snapshot>>

\* g.Wait returns once every group has its result.
Finished(p) == \A k \in Keys : worker[p][k].pc \in {"idle", "ok", "failed"}

EndCheck(p) ==
  /\ checking[p] /\ Finished(p)
  /\ checking' = [checking EXCEPT ![p] = FALSE]
  /\ worker' = [worker EXCEPT ![p] = [k \in Keys |-> Idle]]
  /\ UNCHANGED <<served, obs, seen, snapshot>>

checkGroup(p, k) ==
  \/ Launch(p, k)
  \/ GetPrevious(p, k)
  \/ ResolveOK(p, k)
  \/ ResolveFail(p, k)
  \/ StaleGet(p, k)
  \/ StalePut(p, k)
  \/ PutObservation(p, k)
  \/ Detect(p, k)

Next ==
  \/ \E k \in Keys : Push(k)
  \/ \E p \in Procs : StartCheck(p)
  \/ \E p \in Procs, k \in Keys : checkGroup(p, k)
  \/ \E p \in Procs : EndCheck(p)

Spec == Init /\ [][Next]_vars

\* Every call checkGroup makes returns: HTTP requests have timeouts.
Fairness ==
  \A p \in Procs : WF_vars((\E k \in Keys : checkGroup(p, k)) \/ EndCheck(p))

FairSpec == Spec /\ Fairness

-----------------------------------------------------------------------------

Statuses == {"", "fresh", "stale", "unknown"}

Rows == [found : BOOLEAN, platform : Digests, index : Digests, status : Statuses]

PCs == {"idle", "queued", "get", "resolve", "put", "stale", "stalePut", "detect", "ok", "failed"}

UpdateEvents == [key : Keys, type : EventTypes, tag : CandidateTags, digest : Digests]

GroupChecks ==
  [pc : PCs, prev : Rows, got : ManifestType, partial : BOOLEAN, events : Seq(UpdateEvents)]

TypeOK ==
  /\ served \in [Keys -> Manifests]
  /\ obs \in [Keys -> Rows]
  /\ seen \in [Keys -> [before : Digests, now : Digests]]
  /\ checking \in [Procs -> BOOLEAN]
  /\ snapshot \in [Procs -> Snapshots]
  /\ worker \in [Procs -> [Keys -> GroupChecks]]

\* "Retain previous state and mark the result stale" (checkGroup): failed
\* checks, however many and wherever they fall, leave the stored digest at
\* what the last successful check saw.
RetainsObservation ==
  \A k \in Keys : obs[k].platform = seen[k].now

\* When the digest a successful check sees differs from the one the last
\* successful check saw, the result reports it, whatever failed in between.
TransitionReported ==
  \A p \in Procs, k \in Keys :
    /\ worker[p][k].pc = "ok"
    /\ seen[k].before # NoDigest /\ seen[k].now # NoDigest
    /\ seen[k].before # seen[k].now
    => \E i \in DOMAIN worker[p][k].events :
         worker[p][k].events[i] = Event(k, digestEventType(k), "", seen[k].now)

\* Every check ends: no group waits forever for a place in the pool.
CheckEnds == \A p \in Procs : checking[p] ~> ~checking[p]
=============================================================================
