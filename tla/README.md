# image-watch: verification project

TLA+ models of image-watch (a daemon that watches the images of running
containers and notifies about upstream updates), model-checked with TLC and,
for the parts marked below, proved with TLAPS.

## 1. The system

| component | state | operations | hard behaviour |
|---|---|---|---|
| observer (`internal/observer`) | none of its own; reads and writes the observations table | `Check`, `checkGroup`, `markStale`, event detection | bounded worker pool; store and registry calls that fail; two processes over one table |
| enrichment (`enrichment.go`) | one `groupCache` per group | `list`, `attemptEnrichment` | scans waiting for a semaphore, parallel windows, shared list under a mutex, timeout |
| notification pipeline (`pipeline.go`) | notifications table | `BuildNotification`, `Deliver`, `MarkDelivered`, `DeliverAndMark` | crash between delivery and marking, partial delivery, two processes |
| outage tracker (`pipeline.go`) | failure counts and flags per host | `DetectOutages` | hosts that fail, recover and disappear |
| daemon and check command (`cmd/image-watch`) | -- | `Run`, `runCycle`, `runCheck` | restart, composition of check and delivery |
| state store (`internal/state`) | the two tables | get/put observation, has/mark notified, prune at open | errors, retention |
| policies and events | -- | `Allows`, `Merge`, `ApplyLabels`, `Fingerprint` | conflicting labels in one group |
| registry authentication | token cache | `tokenFor`, `invalidate`, `doAuthenticatedGETInner` | expiry, late stores, racing invalidation |
| registry client | -- | `ResolveForPlatform`, `ListTags` | pushes between two requests; pagination |
| version candidates (`internal/version`) | -- | `ParseTag`, `AnalyzeCandidates` | list order, precision, several axes |
| docker runtime | -- | `ListContainers`, `backfillPlatforms`, `matchRepoDigest` | inspections failing one by one; one image under several spellings |
| image references (`internal/image`) | -- | `ParseReference` | implicit registry and namespace |
| configuration (`internal/config`) | the configuration file | `Load`: merge, migration, environment, validation | a file rewritten in place while others read and edit it |
| wiring (`wiring.go`) | -- | `buildObserver`, `buildNotifiers`, `buildCredentialChain` | targets that cannot be built |
| credentials (`internal/credentials`) | secret files, auth config file | `Chain.Lookup` and its sources | rotation, two files read one after the other, failing helpers |
| notification targets (`internal/notify`) | -- | `Notify`, the builders | messages that fail one by one, lost answers, 429, cancellation |
| metrics | gauges | `UpdateAvailability`, `SetDigestDrift` | stale values, two sources for one fact |

`Daemon.Run` calls `runCycle` at once and at every tick. A cycle lists the
containers (docker runtime), groups them by image, checks every group on the
worker pool (observer, registry client, enrichment, version candidates), sets
the gauges, and hands the results to the pipeline, which asks the notifications
table what was sent already, calls the notifiers, and records what they took.
`image-watch check` runs the same two halves once, in another process and
usually on the same database. After the events the daemon looks for registry
outages and sends alerts through the same notifiers. SIGTERM cancels the context
every later call runs under; the cycle still runs to its end. Every process,
the health check included, first loads the configuration file, and may rewrite
it. Nothing but the two tables and that file survives a process.

What makes the parts correct: no event is suppressed that nobody received; an
update a container lacks is reported in the end; failed checks lose no state;
one alert per outage, to every target that works; the newest match and the newest candidate win; expired
tokens and rotated passwords do not poison the client; the operator's settings
and targets survive a migration; answers of the registry client belong to the
platform asked for and to one moment; the gauges and notifications agree.

## 2. Modules and how they correspond to the code

- `Events`: event types, policies and fingerprints. Registry, repository, tag
  and platform are one key, since they are only compared. The hash is taken to
  be injective; it covers key, type and candidate digest.
- `Pipeline`: every process's cycle from its results on. Every store call and
  every `Notify` call is one action. `todo` is what `BuildNotification` has left,
  `note` the items not delivered yet, `notified` the table. `received` and
  `repeated` record what the targets got and belong to no code.
  `Faults` chooses what may fail. `Ledger` is the abstract specification: a
  notification is retired only when a recipient has it. `Pipeline` refines it
  with `retired` as the set of fingerprints that have a row.
- `Observer`: one `checkGroup` per process and key; reading the row, asking the
  registry, writing the row and the rest of detection are separate steps. `seen`
  is a history of the digests of the last two successful checks.
- `Daemon`: composes `Observer` with an instance of `Pipeline`; a check's results
  become the items of the pipeline (`ResultItems`).
- `Gauges`: `Observer` with the part of `runCycle` that sets the gauges, from
  the events and the merged policy of the group (`MergeAll`).
- `OutageTracker`: the tracker, with histories of failing streaks and alerts.
- `Delivery`: the daemon's cycle from its results to its end, over the tracker
  and an instance of `Pipeline` whose `Notify` calls are taken apart. `call` is
  the call in progress: the messages left, the attempt, whether one has failed,
  what the target has got. A message is posted, fails, fails although the target
  got it, or is rate limited; stdout, which ignores the context, is the one
  target a cancelled cycle still reaches. `missed`, `excused` and `told` are
  histories: what a target's failed call cost it, which events may reach a target
  again (their delivery was cut short or failed, or the table could not be asked
  about them or told of them), how often a target heard of an outage. `Delivery` refines `Pipeline`,
  which refines `Ledger`.
- `Startup`: `Load` in every process over one file, and the wiring after it. A
  file is a function from the settings it names to values, and its targets; a
  value is default, custom, invalid or unparsable, as far as the code tells
  them apart. `os.WriteFile` is a truncation and a write. `Unnamed` lists the
  settings that `Config` marshals under a name `rawConfig` does not have.
  Three variables are histories: `origin`, the operator's file that the contents
  come from; `put`, the file the operator last put in place; `hit`, whether a
  process was migrating another one at that moment.
- `TargetParams`: what the fourteen builders ask of their parameters.
- `References`: `ParseReference` on a name split at its slashes.
- `Enrichment`: the scans of one group, one for each drifted digest. They queue
  for a semaphore of `concurrency.workers` slots, share one list and resolve
  their candidates window by window.
- `TokenCache`: concurrent requests over one cache entry; every exchange looks
  its credentials up again, the username and the password file in two steps.
  `Credentials` has the sources and their order. A secret is the number of the
  rotation it belongs to, so that a mixed pair can be told from a right one. Every
  request of a call may fail. The repository is private: a request without a
  token never succeeds, and a token granted without credentials (`Anonymous`) is
  answered 401, after which the entry is dropped, or 403, after which it stays.
- `RegistryClient`: `ResolveForPlatform` and `ListTags`, the two operations that
  take more than one request. `call` is the frame of the call under way; its
  fields `shown`, `stable` and `honest` are histories. The registry is external.
- `Candidates`: tags as sequences of classified segments; `AnalyzeCandidates` as
  a loop over the list.
- `Detection`: composes `Candidates` and `Enrichment`, the half of `checkGroup`
  that analyses the candidates of a versioned tag and scans for the release an
  opaque one has moved to.
- `ContainerList`: `ListContainers`, `backfillPlatforms` and `matchRepoDigest`,
  over references in several spellings. Listing and backfilling are two loops,
  one turn per action: `observations` grows by a container, then `result` by an
  observation that has or can borrow a platform.
- `Indices`: the elements a loop of the code keeps of a slice, in their order
  (`Nth`, `Squeeze`); written without recursion, so that it can be proved about.
- `PipelineProofs`, `DeliveryProofs`, `ObserverProofs`, `EnrichmentProofs`,
  `RegistryProofs`, `CandidatesProofs`, `StartupProofs`, `ContainerListProofs`:
  the proofs. `DeliveryProofs` holds those of `OutageTracker`, `ObserverProofs`
  those of `Observer`, `Gauges` and `Daemon`, and `RegistryProofs`, besides those
  of `RegistryClient`, those of `TokenCache`.
- `MC*`: instances for TLC. Definitions introduced by "A bug to rule out" are
  mutated forms of the definition that follows; they are used by no
  specification and serve to show that the properties can fail.

Each module says in its head what it leaves out. Digests, tags and platforms
are small sets; wording, logging and timestamps are left out.

## 3. Runs

Passing runs:

| run | instance | shows |
|---|---|---|
| `pipeline_faults` | 2 processes, 2 notifiers, 2 fingerprints, individual mode, every fault | `MarkedWasReceived`, refinement of `Ledger` |
| `delivery` | discord and gotify, or webhook and stdout; 2 events, 1 host at threshold 2; failing, lost and limited posts, failing lookups, SIGTERM, crashes | `OnceUnlessInterrupted`, `EveryTargetTried`, `OneAlertPerOutage`, `AlertedOnce`, refinement of `Pipeline`, `CycleEnds` |
| `check_and_gauges` | 2 keys on 1 worker, failing registry, pushes, conflicting labels | `RetainsObservation`, `TransitionReported`, `CheckEnds`, `DriftShowsAsUpdate` |
| `daemon_drift` | 1 process, 1 image, every fault, crashes | `DriftIsDelivered`, `NothingHidden` |
| `startup` | daemon and health check, 8 files, 4 environments, 1 edit, read-only or writable, deaths at every point | `SettingsKept`, `EndpointFits`, `NotifiersSurvive`, `UntouchedUnlessBare` |
| `detection` | 7 running tags, every order of up to 3 of 11 listed tags; for the opaque tag 3 scans on 2 workers, 3 candidates of which 2 match, failing requests, timeouts | `NewestReported`, `BestIsNewest`, `BaseNewest`, `CombinedUpdatesBoth`; `NewestMatchWins`, `ListedOnce`, `RequestsBounded`, `ScansEnd` |
| `token_cache` | 2 workers, every request failing now and then, anonymous tokens, 1 expiry, 1 password rotation, secret files and 3 kinds of auth config | `RejectionsEnd`, `RequestsSucceed` |
| `registry_client` | 4 platforms, 3 contents, 4 tags on pages of 1, at most 3 pages, wrong links | `AnswerIsPlatformVerified`, `SpellingDoesNotMatter`, `ListingComplete`, `CallsEnd` |
| `container_list` | up to 3 containers, 6 references, 3 images | `LostOnlyAlone`, `PlatformRecovered`, `DigestFound` |

Runs that end in a counterexample, each against a sentence of the repository:

| run | sentence | counterexample |
|---|---|---|
| `daemon_twins` | "once per event" (README) | two old digests of one tag: two items with one fingerprint in one message |
| `startup_migration` | "If the config file is writable, the migrated config is saved back." (load.go:310) | `check_interval` and eleven other settings are saved under names `Load` does not know; after a restart they have their defaults, and a configuration that was refused is accepted |
| `combined` | "Combined is the actual tag carrying both application and base candidates." (candidates.go:30) | `findCombinedCandidate` compares the numbers of the bases, not their families: `1.2.4-debian3.23` is the combined candidate of `1.2.3-alpine3.22` whose base candidate is alpine 3.23 |

Further behaviours of the code that the models have and no run is about:

- When the store read inside `markStale` fails after a registry failure, a row
  without digests replaces the stored one (the comment at observer.go:246 says
  "Retain previous state"). `RetainsObservation` is therefore checked with a
  store that answers; `daemon_drift` includes the failing reads.
- The observation is stored before its event is delivered. If the running
  digest of a container is unknown and the only delivery attempt fails, the
  transition is never reported. `DriftIsDelivered` is about known digests.
- With an unknown running digest, `updates_available` falls back to 0 at the
  check after the one that saw the transition.
- When `HasNotified` fails, the event is included (pipeline.go:38) and a target
  that has it gets it again. `OnceUnlessInterrupted` counts it as excused.
- A file that the operator puts in place while a process migrates the previous one
  is overwritten unseen (load.go:345). `UntouchedUnlessBare` says so (`hit`).
- `IMAGE_WATCH_RUNTIME_TYPE` alone discards the file's `runtime.endpoint`
  (load.go:396-402); `SettingsKept` counts it as overridden, and `EndpointFits`
  says what the process uses instead.
- A helper that fails now and then makes the exchange anonymous, and what the realm
  grants is cached: rejections recur as long as helpers fail, and a registry that
  answers such a token with 403 keeps getting it until it answers 401.
  `RejectionsEnd` and `RequestsSucceed` name these two conditions.
- A newer release of the same major, `1.2.4-alpine`, is no candidate for `1-alpine`:
  a composite tag has no family of releases. `NewestReported` exempts the case.
- An image known under two names that end alike: `matchRepoDigest` takes the
  first, which may be another registry's digest.
- A target that fails while an outage alert is sent never hears of that outage.
- A process that reads the configuration between truncation and write runs with
  the defaults. `SettingsKept` is about processes that read an operator's file or
  a saved one.
- discord's `retry_after` in the body is never used: the body is drained first.
- A `telegram` or `mattermost` service that is down when the daemon starts costs
  that target until the next start; a discord template that does not parse ends
  the process.

Why the bounds are enough: two processes make every race over a row, two
notifiers every mixture of success and failure, two fingerprints every
confusion of two items. One worker for two groups makes a group wait, and
three scans on two workers a scan; windows of two over three candidates have a
full and a short window, with two matches in the first to choose from. A page limit
of three over four pages of tags is met. Streaks go beyond the threshold. The
target lists of `delivery` hold every way to send and to fail, each beside another
one; two events make a message per item differ from one message. The files of
`startup` have both formats, each kind of refusal, and a bare target beside sound
ones; two processes make every race over the file. One rotation read in two steps
gives every mixed pair, and three tokens leave one unused by two workers. The
candidate pool has newer releases of every kind, two newer bases of the running
family, the newest on an older release, and another family with equal numbers, in
every order of three.

## 4. Fairness

`Cycle` (of `Pipeline`'s and of `Delivery`'s daemon), `Exit`, `checkGroup`,
`RecordResults`, `Enrich`, `Respond`: weak fairness, because the code is
straight-line and every call it makes has a timeout. `Daemon` assumes in
addition that processes are started again and the ticker ticks (weak), and that
a registry and a notifier are not down at every single attempt (strong);
`DriftIsDelivered` is about drift that persists while some process stays up.
`TokenCache` assumes that requests are made again (weak), that neither the exchange
nor the repeated request fails at every attempt (strong), and that the operator
finishes a rotation (weak). Nothing is assumed about the helpers: what depends on
them is a hypothesis of the two properties. Nothing is assumed about pushes,
crashes or expiry either.

## 5. Proofs

Every theorem holds for all values of the constants that satisfy the assumptions
named in the component's module, which say of what type the constants are,
which of them are finite or positive, and that events and hosts are different
things. Two theorems about
`Observer` and one about `Delivery` have a further hypothesis, given below. In
each module the inductive invariant is a conjunction of named parts, and there
is one lemma per part and kind of step.

- **Pipeline** (`PipelineProofs`): `PipelineTyped`, `PipelineSafe`
  (`MarkedWasReceived`) and `PipelineRefinesLedger` (`KeepsLedger`), for any
  processes, item lists, notifiers, mode and faults. `MarkedWasReceived` is not
  inductive: marking relies on what happened during delivery. The invariant adds
  that a batch some notifier took was received by a target (`BatchReceived`),
  that marking happens only to such a batch (`MarkingDelivered`), and that the
  flag is set only in the two phases it belongs to (`DeliveredPhase`). The
  refinement maps `NotifyOK` and `NotifyFail` to `Receive`, `MarkItem` to
  `Retire`, `Open` to `Forget`, and the rest to stuttering; the guard of
  `Retire` comes from the invariant.
- **Outages** (in `DeliveryProofs`): `OutageCorrect`, types and `OneAlertPerOutage`,
  for every threshold and set of hosts. The invariant links the tracker's count
  to the streak and its flag to the threshold (`CountsAgree`).
- **Delivery** (`DeliveryProofs`): `DeliveryTyped`, `DeliveryTriesAll`
  (`EveryTargetTried`), `DeliveryAlertsOnce` (`AlertedOnce` and, carried over
  from the tracker, `OneAlertPerOutage`), `DeliveryRefinesPipeline`
  (`ImplementsPipeline`) and `DeliveryOnce` (`OnceUnlessInterrupted`), for any
  targets, events, hosts, threshold and faults. `DInv` says which phase of the
  pipeline each stage of the cycle is in (`Staged`), what the call in progress
  has handed over so far (`CallInv`), which alerts are still on their way
  (`AlertsInv`), and who was tried already (`EventsTried`, `OutagesTried`):
  what a target was offered is settled target by target, so a row or an alert
  that is through has passed all of them. The messages of a call
  map to stuttering; the end of the call maps to `NotifyOK` or, when a message
  failed, to `NotifyFail` with the part that got through (`HandPart`), and a
  crash during a call to the crash with that part. With the
  refinements above, `Delivery` implements `Ledger`.
  `DeliveryOnce` assumes `EachOnce`: no check's results name an event twice.
  Without it the statement is false, which is what `daemon_twins` shows.
  `OnceInv` adds that no event is in the notification twice (`NamedOnce`), that
  the items still to be delivered or marked have no row, unless they were looked up
  in vain (`Vain`: every target is excused or, the context being cancelled, out of
  reach; `NoteInv`, `GotInv`), and that whatever a target has is excused, has a
  row, or is on its way to one (`Settled`).
- **Checks and gauges** (`ObserverProofs`): `ChecksTyped`, `GaugesAgree`
  (`DriftShowsAsUpdate`), `ObservationRetained` and `TransitionsReported`.
  The first two hold for any processes and faults; the agreement of the gauges
  needs what the events of a finished check are (`EventsKept`): a drift event
  that is left out has given way to a transition event of the same type. The
  other two assume `SoleWriter`, one process and a store that answers, which is
  where they are true (see "Further behaviours" above); `Remembers` says that the
  row read at the start of a check is the last successful one, and `Tracks` what
  the check compared with it.
- **Daemon** (`ObserverProofs`): `DaemonHidesNothing` (`NothingHidden`) and
  `DaemonKeepsLedger`, that the daemon with its checks, crashes and restarts
  implements `Ledger`, for any processes, keys, notifiers, mode and faults. Steps
  of a check leave the pipeline's variables alone; the steps of the pipeline are
  those of `PipelineProofs`, which is instantiated with the daemon's constants.
  What remains is the hand-over: the pipeline needs items, and gets the events
  of all groups, flattened. `ChecksInv` adds to the types that a check with an
  answer has one the registry gave (`Answered`) and that its events are ones the
  notifications table can tell apart (`Reports`). `FlattenSeq` is a recursive function, and
  that it yields a sequence of the elements' type is shown by minimal
  counterexample: the set of lengths it fails for has a smallest member, and
  the equation of the function at that length refutes it.
- **Enrichment** (`EnrichmentProofs`): `EnrichmentTyped`, `EnrichmentNewest`
  (`NewestMatchWins`), `EnrichmentListsOnce` (`ListedOnce`) and
  `EnrichmentBounded` (`RequestsBounded`), for any tags, matches, workers and
  faults, and any finite number of scans. `DetectionComposes` carries them, and
  those about candidates, over to `Detection`: its behaviours are behaviours of
  both parts. The invariant adds that no more scans hold a slot of
  the semaphore than it has (`SlotsHeld`), that the mutex is held by one scan
  (`MutexHeld`), that the list is asked for by the first (`FirstLists`), and that
  every match before a scan's window has failed (`Passed`), which is why the
  first match of a window is the newest; that a non-empty window has a first
  match is well-foundedness of the naturals. The bound maps every request in
  flight to its scan, which holds a slot, and its place in that scan's window
  (`InWindow`); the map is injective, so there are no more of them than pairs.
- **Registry client** (`RegistryProofs`): `AnswerCorrect`
  (`AnswerIsPlatformVerified`), `SpellingCorrect` (`SpellingDoesNotMatter`) and
  `ListingCorrect` (`ListingComplete`), for any platforms, contents, tags, page
  size and page limit. The first rests on the content being fixed by the first
  answer; the second on `SameMachine` being an equivalence the selection
  respects; the third on an invariant of the loop: all collected tags are
  at most the cursor, and every tag that stayed and is at most the cursor
  was collected.
- **Tokens** (`RegistryProofs`): `TokensTyped` (`TypeOK` of `TokenCache`) and
  `RetriesCarryTokens`, for any workers, tokens, auth config entries, expiries
  and rotations that satisfy `TokenAssumption`. The invariant adds which token a
  request carries at each of its steps, an anonymous one included (`Carries`), and that every secret read is
  one the operator has set (`Known`), mixed pairs included: the chain returns one
  of its sources' answers (`FirstIsFound`).
- **Candidates** (`CandidatesProofs`): `NewestCorrect`, `BestCorrect`,
  `BaseCorrect` and `CombinedCorrect`, for any tags in any order. The invariant
  of the loop says that the candidate of each kind is eligible and that no tag
  seen so far is both eligible and newer. The rest is that eligibility is what the
  properties call an update of that kind (`UpdatesAreEligible`), that versions
  compare as a total preorder and that the kinds are ordered as their newest
  members are. `CombinedCorrect` speaks of lists in which no other family's tag
  carries both winners' numbers; the others are what `combined` is about.
- **Startup** (`StartupProofs`): `StartupLeavesFile` (`UntouchedUnlessBare`),
  `StartupKeepsSettings` (`SettingsKept`), `StartupEndpoint` (`EndpointFits`)
  and `StartupNotifiers` (`NotifiersSurvive`), for any processes, files,
  environments and edits. While the operator's file has no bare target and came
  between no read and its write, it is unchanged and nobody is migrating
  (`LeftAlone`). The contents a process read may be a migration already, so the
  other invariants carry the origin of what it read: a file, a reader and a
  writer agree with their origin on every setting but the unnamed ones
  (`Keeps`), and on what their targets build (`SameTargets`).
- **Container list** (`ContainerListProofs`): `ListingInvariant`,
  `ListingLosesNone` (`LostOnlyAlone`), `ListingPlatforms` (`PlatformRecovered`)
  and `ListingDigests` (`DigestFound`), for any containers, images, references
  and failing inspections. The invariant of the first loop (`Observed`) says that
  the observations are those of the parseable containers seen so far, in list
  order, each with what the inspection told (`Truthful`); that of the second
  (`Backfilled`) that the result is exactly the observations so far that have
  a platform or a sibling with one. The code compares keys and suffixes of names
  where the properties speak of the same image, so the argument rests on lemmas
  about `ParseReference`: references without a digest have one key if and only
  if they spell out the same registry, path and tag (`SameKey`, `KeySame`), and
  what `matchRepoDigest` finds by
  suffix ends in the same component (`SuffixOfCons`, `SuffixLast`).
  `HostAssumption` says that Docker Hub's name looks like a host and the empty
  string does not.

Only model-checked: everything about liveness and fairness, which is out of the
prover's reach (`DriftIsDelivered`, `CycleEnds`, `CheckEnds`, `ScansEnd`,
`CallsEnd`, `RejectionsEnd`, `RequestsSucceed`). Every invariant, every action
property and every refinement of the passing runs has a theorem.

## 6. Plan

Done: the pipeline and its ledger, the targets and outage alerts as a refinement
of the pipeline, the observer and the composed daemon, policies, outage tracker,
enrichment and candidates composed, token cache and credentials, registry client, references
and container listing, gauges, configuration and wiring; the proofs above.

Open: `Resolve` of the registry client, and its error classes beyond those that
`TokenCache` tells apart.

## 7. Not modelled

The texts of messages and log lines; the HTTP server and the health check's
request; the counters and histograms of the metrics (the deletion of series is
something the code does not do); parsing of the bearer challenge; the docker API
client; base64 and the helper protocol of credentials, and the order of several
auth config files. A file write is one truncation and one write: readers between
two halves of the contents are not explored. These are string handling, I/O or
output, or have no state.
