------------------------------- MODULE Startup -------------------------------
(***************************************************************************)
(* config.Load and the wiring after it, as run by every process started    *)
(* over one configuration file: the daemon, `image-watch check`, and the   *)
(* health check the container runs every 30 seconds.  Load may rewrite the *)
(* file (migrateNotificationTargets), by truncating and then writing it,   *)
(* while others read it and the operator edits it.                         *)
(***************************************************************************)
EXTENDS Naturals, Sequences, TargetParams, Indices

CONSTANTS
  Procs,          \* the processes: "daemon", "check", "healthcheck"
  OperatorFiles,  \* the files the operator may put in place
  Envs,           \* the environments a process may be started in
  MaxEdits        \* bound on the operator's edits

\* A file is the settings it names with their values, and the notification
\* targets.  A target has its params map, if not null, and its flat fields.
ASSUME FilesAssumption ==
  \A f \in OperatorFiles : f.targets \in Seq({f.targets[i] : i \in DOMAIN f.targets})

\* The settings of rawConfig.  registries.* stand for one configured host.
Settings ==
  {"runtime.type", "runtime.endpoint", "check_interval",
   "policy.patch", "policy.minor", "policy.major", "policy.family_advancement",
   "policy.base_advancement", "policy.tag_changed", "policy.tag_mutated", "policy.other_platform",
   "notifications.mode", "registry_outage.enabled", "registry_outage.consecutive_failures",
   "metrics.enabled", "metrics.listen", "state.path", "enrichment.max_tags", "enrichment.timeout",
   "concurrency.workers", "registries.username_file", "registries.password_file",
   "registries.scheme", "registries.ca_file", "log.level", "log.format"}

NoFile == [set |-> <<>>, targets |-> <<>>, state |-> "missing"]

Torn == [NoFile EXCEPT !.state = "torn"]

VARIABLES
  file,      \* what the configuration file holds
  writable,  \* whether the processes may write it
  proc,      \* each process: how far it is, what it has loaded
  origin,    \* history: the operator's file that file's contents come from
  put,       \* history: the file the operator put in place last
  hit,       \* history: a process was about to write over the one before it
  edits      \* number of edits so far

vars == <<file, writable, proc, origin, put, hit, edits>>

-----------------------------------------------------------------------------

DefaultEndpoint(type) == IF type = "podman" THEN "podman.sock" ELSE "docker.sock"

Default(k) ==
  CASE k = "runtime.type"     -> "docker"
    [] k = "runtime.endpoint" -> DefaultEndpoint("docker")
    [] OTHER                  -> "default"

\* The legacy flat fields a target may have beside its type.
LegacyFields ==
  {"server_url", "topic", "username_file", "password_file", "priority", "title", "url"}

\* A bug to rule out: a flat field is forgotten.
toParamsShort(flat) == [k \in (LegacyFields \intersect DOMAIN flat) \ {"url"} |-> flat[k]]

toParams(flat) == [k \in LegacyFields \intersect DOMAIN flat |-> flat[k]]

hasLegacyFields(t) == ~t.nested /\ LegacyFields \intersect DOMAIN t.flat # {}

\* The params of a target; nil when it has neither params nor legacy fields.
MergeTarget(t) ==
  [type |-> t.type, nil |-> ~t.nested /\ ~hasLegacyFields(t),
   params |-> IF t.nested THEN t.params ELSE IF hasLegacyFields(t) THEN toParams(t.flat) ELSE <<>>]

\* A bug to rule out: the endpoint is not aligned with the type.
MergeUnaligned(f) ==
  [set |-> [k \in Settings |-> IF k \in DOMAIN f.set THEN f.set[k] ELSE Default(k)],
   targets |-> [i \in DOMAIN f.targets |-> MergeTarget(f.targets[i])]]

\* mergeRaw over the defaults.  A runtime section that names no endpoint gets
\* the conventional one of its type.
Merge(f) ==
  LET base == [k \in Settings |-> IF k \in DOMAIN f.set THEN f.set[k] ELSE Default(k)]
  IN  [set |-> IF "runtime.endpoint" \in DOMAIN f.set THEN base
               ELSE [base EXCEPT !["runtime.endpoint"] = DefaultEndpoint(base["runtime.type"])],
       targets |-> [i \in DOMAIN f.targets |-> MergeTarget(f.targets[i])]]

\* Durations that do not parse are refused while merging.
Parses(set) ==
  \A k \in {"check_interval", "enrichment.timeout"} \intersect DOMAIN set : set[k] # "unparsable"

\* A bug to rule out: stdout targets, which have no params, count too.
NeedsMigrationAny(cfg) == \E i \in DOMAIN cfg.targets : cfg.targets[i].nil

NeedsMigration(cfg) ==
  \E i \in DOMAIN cfg.targets : cfg.targets[i].type # "stdout" /\ cfg.targets[i].nil

\* Marshalling Config, whose fields have no yaml names, lower-cases the Go
\* names, and Load does not know the lower-cased names of these settings.
Unnamed ==
  {"check_interval", "policy.family_advancement", "policy.base_advancement",
   "policy.tag_changed", "policy.tag_mutated", "policy.other_platform",
   "registry_outage.enabled", "registry_outage.consecutive_failures",
   "enrichment.max_tags", "registries.username_file", "registries.password_file",
   "registries.ca_file"}

\* What Load will find in a file that writeMigratedConfig has written.  A nil
\* params map comes back empty or null, as the library prefers.
Saved(cfg) ==
  {[set |-> [k \in Settings \ Unnamed |-> cfg.set[k]],
    targets |-> [i \in DOMAIN cfg.targets |->
                   [type |-> cfg.targets[i].type, flat |-> <<>>,
                    nested |-> ~cfg.targets[i].nil \/ empty, params |-> cfg.targets[i].params]],
    state |-> "file"] : empty \in BOOLEAN}

\* The settings that have an environment variable.
Overridable ==
  {"check_interval", "state.path", "runtime.type", "runtime.endpoint", "metrics.listen",
   "log.level", "log.format"}

ASSUME EnvAssumption == \A env \in Envs : DOMAIN env \subseteq Overridable

\* applyEnvOverrides.  A type without an endpoint brings its own endpoint.
applyEnvOverrides(cfg, env) ==
  LET over == [k \in Settings |-> IF k \in DOMAIN env THEN env[k] ELSE cfg.set[k]]
  IN  [cfg EXCEPT !.set =
         IF "runtime.type" \in DOMAIN env /\ "runtime.endpoint" \notin DOMAIN env
         THEN [over EXCEPT !["runtime.endpoint"] = DefaultEndpoint(env["runtime.type"])]
         ELSE over]

validate(cfg) ==
  /\ cfg.set["runtime.type"] \in {"docker", "podman"}
  /\ \A k \in {"check_interval", "notifications.mode", "registries.scheme", "enrichment.max_tags",
               "enrichment.timeout", "concurrency.workers", "log.level", "log.format"} :
       cfg.set[k] # "invalid"
  /\ \A i \in DOMAIN cfg.targets : cfg.targets[i].type # ""

\* buildObserver: a CA bundle that cannot be used ends the process.
buildObserver(cfg) == cfg.set["registries.ca_file"] # "invalid"

\* discord's constructor panics on a template that does not parse.
New(t) ==
  t.type = "discord" /\ Builds(t.type, t.params) => Sound(t.params, {"title", "description"})

\* The targets whose constructors call their service.
Remote(targets) == {i \in DOMAIN targets : CallsService(targets[i].type, targets[i].params)}

\* buildNotifiers: the targets that can be built, the services of unanswered
\* being out of reach, or stdout when there is no target at all.
buildNotifiers(cfg, unanswered) ==
  LET ok(i) == \/ cfg.targets[i].type = "stdout"
               \/ Builds(cfg.targets[i].type, cfg.targets[i].params) /\ i \notin unanswered
  IN  IF cfg.targets = <<>> THEN <<"stdout">>
      ELSE Squeeze([i \in {j \in DOMAIN cfg.targets : ok(j)} |-> cfg.targets[i].type])

-----------------------------------------------------------------------------

NoCfg == Merge(NoFile)

Down == [pc |-> "down", cfg |-> NoCfg, env |-> <<>>, from |-> NoFile, notifiers |-> <<>>]

Init ==
  /\ file \in OperatorFiles \union {NoFile}
  /\ origin = file /\ put = file /\ hit = FALSE
  /\ writable \in BOOLEAN
  /\ proc = [p \in Procs |-> Down]
  /\ edits = 0

Migrating(p) == proc[p].pc \in {"migrating", "truncated"}

\* The operator puts another file in place, in one step.
Edit(f) ==
  /\ edits < MaxEdits
  /\ file' = f /\ origin' = f /\ put' = f
  /\ hit' = \E p \in Procs : Migrating(p)
  /\ edits' = edits + 1
  /\ UNCHANGED <<writable, proc>>

\* Load reads, parses and merges the file.  A missing file is an error when
\* its path was given.
Read(p, env, explicit) ==
  /\ proc[p].pc = "down"
  /\ LET cfg == Merge(file)
         pc  == CASE file.state = "missing" /\ explicit               -> "failed"
                  [] file.state = "garbled" \/ ~Parses(file.set)      -> "failed"
                  [] NeedsMigration(cfg)                              -> "migrating"
                  [] OTHER                                            -> "merged"
     IN  proc' = [proc EXCEPT ![p] = [pc |-> pc, cfg |-> cfg, env |-> env,
                                       from |-> origin, notifiers |-> <<>>]]
  /\ UNCHANGED <<file, writable, origin, put, hit, edits>>

\* A file that cannot be written is left alone; the section is printed.
PrintMigrated(p) ==
  /\ proc[p].pc = "migrating" /\ ~writable
  /\ proc' = [proc EXCEPT ![p].pc = "merged"]
  /\ UNCHANGED <<file, writable, origin, put, hit, edits>>

\* os.WriteFile opens and truncates the file ...
Truncate(p) ==
  /\ proc[p].pc = "migrating" /\ writable
  /\ proc' = [proc EXCEPT ![p].pc = "truncated"]
  /\ file' = Torn /\ origin' = Torn
  /\ UNCHANGED <<writable, put, hit, edits>>

\* A bug to rule out: the file is written after the environment is applied.
WriteOverridden(p) ==
  /\ proc[p].pc = "truncated"
  /\ proc' = [proc EXCEPT ![p].pc = "merged"]
  /\ file' \in Saved(applyEnvOverrides(proc[p].cfg, proc[p].env))
  /\ origin' = proc[p].from
  /\ UNCHANGED <<writable, put, hit, edits>>

\* ... and then writes it, unless another file was moved into its place since.
Write(p) ==
  /\ proc[p].pc = "truncated"
  /\ proc' = [proc EXCEPT ![p].pc = "merged"]
  /\ \/ file' \in Saved(proc[p].cfg) /\ origin' = proc[p].from
     \/ file # Torn /\ UNCHANGED <<file, origin>>
  /\ UNCHANGED <<writable, put, hit, edits>>

\* The write fails (a full disk): the section is printed, the file stays empty.
WriteFail(p) ==
  /\ proc[p].pc = "truncated"
  /\ proc' = [proc EXCEPT ![p].pc = "merged"]
  /\ UNCHANGED <<file, writable, origin, put, hit, edits>>

\* The environment is applied, the result is validated, and the process starts
\* working with it: the daemon and the check build an observer, the daemon
\* builds its notifiers.
Finish(p) ==
  /\ proc[p].pc = "merged"
  /\ LET cfg == applyEnvOverrides(proc[p].cfg, proc[p].env)
         ok  == /\ Parses(proc[p].env) /\ validate(cfg)
                /\ p # "healthcheck" => buildObserver(cfg)
                /\ p = "daemon" => \A i \in DOMAIN cfg.targets : New(cfg.targets[i])
     IN  \E unanswered \in SUBSET Remote(cfg.targets) :
           proc' = [proc EXCEPT ![p] =
             [pc |-> IF ok THEN "up" ELSE "failed", cfg |-> cfg, env |-> proc[p].env,
              from |-> proc[p].from,
              notifiers |-> IF ok /\ p = "daemon" THEN buildNotifiers(cfg, unanswered) ELSE <<>>]]
  /\ UNCHANGED <<file, writable, origin, put, hit, edits>>

\* A process ends, is killed at any point, and may be started again.
Exit(p) ==
  /\ proc[p].pc # "down"
  /\ proc' = [proc EXCEPT ![p] = Down]
  /\ UNCHANGED <<file, writable, origin, put, hit, edits>>

Next ==
  \/ \E f \in OperatorFiles : Edit(f)
  \/ \E p \in Procs, env \in Envs, explicit \in BOOLEAN : Read(p, env, explicit)
  \/ \E p \in Procs : PrintMigrated(p) \/ Truncate(p) \/ Write(p) \/ WriteFail(p)
                       \/ Finish(p) \/ Exit(p)

Spec == Init /\ [][Next]_vars

-----------------------------------------------------------------------------

\* The process works with what the operator put in the file.
Working(p) == proc[p].pc = "up" /\ proc[p].from.state \in {"file", "missing"}

\* What the file asks for: its own value, the conventional socket of its own
\* runtime, or the default.
Wanted(f, k) ==
  IF k \in DOMAIN f.set THEN f.set[k]
  ELSE IF k = "runtime.endpoint" /\ "runtime.type" \in DOMAIN f.set
       THEN DefaultEndpoint(f.set["runtime.type"])
       ELSE Default(k)

\* What an environment takes out of the file's hands: the settings it names, and
\* with the runtime's type its endpoint too.
Overridden(env) ==
  DOMAIN env \union (IF "runtime.type" \in DOMAIN env THEN {"runtime.endpoint"} ELSE {})

\* However often the file was migrated, by whom, and in which environment they
\* ran, a process has what the operator's file asks for of every setting that
\* its own environment does not override, the endpoint included; a setting the
\* saved file does not name under a name Load knows may have fallen back to its
\* default.
SettingsKept ==
  \A p \in Procs : Working(p) =>
    \A k \in Settings \ Overridden(proc[p].env) :
      proc[p].cfg.set[k] \in
        {Wanted(proc[p].from, k)} \union (IF k \in Unnamed THEN {Default(k)} ELSE {})

\* A process talks to the conventional socket of the runtime it ends up with if
\* nobody chose an endpoint, and also if the environment names the runtime and
\* the file alone the endpoint: applyEnvOverrides then discards the operator's
\* endpoint, whether or not the file was migrated in between.
EndpointFits ==
  \A p \in Procs :
    /\ Working(p) /\ "runtime.endpoint" \notin DOMAIN proc[p].env
    /\ "runtime.endpoint" \notin DOMAIN proc[p].from.set \/ "runtime.type" \in DOMAIN proc[p].env
    => proc[p].cfg.set["runtime.endpoint"] = DefaultEndpoint(proc[p].cfg.set["runtime.type"])

\* What a target of the operator's file asks for: ntfy and webhook may have
\* their fields beside the type, every other type has a params map.
Asked(t) ==
  t.type = "stdout"
  \/ Builds(t.type, IF t.nested THEN t.params
                    ELSE IF t.type \in {"ntfy", "webhook"} THEN t.flat ELSE <<>>)

\* The daemon sends to exactly the usable targets of the operator's file, in
\* their order, in either format, before and after a migration; a target that
\* cannot be built, because of its parameters or because its service did not
\* answer at the start, costs no other target.
NotifiersSurvive ==
  \A p \in Procs \intersect {"daemon"} : Working(p) =>
    LET asked == proc[p].from.targets
        kept(lost) == {i \in DOMAIN asked : Asked(asked[i]) /\ i \notin lost}
    IN  IF asked = <<>> THEN proc[p].notifiers = <<"stdout">>
        ELSE \E lost \in SUBSET Remote(asked) :
               proc[p].notifiers = Squeeze([i \in kept(lost) |-> asked[i].type])

\* A target with neither params nor a legacy field.
Bare(f) ==
  \E i \in DOMAIN f.targets :
    LET t == f.targets[i]
    IN  t.type # "stdout" /\ ~t.nested /\ LegacyFields \intersect DOMAIN t.flat = {}

\* Load leaves the operator's file as it is unless the file has a bare target,
\* or was put in place while a process was migrating the one before it: that
\* process writes over it unseen (writeMigratedConfig), whatever it says.
UntouchedUnlessBare == file # put => Bare(put) \/ hit

\* "If the config file is writable, the migrated config is saved back" (comment
\* of migrateNotificationTargets): a process that loads the saved file, and
\* overrides nothing, has all of the operator's settings.
SavedBack ==
  \A p \in Procs : Working(p) /\ proc[p].env = <<>> =>
    \A k \in DOMAIN proc[p].from.set : proc[p].cfg.set[k] = proc[p].from.set[k]
=============================================================================
