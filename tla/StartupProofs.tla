---------------------------- MODULE StartupProofs ----------------------------
(***************************************************************************)
(* Load rewrites only the files it means to migrate, and what it rewrites  *)
(* still says what the operator said, whatever the files, the environments *)
(* and the number of processes and edits.                                  *)
(***************************************************************************)
EXTENDS Startup, TLAPS

\* A file that has no bare target, and was put in place when nobody was about to
\* write, is there as it was put, and nobody is about to write over it.
LeftAlone ==
  ~Bare(put) /\ ~hit => file = put /\ \A p \in Procs : ~Migrating(p)

\* Processes are records with these fields.
Shape ==
  /\ DOMAIN proc = Procs
  /\ \A p \in Procs : DOMAIN proc[p] = {"pc", "cfg", "env", "from", "notifiers"}

IInv == Shape /\ LeftAlone

\* migrateNotificationTargets acts on the bare targets only: mergeRaw has given
\* every target with a legacy field its params.
LEMMA MigrationFacts ==
  ASSUME NEW f, NeedsMigration(Merge(f))
  PROVE  Bare(f)
<1>1. Merge(f).targets = [i \in DOMAIN f.targets |-> MergeTarget(f.targets[i])]
  BY DEF Merge
<1>2. PICK i \in DOMAIN Merge(f).targets :
        Merge(f).targets[i].type # "stdout" /\ Merge(f).targets[i].nil
  BY DEF NeedsMigration
<1>3. i \in DOMAIN f.targets /\ Merge(f).targets[i] = MergeTarget(f.targets[i])
  BY <1>1, <1>2
<1>4. f.targets[i].type # "stdout"
  BY <1>2, <1>3 DEF MergeTarget
<1>5. ~f.targets[i].nested /\ ~hasLegacyFields(f.targets[i])
  <2>. DEFINE t == f.targets[i]
  <2>1. MergeTarget(t).nil = (~t.nested /\ ~hasLegacyFields(t))
    BY Zenon DEF MergeTarget
  <2>2. MergeTarget(t).nil
    BY <1>2, <1>3, Zenon
  <2>. QED  BY <2>1, <2>2, Zenon
<1>6. LegacyFields \intersect DOMAIN f.targets[i].flat = {}
  BY <1>5 DEF hasLegacyFields
<1>. QED  BY <1>3, <1>4, <1>5, <1>6 DEF Bare

\* A step that moves one process on and does not touch the file.
LEMMA OnlyProc ==
  ASSUME IInv, NEW q \in Procs, NEW r,
         DOMAIN r = {"pc", "cfg", "env", "from", "notifiers"},
         r.pc \in {"migrating", "truncated"} => Migrating(q) \/ Bare(file),
         proc' = [proc EXCEPT ![q] = r], UNCHANGED <<file, put, hit>>
  PROVE  IInv'
<1>1. proc'[q] = r /\ \A p \in Procs \ {q} : proc'[p] = proc[p]
  BY DEF IInv, Shape
<1>2. Shape'
  BY <1>1 DEF IInv, Shape
<1>3. LeftAlone'
  <2>. SUFFICES ASSUME ~Bare(put), ~hit PROVE file = put /\ \A p \in Procs : ~Migrating(p)'
    BY DEF LeftAlone, Bare
  <2>1. file = put /\ \A p \in Procs : ~Migrating(p)
    BY DEF IInv, LeftAlone
  <2>2. r.pc \notin {"migrating", "truncated"}
    BY <2>1
  <2>. QED  BY <1>1, <2>1, <2>2 DEF Migrating
<1>. QED  BY <1>2, <1>3 DEF IInv

\* A step of a process that is about to write: the file was not to be left alone.
LEMMA MigratorStep ==
  ASSUME IInv, NEW q \in Procs, NEW x, Migrating(q), proc' = [proc EXCEPT ![q].pc = x],
         UNCHANGED <<put, hit>>
  PROVE  IInv'
<1>1. Shape'
  BY DEF IInv, Shape
<1>2. Bare(put) \/ hit
  BY DEF IInv, LeftAlone
<1>3. LeftAlone'
  BY <1>2 DEF LeftAlone, Bare
<1>. QED  BY <1>1, <1>3 DEF IInv

\* The first state: nobody is running and the file is the operator's.
LEMMA InitStep == Init => IInv
  BY DEF Init, IInv, Shape, LeftAlone, Migrating, Down

\* Every step keeps the invariant.
LEMMA NextStep ==
  ASSUME IInv, [Next]_vars
  PROVE  IInv'
<1>1. CASE UNCHANGED vars
  BY <1>1 DEF vars, IInv, Shape, LeftAlone, Migrating, Bare
<1>2. ASSUME NEW f \in OperatorFiles, Edit(f)
      PROVE  IInv'
  <2>1. /\ file' = f /\ put' = f /\ proc' = proc
        /\ hit' = \E p \in Procs : Migrating(p)
    BY <1>2 DEF Edit
  <2>2. Shape'
    BY <2>1 DEF IInv, Shape
  <2>3. \A p \in Procs : Migrating(p)' <=> Migrating(p)
    BY <2>1 DEF Migrating
  <2>4. LeftAlone'
    BY <2>1, <2>3, Zenon DEF LeftAlone
  <2>. QED  BY <2>2, <2>4 DEF IInv
<1>3. ASSUME NEW p \in Procs, NEW env \in Envs, NEW explicit \in BOOLEAN, Read(p, env, explicit)
      PROVE  IInv'
  <2>1. PICK pc : /\ pc = "migrating" => NeedsMigration(Merge(file))
                  /\ pc # "truncated"
                  /\ proc' = [proc EXCEPT ![p] = [pc |-> pc, cfg |-> Merge(file), env |-> env,
                                                   from |-> origin, notifiers |-> <<>>]]
    <3>. DEFINE pc == CASE file.state = "missing" /\ explicit          -> "failed"
                        [] file.state = "garbled" \/ ~Parses(file.set) -> "failed"
                        [] NeedsMigration(Merge(file))                 -> "migrating"
                        [] OTHER                                       -> "merged"
    <3>1. pc = "migrating" => NeedsMigration(Merge(file))
      OBVIOUS
    <3>2. pc # "truncated"
      OBVIOUS
    <3>3. proc' = [proc EXCEPT ![p] = [pc |-> pc, cfg |-> Merge(file), env |-> env,
                                        from |-> origin, notifiers |-> <<>>]]
      BY <1>3, Zenon DEF Read
    <3>. HIDE DEF pc
    <3>. QED  BY <3>1, <3>2, <3>3
  <2>2. pc = "migrating" => Bare(file)
    BY <2>1, MigrationFacts
  <2>. DEFINE r == [pc |-> pc, cfg |-> Merge(file), env |-> env,
                    from |-> origin, notifiers |-> <<>>]
  <2>3. DOMAIN r = {"pc", "cfg", "env", "from", "notifiers"}
    OBVIOUS
  <2>4. r.pc \in {"migrating", "truncated"} => Bare(file)
    BY <2>1, <2>2
  <2>5. proc' = [proc EXCEPT ![p] = r] /\ UNCHANGED <<file, put, hit>>
    BY <1>3, <2>1 DEF Read
  <2>. HIDE DEF r
  <2>. QED  BY <2>3, <2>4, <2>5, OnlyProc
<1>4. ASSUME NEW p \in Procs, PrintMigrated(p) \/ Truncate(p) \/ Write(p) \/ WriteFail(p)
      PROVE  IInv'
  <2>1. /\ Migrating(p) /\ UNCHANGED <<put, hit>>
        /\ \E x : proc' = [proc EXCEPT ![p].pc = x]
    BY <1>4 DEF PrintMigrated, Truncate, Write, WriteFail, Migrating
  <2>. QED  BY <2>1, MigratorStep
<1>5. ASSUME NEW p \in Procs, Finish(p)
      PROVE  IInv'
  <2>. DEFINE cfg == applyEnvOverrides(proc[p].cfg, proc[p].env)
              ok  == /\ Parses(proc[p].env) /\ validate(cfg)
                     /\ p # "healthcheck" => buildObserver(cfg)
                     /\ p = "daemon" => \A i \in DOMAIN cfg.targets : New(cfg.targets[i])
  <2>1. PICK unanswered \in SUBSET Remote(cfg.targets) :
          proc' = [proc EXCEPT ![p] =
            [pc |-> IF ok THEN "up" ELSE "failed", cfg |-> cfg, env |-> proc[p].env,
             from |-> proc[p].from,
             notifiers |-> IF ok /\ p = "daemon" THEN buildNotifiers(cfg, unanswered) ELSE <<>>]]
    BY <1>5, Zenon DEF Finish
  <2>. DEFINE r == [pc |-> IF ok THEN "up" ELSE "failed", cfg |-> cfg, env |-> proc[p].env,
                    from |-> proc[p].from,
                    notifiers |-> IF ok /\ p = "daemon" THEN buildNotifiers(cfg, unanswered) ELSE <<>>]
  <2>2. DOMAIN r = {"pc", "cfg", "env", "from", "notifiers"} /\ r.pc \in {"up", "failed"}
    <3>. HIDE DEF cfg, ok
    <3>. QED  OBVIOUS
  <2>3. proc' = [proc EXCEPT ![p] = r]
    BY <2>1, Zenon
  <2>4. UNCHANGED <<file, put, hit>>
    BY <1>5 DEF Finish
  <2>. HIDE DEF r
  <2>. QED  BY <2>2, <2>3, <2>4, OnlyProc
<1>6. ASSUME NEW p \in Procs, Exit(p)
      PROVE  IInv'
  <2>1. /\ proc' = [proc EXCEPT ![p] = Down] /\ UNCHANGED <<file, put, hit>>
    BY <1>6 DEF Exit
  <2>2. DOMAIN Down = {"pc", "cfg", "env", "from", "notifiers"} /\ Down.pc = "down"
    BY DEF Down
  <2>. QED  BY <2>1, <2>2, OnlyProc
<1>. QED  BY <1>1, <1>2, <1>3, <1>4, <1>5, <1>6 DEF Next

\* Load leaves the operator's file as it is unless the file has a bare target or
\* came while a process was migrating the one before: for all files,
\* environments, processes and edits.
THEOREM StartupLeavesFile == Spec => []UntouchedUnlessBare
<1>1. IInv /\ [Next]_vars => IInv'
  BY NextStep
<1>2. IInv => UntouchedUnlessBare
  BY DEF IInv, LeftAlone, UntouchedUnlessBare
<1>. QED  BY InitStep, <1>1, <1>2, PTL DEF Spec

-----------------------------------------------------------------------------

\* What a file says of a setting, and what may have become of it.
Value(f, k) == IF k \in DOMAIN f.set THEN f.set[k] ELSE Default(k)

Faithful(v, o, k) == v = Value(o, k) \/ (k \in Unnamed /\ v = Default(k))

\* The targets ts of a configuration are those of the operator's file, os.
SameTargets(ts, os) ==
  /\ ts = [i \in DOMAIN os |-> ts[i]]
  /\ \A i \in DOMAIN os :
       /\ ts[i].type = os[i].type
       /\ ts[i].params = MergeTarget(os[i]).params
       /\ ts[i].nil => ts[i].params = <<>>

\* The configuration cfg says what the operator's file o says.
Keeps(cfg, o) ==
  /\ DOMAIN cfg = {"set", "targets"} /\ DOMAIN cfg.set = Settings
  /\ \A k \in Settings \ {"runtime.endpoint"} : Faithful(cfg.set[k], o, k)
  /\ cfg.set["runtime.endpoint"] =
       IF "runtime.endpoint" \in DOMAIN o.set THEN o.set["runtime.endpoint"]
       ELSE DefaultEndpoint(cfg.set["runtime.type"])
  /\ SameTargets(cfg.targets, o.targets)

\* Whatever is in the file, merging it gives a configuration that keeps what
\* its origin says, and so do the configurations of the processes.
FileKept == Keeps(Merge(file), origin)

Loading(p) == proc[p].pc \notin {"up", "failed"} => Keeps(proc[p].cfg, proc[p].from)

Started(p) ==
  proc[p].pc = "up" =>
    /\ \E c : Keeps(c, proc[p].from) /\ proc[p].cfg = applyEnvOverrides(c, proc[p].env)
    /\ p = "daemon" => \E unanswered \in SUBSET Remote(proc[p].cfg.targets) :
                         proc[p].notifiers = buildNotifiers(proc[p].cfg, unanswered)

Sources == OperatorFiles \union {NoFile, Torn}

KInv ==
  /\ FileKept /\ origin \in Sources
  /\ \A p \in Procs : Loading(p) /\ Started(p) /\ proc[p].from \in Sources

LEMMA NamesKnown ==
  /\ "runtime.endpoint" \in Settings /\ "runtime.endpoint" \notin Unnamed
  /\ "runtime.type" \in Settings /\ "runtime.type" \notin Unnamed
  /\ "runtime.type" # "runtime.endpoint"
  BY DEF Settings, Unnamed

\* The settings of a merged file.
LEMMA MergeSettings ==
  ASSUME NEW f
  PROVE  /\ DOMAIN Merge(f) = {"set", "targets"} /\ DOMAIN Merge(f).set = Settings
         /\ \A k \in Settings \ {"runtime.endpoint"} : Merge(f).set[k] = Value(f, k)
         /\ Merge(f).set["runtime.endpoint"] =
              IF "runtime.endpoint" \in DOMAIN f.set THEN f.set["runtime.endpoint"]
              ELSE DefaultEndpoint(Merge(f).set["runtime.type"])
<1>. DEFINE base == [k \in Settings |-> Value(f, k)]
            set == IF "runtime.endpoint" \in DOMAIN f.set THEN base
                   ELSE [base EXCEPT !["runtime.endpoint"] = DefaultEndpoint(base["runtime.type"])]
            ts == [i \in DOMAIN f.targets |-> MergeTarget(f.targets[i])]
<1>1. Merge(f) = [set |-> set, targets |-> ts]
  BY Zenon DEF Merge, Value
<1>2. DOMAIN Merge(f) = {"set", "targets"} /\ Merge(f).set = set
  <2>. HIDE DEF set, ts
  <2>. QED  BY <1>1
<1>3. DOMAIN base = Settings /\ \A k \in Settings : base[k] = Value(f, k)
  OBVIOUS
<1>4. /\ DOMAIN set = Settings
      /\ \A k \in Settings \ {"runtime.endpoint"} : set[k] = Value(f, k)
      /\ set["runtime.endpoint"] =
           IF "runtime.endpoint" \in DOMAIN f.set THEN f.set["runtime.endpoint"]
           ELSE DefaultEndpoint(set["runtime.type"])
  <2>. HIDE DEF base
  <2>1. CASE "runtime.endpoint" \in DOMAIN f.set
    BY <1>3, <2>1, NamesKnown DEF Value
  <2>2. CASE "runtime.endpoint" \notin DOMAIN f.set
    <3>1. set = [base EXCEPT !["runtime.endpoint"] = DefaultEndpoint(base["runtime.type"])]
      BY <2>2
    <3>. HIDE DEF set
    <3>. QED  BY <1>3, <2>2, <3>1, NamesKnown
  <2>. QED  BY <2>1, <2>2
<1>. HIDE DEF set
<1>. QED  BY <1>2, <1>4

LEMMA MergeTargets ==
  ASSUME NEW f
  PROVE  Merge(f).targets = [i \in DOMAIN f.targets |-> MergeTarget(f.targets[i])]
  BY Zenon DEF Merge

\* A target without params and legacy fields has none after merging.
LEMMA TargetFacts ==
  ASSUME NEW t
  PROVE  /\ MergeTarget(t).type = t.type
         /\ MergeTarget(t).nil => MergeTarget(t).params = <<>>
         /\ MergeTarget(t).params = IF t.nested THEN t.params
                                    ELSE IF hasLegacyFields(t) THEN toParams(t.flat) ELSE <<>>
<1>1. MergeTarget(t).type = t.type
  BY Zenon DEF MergeTarget
<1>2. MergeTarget(t).nil = (~t.nested /\ ~hasLegacyFields(t))
  BY Zenon DEF MergeTarget
<1>3. MergeTarget(t).params = IF t.nested THEN t.params
                              ELSE IF hasLegacyFields(t) THEN toParams(t.flat) ELSE <<>>
  BY Zenon DEF MergeTarget
<1>4. MergeTarget(t).nil => MergeTarget(t).params = <<>>
  BY <1>2, <1>3, Zenon
<1>. QED  BY <1>1, <1>3, <1>4

\* Merging a file keeps what it says.
LEMMA MergeKeeps ==
  ASSUME NEW f
  PROVE  Keeps(Merge(f), f)
<1>1. SameTargets(Merge(f).targets, f.targets)
  <2>. DEFINE ts == Merge(f).targets
  <2>1. ts = [i \in DOMAIN f.targets |-> MergeTarget(f.targets[i])]
    BY MergeTargets
  <2>. HIDE DEF ts
  <2>2. \A i \in DOMAIN f.targets : ts[i] = MergeTarget(f.targets[i])
    BY <2>1
  <2>3. ts = [i \in DOMAIN f.targets |-> ts[i]]
    BY <2>1
  <2>4. SameTargets(ts, f.targets)
    BY <2>2, <2>3, TargetFacts, Zenon DEF SameTargets
  <2>. QED  BY <2>4 DEF ts
<1>. QED  BY <1>1, MergeSettings DEF Keeps, Faithful

\* So does saving a configuration and merging what was saved.
LEMMA SavedKeeps ==
  ASSUME NEW cfg, NEW o, Keeps(cfg, o), NEW g \in Saved(cfg)
  PROVE  Keeps(Merge(g), o)
<1>. DEFINE set == [k \in Settings \ Unnamed |-> cfg.set[k]]
            tgt(i, empty) == [type |-> cfg.targets[i].type, flat |-> <<>>,
                              nested |-> ~cfg.targets[i].nil \/ empty, params |-> cfg.targets[i].params]
<1>1. PICK empty \in BOOLEAN :
        g = [set |-> set, targets |-> [i \in DOMAIN cfg.targets |-> tgt(i, empty)], state |-> "file"]
  BY Zenon DEF Saved
<1>2. g.set = set /\ g.targets = [i \in DOMAIN cfg.targets |-> tgt(i, empty)]
  <2>. HIDE DEF set, tgt
  <2>. QED  BY <1>1
<1>3. DOMAIN g.set = Settings \ Unnamed /\ \A k \in Settings \ Unnamed : g.set[k] = cfg.set[k]
  <2>. HIDE DEF tgt
  <2>. QED  BY <1>2
<1>4. \A k \in Settings \ {"runtime.endpoint"} :
        Value(g, k) = IF k \in Unnamed THEN Default(k) ELSE cfg.set[k]
  BY <1>3 DEF Value
<1>5. \A k \in Settings \ {"runtime.endpoint"} : Faithful(Merge(g).set[k], o, k)
  BY <1>4, MergeSettings DEF Keeps, Faithful
<1>6. /\ Merge(g).set["runtime.endpoint"] = cfg.set["runtime.endpoint"]
      /\ Merge(g).set["runtime.type"] = cfg.set["runtime.type"]
  BY <1>3, <1>4, MergeSettings, NamesKnown
<1>7. DOMAIN cfg.targets = DOMAIN o.targets
  BY DEF Keeps, SameTargets
<1>8. ASSUME NEW i \in DOMAIN o.targets
      PROVE  MergeTarget(g.targets[i]).type = cfg.targets[i].type
             /\ MergeTarget(g.targets[i]).params = cfg.targets[i].params
  <2>. DEFINE t == g.targets[i]
              c == cfg.targets[i]
  <2>1. t = tgt(i, empty)
    <3>. HIDE DEF tgt
    <3>. QED  BY <1>2, <1>7
  <2>2. t.type = c.type /\ t.flat = <<>> /\ t.params = c.params
    <3>. HIDE DEF t
    <3>. QED  BY <2>1, Zenon
  <2>3. t.nested = (~c.nil \/ empty)
    <3>. HIDE DEF t
    <3>. QED  BY <2>1, Zenon
  <2>4. ~hasLegacyFields(t)
    <3>1. LegacyFields \intersect DOMAIN t.flat = {}
      <4>. HIDE DEF t
      <4>. QED  BY <2>2
    <3>. QED  BY <3>1, Zenon DEF hasLegacyFields
  <2>5. c.nil => c.params = <<>>
    <3>1. SameTargets(cfg.targets, o.targets)
      BY DEF Keeps
    <3>2. \A j \in DOMAIN o.targets : cfg.targets[j].nil => cfg.targets[j].params = <<>>
      BY <3>1, Zenon DEF SameTargets
    <3>. QED  BY <1>8, <3>2, Zenon
  <2>6. ~t.nested => c.params = <<>>
    <3>. HIDE DEF t, c
    <3>. QED  BY <2>3, <2>5, Zenon
  <2>. HIDE DEF t, c
  <2>7. MergeTarget(t).type = t.type /\ MergeTarget(t).params = IF t.nested THEN t.params ELSE <<>>
    BY <2>4, TargetFacts
  <2>. QED  BY <2>2, <2>6, <2>7 DEF t, c
<1>9. SameTargets(Merge(g).targets, o.targets)
  <2>1. DOMAIN g.targets = DOMAIN o.targets
    <3>. HIDE DEF tgt
    <3>. QED  BY <1>2, <1>7
  <2>2. Merge(g).targets = [i \in DOMAIN o.targets |-> MergeTarget(g.targets[i])]
    BY <2>1, MergeTargets
  <2>. DEFINE ts == Merge(g).targets
  <2>3. ts = [i \in DOMAIN o.targets |-> MergeTarget(g.targets[i])]
    BY <2>2
  <2>. HIDE DEF ts
  <2>4. \A i \in DOMAIN o.targets : ts[i] = MergeTarget(g.targets[i])
    BY <2>3
  <2>5. ts = [i \in DOMAIN o.targets |-> ts[i]]
    BY <2>3
  <2>6. ASSUME NEW i \in DOMAIN o.targets
        PROVE  /\ ts[i].type = o.targets[i].type
               /\ ts[i].params = MergeTarget(o.targets[i]).params
               /\ ts[i].nil => ts[i].params = <<>>
    <3>1. /\ cfg.targets[i].type = o.targets[i].type
          /\ cfg.targets[i].params = MergeTarget(o.targets[i]).params
      BY Zenon DEF Keeps, SameTargets
    <3>2. ts[i] = MergeTarget(g.targets[i])
      BY <2>4
    <3>. QED  BY <1>8, <3>1, <3>2, TargetFacts, Zenon
  <2>7. SameTargets(ts, o.targets)
    BY <2>5, <2>6, Zenon DEF SameTargets
  <2>. QED  BY <2>7 DEF ts
<1>. QED  BY <1>5, <1>6, <1>9, MergeSettings DEF Keeps

-----------------------------------------------------------------------------

\* A step that moves one process on.
LEMMA OneProc ==
  ASSUME IInv, KInv, NEW q \in Procs, NEW r, proc' = [proc EXCEPT ![q] = r],
         r.pc \notin {"up", "failed"} => Keeps(r.cfg, r.from),
         r.pc # "up", r.from \in Sources, FileKept', origin' \in Sources
  PROVE  KInv'
<1>1. proc'[q] = r /\ \A p \in Procs \ {q} : proc'[p] = proc[p]
  BY DEF IInv, Shape
<1>2. ASSUME NEW p \in Procs PROVE Loading(p)' /\ Started(p)' /\ proc'[p].from \in Sources
  <2>1. CASE p = q
    BY <1>1, <2>1 DEF Loading, Started
  <2>2. CASE p # q
    <3>1. Loading(p) /\ Started(p) /\ proc[p].from \in Sources /\ proc'[p] = proc[p]
      BY <1>1, <2>2 DEF KInv
    <3>. QED  BY <3>1, Zenon DEF Loading, Started
  <2>. QED  BY <2>1, <2>2
<1>. QED  BY <1>2 DEF KInv

LEMMA KInit == Init => KInv
<1>. SUFFICES ASSUME Init PROVE KInv
  OBVIOUS
<1>1. origin = file /\ origin \in Sources
  BY DEF Init, Sources
<1>2. FileKept
  BY <1>1, MergeKeeps DEF FileKept
<1>3. ASSUME NEW p \in Procs PROVE Loading(p) /\ Started(p) /\ proc[p].from \in Sources
  <2>1. proc[p] = Down
    BY DEF Init
  <2>2. Down.pc = "down" /\ Down.cfg = Merge(NoFile) /\ Down.from = NoFile
    BY DEF Down, NoCfg
  <2>3. Keeps(Merge(NoFile), NoFile) /\ NoFile \in Sources
    BY MergeKeeps DEF Sources
  <2>. QED  BY <2>1, <2>2, <2>3 DEF Loading, Started
<1>. QED  BY <1>1, <1>2, <1>3 DEF KInv

\* A step that only moves a process's pc on to one of the early states.
LEMMA PcStep ==
  ASSUME IInv, KInv, NEW q \in Procs, NEW x, x \notin {"up", "failed"},
         proc[q].pc \notin {"up", "failed"},
         proc' = [proc EXCEPT ![q].pc = x], FileKept', origin' \in Sources
  PROVE  KInv'
<1>. DEFINE r == [proc[q] EXCEPT !.pc = x]
<1>1. proc' = [proc EXCEPT ![q] = r]
  OBVIOUS
<1>2. DOMAIN proc[q] = {"pc", "cfg", "env", "from", "notifiers"}
  BY DEF IInv, Shape
<1>3. r.pc = x /\ r.cfg = proc[q].cfg /\ r.from = proc[q].from
  BY <1>2
<1>4. Keeps(proc[q].cfg, proc[q].from) /\ proc[q].from \in Sources
  BY DEF KInv, Loading
<1>. HIDE DEF r
<1>. QED  BY <1>1, <1>3, <1>4, OneProc

LEMMA KNext ==
  ASSUME IInv, KInv, [Next]_vars
  PROVE  KInv'
<1>1. CASE UNCHANGED vars
  BY <1>1, Zenon DEF vars, KInv, FileKept, Loading, Started
<1>2. ASSUME file' = file, origin' = origin PROVE FileKept' /\ origin' \in Sources
  BY <1>2 DEF KInv, FileKept
<1>3. ASSUME file' = origin', origin' \in Sources PROVE FileKept' /\ origin' \in Sources
  BY <1>3, MergeKeeps DEF FileKept
<1>4. ASSUME NEW f \in OperatorFiles, Edit(f) PROVE KInv'
  <2>1. FileKept' /\ origin' \in Sources /\ proc' = proc
    BY <1>3, <1>4 DEF Edit, Sources
  <2>. QED  BY <2>1, Zenon DEF KInv, Loading, Started
<1>5. ASSUME NEW p \in Procs, NEW env \in Envs, NEW explicit \in BOOLEAN, Read(p, env, explicit)
      PROVE  KInv'
  <2>1. PICK pc : /\ pc # "up"
                  /\ proc' = [proc EXCEPT ![p] = [pc |-> pc, cfg |-> Merge(file), env |-> env,
                                                   from |-> origin, notifiers |-> <<>>]]
    <3>. DEFINE pc == CASE file.state = "missing" /\ explicit          -> "failed"
                        [] file.state = "garbled" \/ ~Parses(file.set) -> "failed"
                        [] NeedsMigration(Merge(file))                 -> "migrating"
                        [] OTHER                                       -> "merged"
    <3>1. pc # "up"
      OBVIOUS
    <3>2. proc' = [proc EXCEPT ![p] = [pc |-> pc, cfg |-> Merge(file), env |-> env,
                                        from |-> origin, notifiers |-> <<>>]]
      BY <1>5, Zenon DEF Read
    <3>. HIDE DEF pc
    <3>. QED  BY <3>1, <3>2
  <2>. DEFINE r == [pc |-> pc, cfg |-> Merge(file), env |-> env, from |-> origin, notifiers |-> <<>>]
  <2>2. r.pc # "up" /\ r.cfg = Merge(file) /\ r.from = origin
    BY <2>1
  <2>3. proc' = [proc EXCEPT ![p] = r]
    BY <2>1
  <2>4. FileKept' /\ origin' \in Sources /\ Keeps(Merge(file), origin) /\ origin \in Sources
    BY <1>2, <1>5 DEF Read, KInv, FileKept
  <2>. HIDE DEF r
  <2>. QED  BY <2>2, <2>3, <2>4, OneProc
<1>6. ASSUME NEW p \in Procs, PrintMigrated(p) PROVE KInv'
  <2>1. FileKept' /\ origin' \in Sources
    BY <1>2, <1>6 DEF PrintMigrated
  <2>2. proc[p].pc \in {"migrating", "truncated"} /\ proc' = [proc EXCEPT ![p].pc = "merged"]
    BY <1>6 DEF PrintMigrated
  <2>3. "merged" \notin {"up", "failed"} /\ "truncated" \notin {"up", "failed"}
        /\ proc[p].pc \notin {"up", "failed"}
    BY <2>2
  <2>. QED  BY <2>1, <2>2, <2>3, PcStep, Zenon
<1>7. ASSUME NEW p \in Procs, Truncate(p) PROVE KInv'
  <2>1. FileKept' /\ origin' \in Sources
    <3>1. file' = Torn /\ origin' = Torn /\ Torn \in Sources
      BY <1>7 DEF Truncate, Sources
    <3>. QED  BY <1>3, <3>1
  <2>2. proc[p].pc = "migrating" /\ proc' = [proc EXCEPT ![p].pc = "truncated"]
    BY <1>7 DEF Truncate
  <2>3. "merged" \notin {"up", "failed"} /\ "truncated" \notin {"up", "failed"}
        /\ proc[p].pc \notin {"up", "failed"}
    BY <2>2
  <2>. QED  BY <2>1, <2>2, <2>3, PcStep, Zenon
<1>8. ASSUME NEW p \in Procs, Write(p) PROVE KInv'
  <2>1. Keeps(proc[p].cfg, proc[p].from) /\ proc[p].from \in Sources
    BY <1>8 DEF Write, KInv, Loading
  <2>2. FileKept' /\ origin' \in Sources
    <3>1. CASE file' \in Saved(proc[p].cfg) /\ origin' = proc[p].from
      BY <2>1, <3>1, SavedKeeps DEF FileKept
    <3>2. CASE file' = file /\ origin' = origin
      BY <1>2, <3>2
    <3>. QED  BY <1>8, <3>1, <3>2 DEF Write
  <2>3. proc[p].pc = "truncated" /\ proc' = [proc EXCEPT ![p].pc = "merged"]
    BY <1>8 DEF Write
  <2>4. "merged" \notin {"up", "failed"} /\ proc[p].pc \notin {"up", "failed"}
    BY <2>3
  <2>. QED  BY <2>2, <2>3, <2>4, PcStep, Zenon
<1>9. ASSUME NEW p \in Procs, WriteFail(p) PROVE KInv'
  <2>1. FileKept' /\ origin' \in Sources
    BY <1>2, <1>9 DEF WriteFail
  <2>2. proc[p].pc \in {"migrating", "truncated"} /\ proc' = [proc EXCEPT ![p].pc = "merged"]
    BY <1>9 DEF WriteFail
  <2>3. "merged" \notin {"up", "failed"} /\ "truncated" \notin {"up", "failed"}
        /\ proc[p].pc \notin {"up", "failed"}
    BY <2>2
  <2>. QED  BY <2>1, <2>2, <2>3, PcStep, Zenon
<1>10. ASSUME NEW p \in Procs, Finish(p) PROVE KInv'
  <2>. DEFINE cfg == applyEnvOverrides(proc[p].cfg, proc[p].env)
              ok  == /\ Parses(proc[p].env) /\ validate(cfg)
                     /\ p # "healthcheck" => buildObserver(cfg)
                     /\ p = "daemon" => \A i \in DOMAIN cfg.targets : New(cfg.targets[i])
  <2>1. PICK unanswered \in SUBSET Remote(cfg.targets) :
          proc' = [proc EXCEPT ![p] =
            [pc |-> IF ok THEN "up" ELSE "failed", cfg |-> cfg, env |-> proc[p].env,
             from |-> proc[p].from,
             notifiers |-> IF ok /\ p = "daemon" THEN buildNotifiers(cfg, unanswered) ELSE <<>>]]
    BY <1>10, Zenon DEF Finish
  <2>2. Keeps(proc[p].cfg, proc[p].from) /\ proc[p].from \in Sources
    BY <1>10 DEF Finish, KInv, Loading
  <2>3. FileKept' /\ origin' \in Sources
    BY <1>2, <1>10 DEF Finish
  <2>. DEFINE r == [pc |-> IF ok THEN "up" ELSE "failed", cfg |-> cfg, env |-> proc[p].env,
                    from |-> proc[p].from,
                    notifiers |-> IF ok /\ p = "daemon" THEN buildNotifiers(cfg, unanswered) ELSE <<>>]
  <2>4. /\ r.pc \in {"up", "failed"} /\ r.cfg = cfg /\ r.env = proc[p].env /\ r.from = proc[p].from
        /\ r.pc = "up" /\ p = "daemon" => r.notifiers = buildNotifiers(cfg, unanswered)
    <3>. HIDE DEF cfg, ok
    <3>. QED  OBVIOUS
  <2>5. /\ proc'[p] = r /\ \A q \in Procs \ {p} : proc'[q] = proc[q]
    <3>1. proc' = [proc EXCEPT ![p] = r]
      BY <2>1, Zenon
    <3>. HIDE DEF r
    <3>. QED  BY <3>1 DEF IInv, Shape
  <2>. HIDE DEF r
  <2>6. Loading(p)' /\ Started(p)' /\ proc'[p].from \in Sources
    <3>1. Loading(p)' /\ proc'[p].from \in Sources
      BY <2>2, <2>4, <2>5 DEF Loading
    <3>2. Started(p)'
      <4>1. Keeps(proc[p].cfg, r.from) /\ r.cfg = applyEnvOverrides(proc[p].cfg, r.env)
        BY <2>2, <2>4, Zenon
      <4>2. p = "daemon" /\ r.pc = "up" => r.notifiers = buildNotifiers(r.cfg, unanswered)
        BY <2>4, Zenon
      <4>3. unanswered \in SUBSET Remote(r.cfg.targets)
        BY <2>4, Zenon
      <4>. HIDE DEF cfg
      <4>. QED  BY <2>5, <4>1, <4>2, <4>3, Zenon DEF Started
    <3>. QED  BY <3>1, <3>2
  <2>7. ASSUME NEW q \in Procs \ {p} PROVE Loading(q)' /\ Started(q)' /\ proc'[q].from \in Sources
    <3>1. Loading(q) /\ Started(q) /\ proc[q].from \in Sources /\ proc'[q] = proc[q]
      BY <2>5 DEF KInv
    <3>. QED  BY <3>1, Zenon DEF Loading, Started
  <2>. QED  BY <2>3, <2>6, <2>7 DEF KInv
<1>11. ASSUME NEW p \in Procs, Exit(p) PROVE KInv'
  <2>1. FileKept' /\ origin' \in Sources
    BY <1>2, <1>11 DEF Exit
  <2>2. Down.pc = "down" /\ Down.cfg = Merge(NoFile) /\ Down.from = NoFile
    BY DEF Down, NoCfg
  <2>3. Keeps(Merge(NoFile), NoFile) /\ NoFile \in Sources
    BY MergeKeeps DEF Sources
  <2>. QED  BY <1>11, <2>1, <2>2, <2>3, OneProc DEF Exit
<1>. QED  BY <1>1, <1>4, <1>5, <1>6, <1>7, <1>8, <1>9, <1>10, <1>11 DEF Next

\* The configuration a process works with, given what it loaded.
LEMMA OverrideFacts ==
  ASSUME NEW c, NEW env, DOMAIN c = {"set", "targets"}
  PROVE  LET d == applyEnvOverrides(c, env)
         IN  /\ d.targets = c.targets
             /\ \A k \in Settings \ Overridden(env) : d.set[k] = c.set[k]
             /\ "runtime.endpoint" \notin DOMAIN env /\ "runtime.type" \in DOMAIN env =>
                  d.set["runtime.endpoint"] = DefaultEndpoint(d.set["runtime.type"])
<1>. DEFINE over == [k \in Settings |-> IF k \in DOMAIN env THEN env[k] ELSE c.set[k]]
            set == IF "runtime.type" \in DOMAIN env /\ "runtime.endpoint" \notin DOMAIN env
                   THEN [over EXCEPT !["runtime.endpoint"] = DefaultEndpoint(env["runtime.type"])]
                   ELSE over
            d == applyEnvOverrides(c, env)
<1>1. d = [c EXCEPT !.set = set]
  BY Zenon DEF applyEnvOverrides
<1>2. d.targets = c.targets /\ d.set = set
  <2>. HIDE DEF set, d
  <2>. QED  BY <1>1
<1>3. DOMAIN over = Settings /\ \A k \in Settings : over[k] = IF k \in DOMAIN env THEN env[k] ELSE c.set[k]
  OBVIOUS
<1>4. CASE "runtime.type" \in DOMAIN env /\ "runtime.endpoint" \notin DOMAIN env
  <2>1. set = [over EXCEPT !["runtime.endpoint"] = DefaultEndpoint(env["runtime.type"])]
    BY <1>4
  <2>. HIDE DEF set, over, d
  <2>2. /\ set["runtime.endpoint"] = DefaultEndpoint(env["runtime.type"])
        /\ set["runtime.type"] = env["runtime.type"]
        /\ \A k \in Settings \ Overridden(env) : set[k] = c.set[k]
    BY <1>3, <1>4, <2>1, NamesKnown DEF Overridden
  <2>. QED  BY <1>2, <2>2 DEF d
<1>5. CASE ~("runtime.type" \in DOMAIN env /\ "runtime.endpoint" \notin DOMAIN env)
  <2>1. set = over
    BY <1>5
  <2>. HIDE DEF set, over, d
  <2>2. \A k \in Settings \ Overridden(env) : set[k] = c.set[k]
    BY <1>3, <2>1 DEF Overridden
  <2>. QED  BY <1>2, <1>5, <2>2 DEF d
<1>. QED  BY <1>4, <1>5

LEMMA KeepsAlways == Spec => [](IInv /\ KInv)
<1>1. Init => IInv /\ KInv
  BY InitStep, KInit
<1>2. IInv /\ KInv /\ [Next]_vars => (IInv /\ KInv)'
  BY NextStep, KNext
<1>. QED  BY <1>1, <1>2, PTL DEF Spec

\* A process that works has what the operator's file asks for of every setting
\* that its environment does not override, the endpoint included, or the default
\* where saving loses the name.
THEOREM StartupKeepsSettings == Spec => []SettingsKept
<1>1. KInv => SettingsKept
  <2>. SUFFICES ASSUME KInv, NEW p \in Procs, proc[p].pc = "up",
                       NEW k \in Settings \ Overridden(proc[p].env)
                PROVE  proc[p].cfg.set[k] \in {Wanted(proc[p].from, k)} \union
                                               (IF k \in Unnamed THEN {Default(k)} ELSE {})
    BY DEF SettingsKept, Working
  <2>. DEFINE o == proc[p].from
  <2>1. PICK c : Keeps(c, o) /\ proc[p].cfg = applyEnvOverrides(c, proc[p].env)
    BY DEF KInv, Started
  <2>2. proc[p].cfg.set[k] = c.set[k]
    BY <2>1, OverrideFacts DEF Keeps
  <2>. HIDE DEF o
  <2>3. CASE k # "runtime.endpoint"
    <3>1. Faithful(c.set[k], o, k)
      BY <2>1, <2>3 DEF Keeps
    <3>. QED  BY <2>2, <2>3, <3>1 DEF Faithful, Value, Wanted, o
  <2>4. CASE k = "runtime.endpoint"
    <3>1. c.set[k] = IF k \in DOMAIN o.set THEN o.set[k] ELSE DefaultEndpoint(c.set["runtime.type"])
      BY <2>1, <2>4 DEF Keeps
    <3>2. c.set["runtime.type"] = Value(o, "runtime.type")
      BY <2>1, NamesKnown DEF Keeps, Faithful
    <3>3. Default("runtime.type") = "docker"
      BY DEF Default
    <3>4. Default(k) = DefaultEndpoint("docker")
      BY <2>4 DEF Default
    <3>5. c.set[k] = Wanted(o, k)
      BY <2>4, <3>1, <3>2, <3>3, <3>4 DEF Value, Wanted
    <3>. QED  BY <2>2, <3>5 DEF o
  <2>. QED  BY <2>3, <2>4
<1>. QED  BY KeepsAlways, <1>1, PTL

\* Where nobody chose an endpoint, or the environment chose the runtime alone, the
\* endpoint is the socket of the runtime in use.
THEOREM StartupEndpoint == Spec => []EndpointFits
<1>1. KInv => EndpointFits
  <2>. SUFFICES ASSUME KInv, NEW p \in Procs, proc[p].pc = "up",
                       "runtime.endpoint" \notin DOMAIN proc[p].env,
                       \/ "runtime.endpoint" \notin DOMAIN proc[p].from.set
                       \/ "runtime.type" \in DOMAIN proc[p].env
                PROVE  proc[p].cfg.set["runtime.endpoint"] = DefaultEndpoint(proc[p].cfg.set["runtime.type"])
    BY DEF EndpointFits, Working
  <2>1. PICK c : Keeps(c, proc[p].from) /\ proc[p].cfg = applyEnvOverrides(c, proc[p].env)
    BY DEF KInv, Started
  <2>2. CASE "runtime.type" \in DOMAIN proc[p].env
    BY <2>1, <2>2, OverrideFacts DEF Keeps
  <2>3. CASE "runtime.type" \notin DOMAIN proc[p].env
    <3>1. {"runtime.endpoint", "runtime.type"} \subseteq Settings \ Overridden(proc[p].env)
      BY <2>3, NamesKnown DEF Overridden
    <3>2. /\ proc[p].cfg.set["runtime.endpoint"] = c.set["runtime.endpoint"]
          /\ proc[p].cfg.set["runtime.type"] = c.set["runtime.type"]
      BY <2>1, <3>1, OverrideFacts DEF Keeps
    <3>. QED  BY <2>1, <2>3, <3>2 DEF Keeps
  <2>. QED  BY <2>2, <2>3
<1>. QED  BY KeepsAlways, <1>1, PTL

-----------------------------------------------------------------------------

\* The parameters that decide whether a legacy target can be built are legacy
\* fields, and no other type can be built from legacy fields alone.
LEMMA LegacyBuilds ==
  ASSUME NEW type, NEW flat
  PROVE  Builds(type, toParams(flat)) <=> type \in {"ntfy", "webhook"} /\ Builds(type, flat)
<1>. DEFINE q == toParams(flat)
<1>1. /\ DOMAIN q = LegacyFields \intersect DOMAIN flat
      /\ \A k \in DOMAIN q : q[k] = flat[k]
  BY DEF toParams
<1>. HIDE DEF q
<1>2. /\ "topic" \in LegacyFields /\ "username_file" \in LegacyFields
      /\ "password_file" \in LegacyFields /\ "url" \in LegacyFields
  BY DEF LegacyFields
<1>3. ntfy(q) <=> ntfy(flat)
  BY <1>1, <1>2 DEF ntfy, Given, Sound
<1>4. webhook(q) <=> webhook(flat)
  BY <1>1, <1>2 DEF webhook, Given
<1>5. {"webhook_url_file", "token_file", "webhook", "app_token_file", "user_id", "smtp_host",
       "access_key_id_file", "channel"} \intersect DOMAIN q = {}
  BY <1>1 DEF LegacyFields
<1>6. /\ ~discord(q) /\ ~gotify(q) /\ ~slack(q) /\ ~telegram(q) /\ ~msteams(q) /\ ~pushover(q)
      /\ ~matrix(q) /\ ~email(q) /\ ~amazonsns(q) /\ ~pagerduty(q) /\ ~rocketchat(q) /\ ~mattermost(q)
  BY <1>5 DEF discord, gotify, slack, telegram, msteams, pushover, matrix, email, amazonsns,
              pagerduty, rocketchat, mattermost, Secret, Given
<1>7. Builds(type, q) <=> (type = "ntfy" /\ ntfy(q)) \/ (type = "webhook" /\ webhook(q))
  BY <1>6 DEF Builds
<1>8. CASE type \notin {"ntfy", "webhook"}
  BY <1>7, <1>8 DEF q
<1>9. CASE type = "ntfy"
  BY <1>3, <1>7, <1>9 DEF Builds, q
<1>10. CASE type = "webhook"
  BY <1>4, <1>7, <1>10 DEF Builds, q
<1>. QED  BY <1>8, <1>9, <1>10

\* Nothing can be built from no parameters, nor from none that are legacy
\* fields where ntfy and webhook are concerned.
LEMMA BareBuilds ==
  ASSUME NEW type
  PROVE  /\ ~Builds(type, <<>>)
         /\ \A flat : LegacyFields \intersect DOMAIN flat = {} =>
              ~(type \in {"ntfy", "webhook"} /\ Builds(type, flat))
<1>1. ASSUME NEW q, {"topic", "url"} \intersect DOMAIN q = {} PROVE ~ntfy(q) /\ ~webhook(q)
  BY <1>1 DEF ntfy, webhook, Given
<1>2. \A flat : LegacyFields \intersect DOMAIN flat = {} => {"topic", "url"} \intersect DOMAIN flat = {}
  BY DEF LegacyFields
<1>3. \A flat : LegacyFields \intersect DOMAIN flat = {} =>
        ~(type \in {"ntfy", "webhook"} /\ Builds(type, flat))
  BY <1>1, <1>2 DEF Builds
<1>. DEFINE e == <<>>
<1>4. DOMAIN e = {}
  OBVIOUS
<1>. HIDE DEF e
<1>5. /\ ~discord(e) /\ ~gotify(e) /\ ~slack(e) /\ ~telegram(e) /\ ~msteams(e) /\ ~pushover(e)
      /\ ~matrix(e) /\ ~email(e) /\ ~amazonsns(e) /\ ~pagerduty(e) /\ ~rocketchat(e) /\ ~mattermost(e)
  BY <1>4 DEF discord, gotify, slack, telegram, msteams, pushover, matrix, email, amazonsns,
              pagerduty, rocketchat, mattermost, Secret, Given
<1>6. ~ntfy(e) /\ ~webhook(e)
  BY <1>1, <1>4
<1>7. ~Builds(type, e)
  BY <1>5, <1>6 DEF Builds
<1>. QED  BY <1>3, <1>7 DEF e

\* A merged target can be built exactly if the operator's target asks for one.
LEMMA AskedBuilds ==
  ASSUME NEW t
  PROVE  Asked(t) <=> t.type = "stdout" \/ Builds(t.type, MergeTarget(t).params)
<1>. DEFINE m == MergeTarget(t).params
<1>1. m = IF t.nested THEN t.params ELSE IF hasLegacyFields(t) THEN toParams(t.flat) ELSE <<>>
  BY TargetFacts
<1>. HIDE DEF m
<1>2. CASE t.nested
  <2>1. m = t.params
    BY <1>1, <1>2, Zenon
  <2>. QED  BY <1>2, <2>1, Zenon DEF Asked, m
<1>3. CASE ~t.nested
  <2>1. Asked(t) <=> t.type = "stdout" \/ Builds(t.type, IF t.type \in {"ntfy", "webhook"} THEN t.flat ELSE <<>>)
    BY <1>3, Zenon DEF Asked
  <2>2. Asked(t) <=> t.type = "stdout" \/ (t.type \in {"ntfy", "webhook"} /\ Builds(t.type, t.flat))
    BY <2>1, BareBuilds, Zenon
  <2>3. CASE hasLegacyFields(t)
    <3>1. m = toParams(t.flat)
      BY <1>1, <1>3, <2>3, Zenon
    <3>2. Builds(t.type, m) <=> t.type \in {"ntfy", "webhook"} /\ Builds(t.type, t.flat)
      BY <3>1, LegacyBuilds
    <3>. QED  BY <2>2, <3>2, Zenon DEF m
  <2>4. CASE ~hasLegacyFields(t)
    <3>1. m = <<>>
      BY <1>1, <1>3, <2>4, Zenon
    <3>2. LegacyFields \intersect DOMAIN t.flat = {}
      BY <1>3, <2>4, Zenon DEF hasLegacyFields
    <3>3. ~Builds(t.type, m)
      BY <3>1, BareBuilds, Zenon
    <3>4. ~(t.type \in {"ntfy", "webhook"} /\ Builds(t.type, t.flat))
      BY <3>2, BareBuilds, Zenon
    <3>. QED  BY <2>2, <3>3, <3>4, Zenon DEF m
  <2>. QED  BY <2>3, <2>4, Zenon
<1>. QED  BY <1>2, <1>3, Zenon

\* A merged target calls its service only if the operator's target does.
LEMMA RemoteAsked ==
  ASSUME NEW t, CallsService(t.type, MergeTarget(t).params)
  PROVE  CallsService(t.type, t.params) /\ t.type # "stdout"
<1>. DEFINE m == MergeTarget(t).params
<1>1. m = IF t.nested THEN t.params ELSE IF hasLegacyFields(t) THEN toParams(t.flat) ELSE <<>>
  BY TargetFacts
<1>2. "login_id_file" \notin LegacyFields
  BY DEF LegacyFields
<1>3. t.type = "telegram" \/ (t.type = "mattermost" /\ "login_id_file" \in DOMAIN m)
  BY Zenon DEF CallsService
<1>. HIDE DEF m
<1>4. CASE t.type = "telegram"
  BY <1>4 DEF CallsService
<1>5. CASE t.type = "mattermost" /\ "login_id_file" \in DOMAIN m
  <2>1. "login_id_file" \notin DOMAIN toParams(t.flat) /\ "login_id_file" \notin DOMAIN <<>>
    BY <1>2 DEF toParams
  <2>2. m = t.params
    BY <1>1, <1>5, <2>1, Zenon
  <2>. QED  BY <1>5, <2>2 DEF CallsService
<1>. QED  BY <1>3, <1>4, <1>5

\* A sequence without indices is empty.
LEMMA EmptyDomain ==
  ASSUME NEW S, NEW s \in Seq(S)
  PROVE  s = <<>> <=> DOMAIN s = {}
  OBVIOUS

\* Files have sequences of targets.
LEMMA SourceTargets ==
  ASSUME NEW o \in Sources
  PROVE  o.targets = <<>> <=> DOMAIN o.targets = {}
<1>1. CASE o \in OperatorFiles
  <2>. DEFINE S == {o.targets[i] : i \in DOMAIN o.targets}
  <2>1. o.targets \in Seq(S)
    BY <1>1, FilesAssumption, Zenon
  <2>. QED  BY <2>1, EmptyDomain, Zenon
<1>2. CASE o \in {NoFile, Torn}
  <2>1. NoFile.targets = <<>> /\ Torn.targets = <<>>
    BY DEF NoFile, Torn
  <2>. QED  BY <1>2, <2>1
<1>. QED  BY <1>1, <1>2 DEF Sources

\* The notifiers built from a configuration are those the file asks for.
LEMMA BuiltAsAsked ==
  ASSUME NEW cfg, NEW o \in Sources, SameTargets(cfg.targets, o.targets),
         NEW unanswered \in SUBSET Remote(cfg.targets)
  PROVE  LET kept == {i \in DOMAIN o.targets : Asked(o.targets[i]) /\ i \notin unanswered}
         IN  /\ unanswered \in SUBSET Remote(o.targets)
             /\ buildNotifiers(cfg, unanswered) =
                  IF o.targets = <<>> THEN <<"stdout">>
                  ELSE Squeeze([i \in kept |-> o.targets[i].type])
<1>. DEFINE ts == cfg.targets
            os == o.targets
            kept == {i \in DOMAIN os : Asked(os[i]) /\ i \notin unanswered}
            built == {j \in DOMAIN ts : \/ ts[j].type = "stdout"
                                        \/ Builds(ts[j].type, ts[j].params) /\ j \notin unanswered}
<1>1. ts = [i \in DOMAIN os |-> ts[i]] /\ DOMAIN ts = DOMAIN os
  BY DEF SameTargets
<1>2. \A i \in DOMAIN os : ts[i].type = os[i].type /\ ts[i].params = MergeTarget(os[i]).params
  BY Zenon DEF SameTargets
<1>. HIDE DEF ts, os
<1>3. ASSUME NEW i \in unanswered
      PROVE  i \in DOMAIN os /\ CallsService(os[i].type, os[i].params) /\ os[i].type # "stdout"
  <2>1. i \in DOMAIN ts /\ CallsService(ts[i].type, ts[i].params)
    BY <1>3 DEF Remote, ts
  <2>2. i \in DOMAIN os /\ CallsService(os[i].type, MergeTarget(os[i]).params)
    BY <1>1, <1>2, <2>1
  <2>. QED  BY <2>2, RemoteAsked
<1>4. unanswered \in SUBSET Remote(os)
  BY <1>3 DEF Remote
<1>5. built = kept
  <2>1. ASSUME NEW i \in DOMAIN os
        PROVE  (ts[i].type = "stdout" \/ (Builds(ts[i].type, ts[i].params) /\ i \notin unanswered))
               <=> (Asked(os[i]) /\ i \notin unanswered)
    <3>1. Asked(os[i]) <=> ts[i].type = "stdout" \/ Builds(ts[i].type, ts[i].params)
      BY <1>2, AskedBuilds, Zenon
    <3>2. i \in unanswered => ts[i].type # "stdout"
      BY <1>2, <1>3
    <3>. QED  BY <3>1, <3>2, Zenon
  <2>. QED  BY <1>1, <2>1, Zenon
<1>6. ts = <<>> <=> os = <<>>
  <2>1. os = <<>> <=> DOMAIN os = {}
    BY SourceTargets DEF os
  <2>2. ts = <<>> <=> DOMAIN ts = {}
    BY <1>1
  <2>. QED  BY <1>1, <2>1, <2>2
<1>7. buildNotifiers(cfg, unanswered) = IF ts = <<>> THEN <<"stdout">>
                                       ELSE Squeeze([i \in built |-> ts[i].type])
  BY Zenon DEF buildNotifiers, ts
<1>8. [i \in built |-> ts[i].type] = [i \in kept |-> os[i].type]
  <2>1. \A i \in kept : ts[i].type = os[i].type
    BY <1>2
  <2>. HIDE DEF kept, built
  <2>. QED  BY <1>5, <2>1
<1>. HIDE DEF built
<1>. QED  BY <1>4, <1>6, <1>7, <1>8 DEF os

\* The daemon sends to exactly the usable targets of the operator's file.
THEOREM StartupNotifiers == Spec => []NotifiersSurvive
<1>1. KInv => NotifiersSurvive
  <2>. SUFFICES ASSUME KInv, NEW p \in Procs, p = "daemon", proc[p].pc = "up"
                PROVE  LET asked == proc[p].from.targets
                           kept(lost) == {i \in DOMAIN asked : Asked(asked[i]) /\ i \notin lost}
                       IN  IF asked = <<>> THEN proc[p].notifiers = <<"stdout">>
                           ELSE \E lost \in SUBSET Remote(asked) :
                                  proc[p].notifiers = Squeeze([i \in kept(lost) |-> asked[i].type])
    BY Zenon DEF NotifiersSurvive, Working
  <2>. DEFINE cfg == proc[p].cfg
              o == proc[p].from
  <2>1. PICK c : Keeps(c, o) /\ cfg = applyEnvOverrides(c, proc[p].env)
    BY DEF KInv, Started
  <2>2. SameTargets(cfg.targets, o.targets)
    BY <2>1, OverrideFacts DEF Keeps
  <2>3. PICK unanswered \in SUBSET Remote(cfg.targets) :
          proc[p].notifiers = buildNotifiers(cfg, unanswered)
    BY DEF KInv, Started
  <2>4. o \in Sources
    BY DEF KInv
  <2>. DEFINE kept == {i \in DOMAIN o.targets : Asked(o.targets[i]) /\ i \notin unanswered}
  <2>. HIDE DEF cfg, o
  <2>5. /\ unanswered \in SUBSET Remote(o.targets)
        /\ proc[p].notifiers = IF o.targets = <<>> THEN <<"stdout">>
                               ELSE Squeeze([i \in kept |-> o.targets[i].type])
    BY <2>2, <2>3, <2>4, BuiltAsAsked
  <2>. QED  BY <2>5, Zenon DEF o
<1>. QED  BY KeepsAlways, <1>1, PTL
=============================================================================
