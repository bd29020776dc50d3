--------------------------- MODULE ObserverProofs ----------------------------
(***************************************************************************)
(* What a check stores and reports, what its gauges show, and what becomes *)
(* of its events once the daemon hands them to the pipeline, for any       *)
(* images, container lists, registry contents, pool size and processes.    *)
(***************************************************************************)
EXTENDS Gauges, Daemon, FiniteSetTheorems, SequenceTheorems, WellFoundedInduction, TLAPS

-----------------------------------------------------------------------------

\* A non-empty set of numbers has a smallest one.
LEMMA SmallestElement ==
  ASSUME NEW S \in SUBSET Nat, S # {}
  PROVE  \E i \in S : \A j \in S : i <= j
<1>. DEFINE R == {ss \in Nat \X Nat : ss[1] < ss[2]}
<1>1. IsWellFoundedOn(R, Nat)
  BY NatLessThanWellFounded, Zenon DEF OpToRel
<1>2. PICK x \in S : \A y \in S : <<y, x>> \notin R
  <2>. HIDE DEF R
  <2>. QED  BY <1>1, WFMin
<1>3. ASSUME NEW j \in S PROVE x <= j
  <2>1. <<j, x>> \in Nat \X Nat /\ <<j, x>>[1] = j /\ <<j, x>>[2] = x
    OBVIOUS
  <2>2. ~(j < x)
    BY <1>2, <2>1, Zenon
  <2>. QED  BY <2>2
<1>. QED  BY <1>2, <1>3

\* A bounded one has a largest one.
LEMMA LargestElement ==
  ASSUME NEW n \in Nat, NEW S \in SUBSET (1..n), S # {}
  PROVE  \E i \in S : \A j \in S : j <= i
<1>. DEFINE D == {n - i : i \in S}
<1>1. D \in SUBSET Nat /\ D # {}
  <2>1. \A i \in S : n - i \in Nat
    OBVIOUS
  <2>. QED  BY <2>1
<1>2. PICK d \in D : \A e \in D : d <= e
  <2>. HIDE DEF D
  <2>. QED  BY <1>1, SmallestElement
<1>3. PICK i \in S : d = n - i
  OBVIOUS
<1>4. ASSUME NEW j \in S PROVE j <= i
  <2>1. n - j \in D
    OBVIOUS
  <2>2. n - i <= n - j
    BY <1>2, <1>3, <2>1
  <2>. QED  BY <2>2
<1>. QED  BY <1>4

\* Sets of indices are finite.
LEMMA IndexSetsFinite ==
  ASSUME NEW n \in Nat, NEW S \in SUBSET (1..n)
  PROVE  IsFiniteSet(S) /\ Cardinality(S) \in Nat
<1>1. IsFiniteSet(1..n)
  BY FS_Interval
<1>. QED  BY <1>1, FS_Subset, FS_CardinalityType

\* Every place in a set of indices is taken: the smallest index that has at
\* least n others up to it has exactly n.
LEMMA NthExists ==
  ASSUME NEW len \in Nat, NEW I \in SUBSET (1..len), NEW n \in 1..Cardinality(I)
  PROVE  Nth(I, n) \in I
<1>. DEFINE upTo(i) == {j \in I : j <= i}
            T == {i \in I : Cardinality(upTo(i)) >= n}
<1>1. IsFiniteSet(I) /\ Cardinality(I) \in Nat /\ n \in Nat /\ n >= 1 /\ n <= Cardinality(I)
  <2>1. IsFiniteSet(I) /\ Cardinality(I) \in Nat
    BY IndexSetsFinite
  <2>. QED  BY <2>1
<1>2. ASSUME NEW i PROVE upTo(i) \in SUBSET (1..len) /\ IsFiniteSet(upTo(i)) /\ Cardinality(upTo(i)) \in Nat
  <2>1. upTo(i) \in SUBSET (1..len)
    OBVIOUS
  <2>. QED  BY <2>1, IndexSetsFinite
<1>3. T # {}
  <2>1. I # {}
    BY <1>1, FS_EmptySet
  <2>2. PICK m \in I : \A j \in I : j <= m
    BY <2>1, LargestElement
  <2>3. upTo(m) = I
    BY <2>2
  <2>. QED  BY <1>1, <2>3
<1>4. PICK i \in T : \A j \in T : i <= j
  <2>1. T \in SUBSET I /\ I \in SUBSET Nat
    <3>. HIDE DEF upTo
    <3>. QED  OBVIOUS
  <2>. HIDE DEF T
  <2>. QED  BY <1>3, <2>1, SmallestElement
<1>5. i \in I /\ Cardinality(upTo(i)) >= n /\ i \in Nat
  OBVIOUS
<1>6. Cardinality(upTo(i)) = n
  <2>1. SUFFICES ASSUME Cardinality(upTo(i)) > n PROVE FALSE
    <3>1. Cardinality(upTo(i)) \in Nat
      BY <1>2
    <3>. HIDE DEF upTo
    <3>. QED  BY <1>1, <1>5, <3>1
  <2>. DEFINE below == upTo(i) \ {i}
  <2>2. i \in upTo(i)
    BY <1>5
  <2>3. Cardinality(below) = Cardinality(upTo(i)) - 1 /\ IsFiniteSet(below)
    <3>1. IsFiniteSet(upTo(i))
      BY <1>2
    <3>. HIDE DEF upTo
    <3>. QED  BY <2>2, <3>1, FS_RemoveElement
  <2>4. below # {} /\ Cardinality(below) >= n
    <3>1. Cardinality(upTo(i)) \in Nat
      BY <1>2
    <3>2. Cardinality(below) >= 1 /\ Cardinality(below) >= n
      <4>. HIDE DEF upTo, below
      <4>. QED  BY <1>1, <2>1, <2>3, <3>1
    <3>3. Cardinality({}) = 0
      BY FS_EmptySet
    <3>. HIDE DEF below
    <3>. QED  BY <3>2, <3>3
  <2>5. below \in SUBSET (1..len)
    OBVIOUS
  <2>6. PICK m \in below : \A j \in below : j <= m
    <3>. HIDE DEF below
    <3>. QED  BY <2>4, <2>5, LargestElement
  <2>7. m \in I /\ m < i /\ upTo(m) = below
    <3>1. below = {j \in I : j < i} /\ I \subseteq Nat
      <4>1. I \subseteq Nat
        OBVIOUS
      <4>2. \A j \in I : (j <= i /\ j # i) <=> j < i
        BY <1>5, <4>1
      <4>. QED  BY <4>1, <4>2
    <3>2. m \in I /\ m < i
      BY <2>6, <3>1
    <3>3. ASSUME NEW j \in I PROVE j <= m <=> j < i
      <4>1. j < i => j <= m
        BY <2>6, <3>1
      <4>2. j \in Nat /\ m \in Nat /\ i \in Nat
        BY <1>5, <3>1, <3>2
      <4>. QED  BY <3>2, <4>1, <4>2
    <3>. HIDE DEF below
    <3>. QED  BY <3>1, <3>2, <3>3
  <2>8. m \in T
    <3>. HIDE DEF below, upTo
    <3>. QED  BY <2>4, <2>7
  <2>9. i <= m /\ m \in Nat
    BY <1>4, <2>7, <2>8
  <2>. QED  BY <1>5, <2>7, <2>9
<1>. QED  BY <1>5, <1>6 DEF Nth

-----------------------------------------------------------------------------

LEMMA EmptyOK == NoDigest \in Digests /\ "" \in CandidateTags
  BY DEF NoDigest, Digests, CandidateTags

\* A candidate list is a sequence of typed tags.
LEMMA WinnersType ==
  ASSUME NEW ws \in Winners
  PROVE  /\ ws \in Seq([type : EventTypes, tag : CandidateTags])
         /\ DOMAIN ws = 1..Len(ws) /\ Len(ws) \in Nat
<1>1. ws \in Seq([type : EventTypes, tag : CandidateTags])
  BY ObserverAssumption, Zenon
<1>. QED  BY <1>1

LEMMA EventType ==
  ASSUME NEW k \in Keys, NEW t \in EventTypes, NEW tag \in CandidateTags, NEW digest \in Digests
  PROVE  Event(k, t, tag, digest) \in UpdateEvents
  BY DEF Event, UpdateEvents

\* The events whose fingerprints the notifications table has room for.
Reportable == {e \in UpdateEvents : Fingerprint(e) \in Fingerprints}

LEMMA ReportableEvents ==
  ASSUME NEW s \in Seq(Reportable)
  PROVE  s \in Seq(UpdateEvents)
<1>1. Reportable \subseteq UpdateEvents
  BY DEF Reportable
<1>. QED  BY <1>1, SeqMonotonic

\* A candidate, or what it turns into on another platform, is among the types
\* reported.
LEMMA CandidateReported ==
  ASSUME NEW ws \in Winners, NEW j \in DOMAIN ws
  PROVE  ws[j].type \in ReportedTypes /\ "OTHER_PLATFORM_UPDATE" \in ReportedTypes
<1>1. ws[j].type \in UNION {{us[i].type : i \in DOMAIN us} : us \in Winners}
  <2>1. ws[j].type \in {ws[i].type : i \in DOMAIN ws}
    BY Zenon
  <2>2. {ws[i].type : i \in DOMAIN ws} \in {{us[i].type : i \in DOMAIN us} : us \in Winners}
    BY Zenon
  <2>. PICK A, B : A = {ws[i].type : i \in DOMAIN ws} /\ B = {{us[i].type : i \in DOMAIN us} : us \in Winners}
    OBVIOUS
  <2>3. ws[j].type \in UNION B
    BY <2>1, <2>2, Zenon
  <2>. QED  BY <2>3, Zenon
<1>2. ws # <<>>
  OBVIOUS
<1>3. ~(Winners \subseteq {<<>>})
  BY <1>2, Zenon
<1>. QED  BY <1>1, <1>3, Zenon DEF ReportedTypes

LEMMA ReportableEvent ==
  ASSUME NEW k \in Keys, NEW t \in EventTypes, NEW tag \in CandidateTags, NEW digest \in Digests,
         t \in ReportedTypes, digest \in {m.platform : m \in Manifests} \union {NoDigest}
  PROVE  Event(k, t, tag, digest) \in Reportable
<1>1. Event(k, t, tag, digest) \in UpdateEvents
  BY EventType
<1>2. Fingerprint(Event(k, t, tag, digest)) = <<k, t, digest>>
  BY DEF Fingerprint, Event
<1>3. <<k, t, digest>> \in Fingerprints
  BY DEF Fingerprints
<1>. QED  BY <1>1, <1>2, <1>3 DEF Reportable

\* The types of same-tag events, and the policy fields that decide them.
LEMMA DigestTypes ==
  ASSUME NEW k \in Keys
  PROVE  digestEventType(k) \in EventTypes /\ CategoryOf[digestEventType(k)] \in Categories
<1>1. /\ "TAG_CHANGED" \in EventTypes /\ CategoryOf["TAG_CHANGED"] = "tag-changed"
      /\ "TAG_MUTATED" \in EventTypes /\ CategoryOf["TAG_MUTATED"] = "tag-mutation"
  BY DEF EventTypes, CategoryOf
<1>. QED  BY <1>1 DEF digestEventType, Categories

\* The candidate events of a check are events.
LEMMA CandidateEventsType ==
  ASSUME NEW k \in Keys, NEW ws \in Winners, NEW v
  PROVE  detectVersionCandidateEvents(k, ws, v) \in Seq(Reportable)
<1>. DEFINE V == {i \in DOMAIN ws : v[ws[i].tag] # "error"}
            actualType(w) == IF v[w.tag] = "other" THEN "OTHER_PLATFORM_UPDATE" ELSE w.type
            e(n) == Event(k, actualType(ws[Nth(V, n)]), ws[Nth(V, n)].tag, NoDigest)
<1>1. /\ ws \in Seq([type : EventTypes, tag : CandidateTags])
      /\ DOMAIN ws = 1..Len(ws) /\ Len(ws) \in Nat
  BY WinnersType
<1>2. V \in SUBSET (1..Len(ws)) /\ V \subseteq DOMAIN ws
  BY <1>1
<1>3. Cardinality(V) \in Nat
  <2>. HIDE DEF V
  <2>. QED  BY <1>1, <1>2, IndexSetsFinite
<1>4. "OTHER_PLATFORM_UPDATE" \in EventTypes
  BY DEF EventTypes, CategoryOf
<1>5. ASSUME NEW n \in 1..Cardinality(V) PROVE e(n) \in Reportable
  <2>1. Nth(V, n) \in V
    <3>. HIDE DEF V
    <3>. QED  BY <1>1, <1>2, <1>5, NthExists
  <2>. DEFINE j == Nth(V, n)
  <2>2. j \in DOMAIN ws
    BY <1>2, <2>1
  <2>. HIDE DEF j
  <2>3. ws[j] \in [type : EventTypes, tag : CandidateTags]
    <3>. DEFINE S == [type : EventTypes, tag : CandidateTags]
    <3>. HIDE DEF S, V
    <3>1. ws \in Seq(S)
      BY <1>1 DEF S
    <3>2. ws[j] \in S
      BY <2>2, <3>1
    <3>. QED  BY <3>2 DEF S
  <2>4. actualType(ws[j]) \in EventTypes /\ ws[j].tag \in CandidateTags /\ NoDigest \in Digests
    BY <1>4, <2>3, EmptyOK
  <2>5. actualType(ws[j]) \in ReportedTypes
    BY <2>2, CandidateReported
  <2>6. NoDigest \in {m.platform : m \in Manifests} \union {NoDigest}
    OBVIOUS
  <2>. HIDE DEF actualType, V
  <2>. QED  BY <2>4, <2>5, <2>6, ReportableEvent DEF j
<1>6. detectVersionCandidateEvents(k, ws, v) = [n \in 1..Cardinality(V) |-> e(n)]
  <2>. DEFINE c(i) == Event(k, actualType(ws[i]), ws[i].tag, NoDigest)
              g == [i \in V |-> c(i)]
  <2>1. detectVersionCandidateEvents(k, ws, v) = Squeeze(g)
    BY DEF detectVersionCandidateEvents
  <2>2. DOMAIN g = V /\ \A i \in V : g[i] = c(i)
    <3>. HIDE DEF c, V
    <3>. QED  OBVIOUS
  <2>3. \A n \in 1..Cardinality(V) : Nth(V, n) \in V
    <3>. HIDE DEF V
    <3>. QED  BY <1>1, <1>2, NthExists
  <2>4. \A n \in 1..Cardinality(V) : e(n) = c(Nth(V, n))
    OBVIOUS
  <2>. HIDE DEF c, e, g, V
  <2>. QED  BY <2>1, <2>2, <2>3, <2>4 DEF Squeeze
<1>. HIDE DEF e, V
<1>. QED  BY <1>3, <1>5, <1>6

LEMMA OutcomesType ==
  ASSUME NEW k \in Keys, NEW c \in CandidateOutcomes(k)
  PROVE  c.events \in Seq(Reportable) /\ c.partial \in BOOLEAN
<1>1. <<>> \in Seq(Reportable)
  OBVIOUS
<1>2. CASE c = [events |-> <<>>, partial |-> FALSE] \/ c = [events |-> <<>>, partial |-> TRUE]
  <2>1. c.events = <<>> /\ (c.partial = FALSE \/ c.partial = TRUE)
    BY <1>2
  <2>. QED  BY <1>1, <2>1
<1>3. CASE \E ws \in Winners : \E v :
             c = [events  |-> detectVersionCandidateEvents(k, ws, v),
                  partial |-> \E i \in DOMAIN ws : v[ws[i].tag] = "error"]
  <2>0. PICK ws \in Winners : \E v :
          c = [events  |-> detectVersionCandidateEvents(k, ws, v),
               partial |-> \E i \in DOMAIN ws : v[ws[i].tag] = "error"]
    BY <1>3, Zenon
  <2>1. PICK v :
          c = [events  |-> detectVersionCandidateEvents(k, ws, v),
               partial |-> \E i \in DOMAIN ws : v[ws[i].tag] = "error"]
    BY <2>0, Zenon
  <2>2. c.events = detectVersionCandidateEvents(k, ws, v)
        /\ c.partial = (\E i \in DOMAIN ws : v[ws[i].tag] = "error")
    BY <2>1, Zenon
  <2>3. c.partial \in BOOLEAN
    BY <2>2, Zenon
  <2>. QED  BY <2>2, <2>3, CandidateEventsType
<1>4. \/ c = [events |-> <<>>, partial |-> FALSE] \/ c = [events |-> <<>>, partial |-> TRUE]
      \/ \E ws \in Winners : \E v :
            c = [events  |-> detectVersionCandidateEvents(k, ws, v),
                 partial |-> \E i \in DOMAIN ws : v[ws[i].tag] = "error"]
  <2>. DEFINE Verdicts(ws) == [{ws[i].tag : i \in DOMAIN ws} ->
                                 {"same", "other"} \union
                                   (IF "registry" \in Faults THEN {"error"} ELSE {})]
              Outcome(ws, v) == [events  |-> detectVersionCandidateEvents(k, ws, v),
                                 partial |-> \E i \in DOMAIN ws : v[ws[i].tag] = "error"]
  <2>1. CASE k \in Opaque
    BY <2>1 DEF CandidateOutcomes
  <2>2. CASE k \notin Opaque
    <3>1. c \in (UNION {{Outcome(ws, v) : v \in Verdicts(ws)} : ws \in Winners})
               \union (IF "registry" \in Faults
                         THEN {[events |-> <<>>, partial |-> TRUE]} ELSE {})
      BY <2>2, Zenon DEF CandidateOutcomes
    <3>. HIDE DEF Verdicts, Outcome
    <3>2. (\E ws \in Winners : \E v : c = Outcome(ws, v)) \/ c = [events |-> <<>>, partial |-> TRUE]
      <4>1. CASE c \in UNION {{Outcome(ws, v) : v \in Verdicts(ws)} : ws \in Winners}
        <5>1. \E U \in {{Outcome(ws, v) : v \in Verdicts(ws)} : ws \in Winners} : c \in U
          BY <4>1, Zenon
        <5>2. \E ws \in Winners : c \in {Outcome(ws, v) : v \in Verdicts(ws)}
          BY <5>1, Zenon
        <5>. QED  BY <5>2, Zenon
      <4>2. CASE c \in (IF "registry" \in Faults THEN {[events |-> <<>>, partial |-> TRUE]} ELSE {})
        BY <4>2
      <4>. QED  BY <3>1, <4>1, <4>2, Zenon
    <3>. QED  BY <3>2, Zenon DEF Outcome
  <2>. QED  BY <2>1, <2>2
<1>. QED  BY <1>2, <1>3, <1>4, Zenon

\* The digests in use are finitely many.
LEMMA RunningFinite ==
  ASSUME NEW p \in Procs, NEW k \in Keys, snapshot[p] \in Snapshots
  PROVE  IsFiniteSet(Running(p, k))
<1>. DEFINE M == Members(snapshot[p], k)
            f == [c \in M |-> snapshot[p][c].digest]
<1>1. IsFiniteSet(M)
  <2>1. IsFiniteSet(DOMAIN snapshot[p]) /\ M \in SUBSET DOMAIN snapshot[p]
    BY ObserverAssumption DEF SnapshotOK, Members
  <2>. QED  BY <2>1, FS_Subset
<1>2. f \in Surjection(M, Running(p, k))
  <2>. HIDE DEF M
  <2>. QED  BY DEF Surjection, Running, M
<1>. HIDE DEF M, f
<1>. QED  BY <1>1, <1>2, FS_Surjection

\* The digest events of a check are all alike, and there is one whenever
\* the platform's digest changed or a container runs another image.
LEMMA DigestEventsFacts ==
  ASSUME TypeOK, NEW p \in Procs, NEW k \in Keys
  PROVE  LET w == worker[p][k]
         IN  /\ DigestEvents(p, k) \in Seq(UpdateEvents)
             /\ \A i \in DOMAIN DigestEvents(p, k) : DigestEvents(p, k)[i] = DigestEvent(k, w.got)
             /\ detectDigestEvents(k, w.prev, w.got) # <<>> \/ computeDigestDrift(p, k)
                => 1 \in DOMAIN DigestEvents(p, k)
<1>. DEFINE w == worker[p][k]
            t == detectDigestEvents(k, w.prev, w.got)
            distinct == {d \in Running(p, k) : d # NoDigest /\ d # ServedDigest(w.got)}
            e == DigestEvent(k, w.got)
<1>1. w \in GroupChecks /\ w.got \in ManifestType
  BY DEF TypeOK, GroupChecks
<1>2. e \in UpdateEvents
  <2>1. w.got.platform \in Digests /\ "" \in CandidateTags
    BY <1>1, EmptyOK DEF ManifestType
  <2>. QED  BY <2>1, DigestTypes, EventType DEF DigestEvent
<1>3. IsFiniteSet(distinct) /\ Cardinality(distinct) \in Nat /\ (distinct # {} => Cardinality(distinct) # 0)
  <2>1. IsFiniteSet(Running(p, k)) /\ distinct \in SUBSET Running(p, k)
    BY RunningFinite DEF TypeOK
  <2>. HIDE DEF distinct
  <2>. QED  BY <2>1, FS_Subset, FS_CardinalityType, FS_EmptySet
<1>4. t = <<>> \/ t = <<e>>
  BY DEF detectDigestEvents
<1>5. computeDigestDrift(p, k) => distinct # {} /\ ServedDigest(w.got) # NoDigest
  BY DEF computeDigestDrift
<1>6. CASE t # <<>>
  <2>1. DigestEvents(p, k) = <<e>>
    BY <1>4, <1>6 DEF DigestEvents
  <2>. HIDE DEF e
  <2>. QED  BY <1>2, <2>1 DEF e
<1>7. CASE t = <<>>
  <2>1. DigestEvents(p, k) = detectDigestDriftEvents(k, w.got, Running(p, k))
    BY <1>7 DEF DigestEvents
  <2>2. DigestEvents(p, k) = IF ServedDigest(w.got) = NoDigest THEN <<>>
                             ELSE [i \in 1..Cardinality(distinct) |-> e]
    BY <2>1 DEF detectDigestDriftEvents
  <2>3. CASE ServedDigest(w.got) = NoDigest
    BY <1>5, <1>7, <2>2, <2>3
  <2>4. CASE ServedDigest(w.got) # NoDigest
    <3>1. DigestEvents(p, k) = [i \in 1..Cardinality(distinct) |-> e]
      BY <2>2, <2>4
    <3>. HIDE DEF distinct, e
    <3>. QED  BY <1>2, <1>3, <1>5, <1>7, <3>1 DEF e
  <2>. QED  BY <2>3, <2>4
<1>. QED  BY <1>6, <1>7

-----------------------------------------------------------------------------

\* A step of checkGroup changes one check.
Others(p, k) == \A q \in Procs, j \in Keys : q # p \/ j # k => worker'[q][j] = worker[q][j]

Becomes(p, k, w) ==
  /\ worker' \in [Procs -> [Keys -> GroupChecks]]
  /\ worker'[p][k] = w /\ Others(p, k)

LEMMA UpdateOne ==
  ASSUME worker \in [Procs -> [Keys -> GroupChecks]], NEW p \in Procs, NEW k \in Keys,
         NEW w \in GroupChecks, worker' = [worker EXCEPT ![p][k] = w]
  PROVE  Becomes(p, k, w)
  BY DEF Becomes, Others

LEMMA GroupCheckFields ==
  ASSUME TypeOK, NEW p \in Procs, NEW k \in Keys
  PROVE  LET w == worker[p][k]
         IN  /\ w = [pc |-> w.pc, prev |-> w.prev, got |-> w.got, partial |-> w.partial, events |-> w.events]
             /\ w.pc \in PCs /\ w.prev \in Rows /\ w.got \in ManifestType
             /\ w.partial \in BOOLEAN /\ w.events \in Seq(UpdateEvents)
<1>1. worker[p][k] \in GroupChecks
  BY DEF TypeOK
<1>. QED  BY <1>1 DEF GroupChecks

\* The updates the steps make keep a check a check.
LEMMA PcUpdate ==
  ASSUME NEW w \in GroupChecks, NEW x \in PCs
  PROVE  [w EXCEPT !.pc = x] \in GroupChecks
  BY DEF GroupChecks

LEMMA PartialUpdate ==
  ASSUME NEW w \in GroupChecks, NEW x \in PCs
  PROVE  [w EXCEPT !.pc = x, !.partial = TRUE] \in GroupChecks
  BY DEF GroupChecks

LEMMA PrevUpdate ==
  ASSUME NEW w \in GroupChecks, NEW x \in PCs, NEW r \in Rows
  PROVE  [w EXCEPT !.pc = x, !.prev = r] \in GroupChecks
  BY DEF GroupChecks

LEMMA GotUpdate ==
  ASSUME NEW w \in GroupChecks, NEW x \in PCs, NEW m \in ManifestType
  PROVE  [w EXCEPT !.pc = x, !.got = m] \in GroupChecks
  BY DEF GroupChecks

LEMMA ResultUpdate ==
  ASSUME NEW w \in GroupChecks, NEW x \in PCs, NEW es \in Seq(UpdateEvents), NEW b \in BOOLEAN
  PROVE  [w EXCEPT !.pc = x, !.events = es, !.partial = b] \in GroupChecks
  BY DEF GroupChecks

LEMMA PcNames ==
  /\ "get" \in PCs /\ "resolve" \in PCs /\ "put" \in PCs /\ "stale" \in PCs /\ "stalePut" \in PCs
  /\ "detect" \in PCs /\ "ok" \in PCs /\ "failed" \in PCs /\ "queued" \in PCs /\ "idle" \in PCs
  BY DEF PCs

\* The parts of the state a step reads are typed.
LEMMA PartsTyped ==
  ASSUME TypeOK, NEW p \in Procs, NEW k \in Keys
  PROVE  /\ worker \in [Procs -> [Keys -> GroupChecks]]
         /\ worker[p][k] \in GroupChecks
         /\ obs[k] \in Rows /\ served[k] \in ManifestType /\ NoRow \in Rows
<1>1. worker \in [Procs -> [Keys -> GroupChecks]] /\ obs \in [Keys -> Rows] /\ served \in [Keys -> Manifests]
  BY DEF TypeOK
<1>2. NoRow \in Rows
  BY EmptyOK DEF Rows, NoRow, Statuses
<1>3. served[k] \in Manifests /\ obs[k] \in Rows /\ worker[p][k] \in GroupChecks
  BY <1>1
<1>. QED  BY <1>1, <1>2, <1>3, ObserverAssumption

\* What each step does to the check it is about.
LEMMA LaunchDoes ==
  ASSUME TypeOK, NEW p \in Procs, NEW k \in Keys, Launch(p, k)
  PROVE  Becomes(p, k, [worker[p][k] EXCEPT !.pc = "get"])
<1>. DEFINE v == [worker[p][k] EXCEPT !.pc = "get"]
<1>1. worker' = [worker EXCEPT ![p][k] = v]
  BY DEF Launch, TypeOK
<1>2. v \in GroupChecks
  BY PartsTyped, PcUpdate, PcNames
<1>. HIDE DEF v
<1>3. Becomes(p, k, v)
  BY <1>1, <1>2, PartsTyped, UpdateOne
<1>. QED  BY <1>3 DEF v

LEMMA GetDoes ==
  ASSUME TypeOK, NEW p \in Procs, NEW k \in Keys, GetPrevious(p, k)
  PROVE  \/ Becomes(p, k, [worker[p][k] EXCEPT !.pc = "resolve", !.prev = obs[k]])
         \/ "read" \in Faults /\ Becomes(p, k, [worker[p][k] EXCEPT !.pc = "resolve", !.partial = TRUE])
<1>. DEFINE u == [worker[p][k] EXCEPT !.pc = "resolve", !.prev = obs[k]]
            v == [worker[p][k] EXCEPT !.pc = "resolve", !.partial = TRUE]
<1>1. \/ worker' = [worker EXCEPT ![p][k] = u]
      \/ "read" \in Faults /\ worker' = [worker EXCEPT ![p][k] = v]
  BY DEF GetPrevious, TypeOK
<1>2. u \in GroupChecks
  BY PartsTyped, PrevUpdate, PcNames
<1>3. v \in GroupChecks
  BY PartsTyped, PartialUpdate, PcNames
<1>. HIDE DEF u, v
<1>4. worker \in [Procs -> [Keys -> GroupChecks]]
  BY DEF TypeOK
<1>5. Becomes(p, k, u) \/ ("read" \in Faults /\ Becomes(p, k, v))
  BY <1>1, <1>2, <1>3, <1>4, UpdateOne
<1>. QED  BY <1>5 DEF u, v

LEMMA ResolveDoes ==
  ASSUME TypeOK, NEW p \in Procs, NEW k \in Keys, ResolveOK(p, k)
  PROVE  Becomes(p, k, [worker[p][k] EXCEPT !.pc = "put", !.got = served[k]])
<1>. DEFINE v == [worker[p][k] EXCEPT !.pc = "put", !.got = served[k]]
<1>1. worker' = [worker EXCEPT ![p][k] = v]
  BY DEF ResolveOK, TypeOK
<1>2. served[k] \in ManifestType
  BY PartsTyped
<1>3. v \in GroupChecks
  BY <1>2, PartsTyped, GotUpdate, PcNames
<1>. HIDE DEF v
<1>4. Becomes(p, k, v)
  BY <1>1, <1>3, PartsTyped, UpdateOne
<1>. QED  BY <1>4 DEF v

LEMMA ResolveFailDoes ==
  ASSUME TypeOK, NEW p \in Procs, NEW k \in Keys, ResolveFail(p, k)
  PROVE  Becomes(p, k, [worker[p][k] EXCEPT !.pc = "stale"])
<1>. DEFINE v == [worker[p][k] EXCEPT !.pc = "stale"]
<1>1. worker' = [worker EXCEPT ![p][k] = v]
  BY DEF ResolveFail, TypeOK
<1>2. v \in GroupChecks
  BY PartsTyped, PcUpdate, PcNames
<1>. HIDE DEF v
<1>3. Becomes(p, k, v)
  BY <1>1, <1>2, PartsTyped, UpdateOne
<1>. QED  BY <1>3 DEF v

LEMMA StaleGetDoes ==
  ASSUME TypeOK, NEW p \in Procs, NEW k \in Keys, StaleGet(p, k)
  PROVE  \E row \in Rows : /\ row = obs[k] \/ ("read" \in Faults /\ row = NoRow)
                           /\ Becomes(p, k, [worker[p][k] EXCEPT !.pc = "stalePut", !.prev = row])
<1>1. PICK row \in {obs[k]} \union (IF "read" \in Faults THEN {NoRow} ELSE {}) :
        worker' = [worker EXCEPT ![p][k].pc = "stalePut", ![p][k].prev = row]
  BY Zenon DEF StaleGet
<1>2. row = obs[k] \/ ("read" \in Faults /\ row = NoRow)
  OBVIOUS
<1>3. row \in Rows
  BY <1>2, PartsTyped
<1>. DEFINE v == [worker[p][k] EXCEPT !.pc = "stalePut", !.prev = row]
<1>4. worker' = [worker EXCEPT ![p][k] = v]
  BY <1>1 DEF TypeOK
<1>5. v \in GroupChecks
  BY <1>3, PartsTyped, PrevUpdate, PcNames
<1>. HIDE DEF v
<1>6. Becomes(p, k, v)
  BY <1>4, <1>5, PartsTyped, UpdateOne
<1>. QED  BY <1>2, <1>3, <1>6 DEF v

LEMMA StalePutDoes ==
  ASSUME TypeOK, NEW p \in Procs, NEW k \in Keys, StalePut(p, k)
  PROVE  Becomes(p, k, [worker[p][k] EXCEPT !.pc = "failed"])
<1>. DEFINE v == [worker[p][k] EXCEPT !.pc = "failed"]
<1>1. worker' = [worker EXCEPT ![p][k] = v]
  BY DEF StalePut, TypeOK
<1>2. v \in GroupChecks
  BY PartsTyped, PcUpdate, PcNames
<1>. HIDE DEF v
<1>3. Becomes(p, k, v)
  BY <1>1, <1>2, PartsTyped, UpdateOne
<1>. QED  BY <1>3 DEF v

LEMMA PutDoes ==
  ASSUME TypeOK, NEW p \in Procs, NEW k \in Keys, PutObservation(p, k)
  PROVE  \/ /\ obs' = [obs EXCEPT ![k] = FreshRow(worker[p][k].got)]
            /\ Becomes(p, k, [worker[p][k] EXCEPT !.pc = "detect"])
         \/ /\ "write" \in Faults /\ obs' = obs
            /\ Becomes(p, k, [worker[p][k] EXCEPT !.pc = "detect", !.partial = TRUE])
<1>. DEFINE u == [worker[p][k] EXCEPT !.pc = "detect"]
            v == [worker[p][k] EXCEPT !.pc = "detect", !.partial = TRUE]
<1>1. \/ obs' = [obs EXCEPT ![k] = FreshRow(worker[p][k].got)] /\ worker' = [worker EXCEPT ![p][k] = u]
      \/ "write" \in Faults /\ obs' = obs /\ worker' = [worker EXCEPT ![p][k] = v]
  BY DEF PutObservation, TypeOK
<1>2. u \in GroupChecks
  BY PartsTyped, PcUpdate, PcNames
<1>3. v \in GroupChecks
  BY PartsTyped, PartialUpdate, PcNames
<1>. HIDE DEF u, v
<1>4. worker \in [Procs -> [Keys -> GroupChecks]]
  BY DEF TypeOK
<1>5. \/ obs' = [obs EXCEPT ![k] = FreshRow(worker[p][k].got)] /\ Becomes(p, k, u)
      \/ "write" \in Faults /\ obs' = obs /\ Becomes(p, k, v)
  BY <1>1, <1>2, <1>3, <1>4, UpdateOne
<1>. QED  BY <1>5 DEF u, v

LEMMA DetectDoes ==
  ASSUME TypeOK, NEW p \in Procs, NEW k \in Keys, Detect(p, k)
  PROVE  \E es \in Seq(Reportable), b \in BOOLEAN :
           Becomes(p, k, [worker[p][k] EXCEPT !.pc = "ok", !.events = DigestEvents(p, k) \o es, !.partial = b])
<1>1. PICK c \in CandidateOutcomes(k) :
        worker' = [worker EXCEPT ![p][k].pc = "ok",
                                 ![p][k].events = DigestEvents(p, k) \o c.events,
                                 ![p][k].partial = @ \/ c.partial]
  BY Zenon DEF Detect
<1>. DEFINE es == c.events
            b == worker[p][k].partial \/ c.partial
            v == [worker[p][k] EXCEPT !.pc = "ok", !.events = DigestEvents(p, k) \o es, !.partial = b]
<1>2. es \in Seq(Reportable) /\ c.partial \in BOOLEAN /\ b \in BOOLEAN
  BY OutcomesType, Zenon
<1>3. DigestEvents(p, k) \o es \in Seq(UpdateEvents)
  <2>1. DigestEvents(p, k) \in Seq(UpdateEvents)
    BY DigestEventsFacts
  <2>. HIDE DEF es
  <2>2. es \in Seq(UpdateEvents)
    BY <1>2, ReportableEvents
  <2>. QED  BY <2>1, <2>2
<1>4. worker' = [worker EXCEPT ![p][k] = v]
  <2>. HIDE DEF es
  <2>. QED  BY <1>1 DEF TypeOK, es
<1>5. v \in GroupChecks
  <2>. HIDE DEF es, b
  <2>. QED  BY <1>2, <1>3, PartsTyped, ResultUpdate, PcNames
<1>. HIDE DEF v
<1>6. Becomes(p, k, v)
  BY <1>4, <1>5, PartsTyped, UpdateOne
<1>. HIDE DEF es, b
<1>. QED  BY <1>2, <1>6 DEF v

-----------------------------------------------------------------------------

\* The rows a check writes are rows.
LEMMA StaleRowFacts ==
  ASSUME NEW r \in Rows
  PROVE  StaleRow(r) \in Rows /\ StaleRow(r).platform = r.platform /\ StaleRow(r).found
  BY DEF StaleRow, Rows, Statuses

LEMMA FreshRowFacts ==
  ASSUME NEW m \in ManifestType
  PROVE  FreshRow(m) \in Rows /\ FreshRow(m).platform = m.platform /\ FreshRow(m).found
  BY DEF FreshRow, Rows, Statuses, ManifestType

LEMMA IdleFacts ==
  /\ Idle \in GroupChecks /\ Idle.pc = "idle"
  /\ [Idle EXCEPT !.pc = "queued"] \in GroupChecks /\ [Idle EXCEPT !.pc = "queued"].pc = "queued"
<1>1. NoRow \in Rows /\ [platform |-> NoDigest, index |-> NoDigest] \in ManifestType
  BY EmptyOK DEF NoRow, Rows, Statuses, ManifestType
<1>2. <<>> \in Seq(UpdateEvents)
  OBVIOUS
<1>3. Idle \in GroupChecks
  <2>. DEFINE m == [platform |-> NoDigest, index |-> NoDigest]
              r == NoRow
  <2>1. Idle = [pc |-> "idle", prev |-> r, got |-> m, partial |-> FALSE, events |-> <<>>]
    BY DEF Idle
  <2>2. m \in ManifestType /\ r \in Rows
    BY <1>1
  <2>. HIDE DEF m, r
  <2>. QED  BY <1>2, <2>1, <2>2, PcNames DEF GroupChecks
<1>4. [Idle EXCEPT !.pc = "queued"] \in GroupChecks
  BY <1>3, PcUpdate, PcNames
<1>5. Idle.pc = "idle" /\ [Idle EXCEPT !.pc = "queued"].pc = "queued"
  BY DEF Idle
<1>. QED  BY <1>3, <1>4, <1>5

\* What a check holds when it has its result.
Concluded(p, k) ==
  /\ worker[p][k].pc = "detect"
  /\ worker'[p][k].prev = worker[p][k].prev /\ worker'[p][k].got = worker[p][k].got
  /\ \E es \in Seq(Reportable) : worker'[p][k].events = DigestEvents(p, k) \o es

\* A step of checkGroup keeps the types and only concludes by comparing.
LEMMA StepFacts ==
  ASSUME TypeOK, NEW p \in Procs, NEW k \in Keys, checkGroup(p, k)
  PROVE  /\ TypeOK' /\ Others(p, k) /\ UNCHANGED <<served, checking, snapshot>>
         /\ worker'[p][k].pc = "ok" => Concluded(p, k)
<1>. DEFINE W == [Procs -> [Keys -> GroupChecks]]
            w == worker[p][k]
<1>1. w \in GroupChecks /\ obs \in [Keys -> Rows] /\ seen \in [Keys -> [before : Digests, now : Digests]]
  BY DEF TypeOK
<1>2. w.prev \in Rows /\ w.got \in ManifestType /\ w.got.platform \in Digests
  BY <1>1 DEF GroupChecks, ManifestType
<1>3. UNCHANGED <<served, checking, snapshot>>
  BY DEF checkGroup, Launch, GetPrevious, ResolveOK, ResolveFail, StaleGet, StalePut, PutObservation, Detect
<1>4. obs' \in [Keys -> Rows]
  <2>1. CASE obs' = obs
    BY <1>1, <2>1
  <2>2. CASE \E r \in Rows : obs' = [obs EXCEPT ![k] = r]
    BY <1>1, <2>2
  <2>3. obs' = obs \/ \E r \in Rows : obs' = [obs EXCEPT ![k] = r]
    BY <1>2, StaleRowFacts, FreshRowFacts
    DEF checkGroup, Launch, GetPrevious, ResolveOK, ResolveFail, StaleGet, StalePut, PutObservation, Detect
  <2>. QED  BY <2>1, <2>2, <2>3
<1>5. seen' \in [Keys -> [before : Digests, now : Digests]]
  <2>1. CASE seen' = seen
    BY <1>1, <2>1
  <2>2. CASE seen' = [seen EXCEPT ![k] = [before |-> seen[k].now, now |-> w.got.platform]]
    <3>1. [before |-> seen[k].now, now |-> w.got.platform] \in [before : Digests, now : Digests]
      BY <1>1, <1>2
    <3>. QED  BY <1>1, <2>2, <3>1
  <2>3. seen' = seen \/ seen' = [seen EXCEPT ![k] = [before |-> seen[k].now, now |-> w.got.platform]]
    <3>1. CASE PutObservation(p, k)
      BY <3>1, <1>1 DEF PutObservation
    <3>2. CASE ~PutObservation(p, k)
      BY <3>2 DEF checkGroup, Launch, GetPrevious, ResolveOK, ResolveFail, StaleGet, StalePut, Detect
    <3>. QED  BY <3>1, <3>2
  <2>. QED  BY <2>1, <2>2, <2>3
<1>6. worker' \in W /\ Others(p, k) /\ (worker'[p][k].pc = "ok" => Concluded(p, k))
  <2>. HIDE DEF W
  <2>1. ASSUME NEW v, Becomes(p, k, v), v.pc # "ok"
        PROVE  worker' \in W /\ Others(p, k) /\ (worker'[p][k].pc = "ok" => Concluded(p, k))
    BY <2>1, Zenon DEF Becomes, W
  <2>2. CASE Launch(p, k)
    <3>1. [w EXCEPT !.pc = "get"].pc # "ok"
      BY <1>1 DEF GroupChecks
    <3>. QED  BY <2>1, <2>2, <3>1, LaunchDoes
  <2>3. CASE GetPrevious(p, k)
    <3>1. [w EXCEPT !.pc = "resolve", !.prev = obs[k]].pc # "ok" /\ [w EXCEPT !.pc = "resolve", !.partial = TRUE].pc # "ok"
      BY <1>1 DEF GroupChecks
    <3>. QED  BY <2>1, <2>3, <3>1, GetDoes
  <2>4. CASE ResolveOK(p, k)
    <3>1. [w EXCEPT !.pc = "put", !.got = served[k]].pc # "ok"
      BY <1>1 DEF GroupChecks
    <3>. QED  BY <2>1, <2>4, <3>1, ResolveDoes
  <2>5. CASE ResolveFail(p, k)
    <3>1. [w EXCEPT !.pc = "stale"].pc # "ok"
      BY <1>1 DEF GroupChecks
    <3>. QED  BY <2>1, <2>5, <3>1, ResolveFailDoes
  <2>6. CASE StaleGet(p, k)
    <3>1. \A row : [w EXCEPT !.pc = "stalePut", !.prev = row].pc # "ok"
      BY <1>1 DEF GroupChecks
    <3>2. PICK row : Becomes(p, k, [w EXCEPT !.pc = "stalePut", !.prev = row])
      BY <2>6, StaleGetDoes, Zenon
    <3>. QED  BY <2>1, <3>1, <3>2
  <2>7. CASE StalePut(p, k)
    <3>1. [w EXCEPT !.pc = "failed"].pc # "ok"
      BY <1>1 DEF GroupChecks
    <3>. QED  BY <2>1, <2>7, <3>1, StalePutDoes
  <2>8. CASE PutObservation(p, k)
    <3>1. [w EXCEPT !.pc = "detect"].pc # "ok" /\ [w EXCEPT !.pc = "detect", !.partial = TRUE].pc # "ok"
      BY <1>1 DEF GroupChecks
    <3>2. Becomes(p, k, [w EXCEPT !.pc = "detect"]) \/ Becomes(p, k, [w EXCEPT !.pc = "detect", !.partial = TRUE])
      BY <2>8, PutDoes
    <3>. QED  BY <2>1, <3>1, <3>2
  <2>9. CASE Detect(p, k)
    <3>1. PICK es \in Seq(Reportable), b \in BOOLEAN :
            Becomes(p, k, [w EXCEPT !.pc = "ok", !.events = DigestEvents(p, k) \o es, !.partial = b])
      BY <2>9, DetectDoes
    <3>. DEFINE v == [w EXCEPT !.pc = "ok", !.events = DigestEvents(p, k) \o es, !.partial = b]
    <3>2. v.prev = w.prev /\ v.got = w.got /\ v.events = DigestEvents(p, k) \o es
      <4>. DEFINE d == DigestEvents(p, k) \o es
      <4>. HIDE DEF d
      <4>1. v = [w EXCEPT !.pc = "ok", !.events = d, !.partial = b]
        BY DEF d
      <4>2. v.prev = w.prev /\ v.got = w.got /\ v.events = d
        BY <1>1, <4>1 DEF GroupChecks
      <4>. QED  BY <4>2 DEF d
    <3>. HIDE DEF v
    <3>3. Becomes(p, k, v)
      BY <3>1 DEF v
    <3>4. worker[p][k].pc = "detect"
      BY <2>9 DEF Detect
    <3>5. worker' \in W /\ Others(p, k) /\ worker'[p][k] = v
      BY <3>3, Zenon DEF Becomes, W
    <3>. QED  BY <3>2, <3>4, <3>5, Zenon DEF Concluded
  <2>. QED  BY <2>2, <2>3, <2>4, <2>5, <2>6, <2>7, <2>8, <2>9 DEF checkGroup
<1>7. TypeOK'
  BY <1>3, <1>4, <1>5, <1>6 DEF TypeOK
<1>. QED  BY <1>3, <1>6, <1>7

-----------------------------------------------------------------------------

LEMMA InitTyped == Init => TypeOK
<1>. SUFFICES ASSUME Init PROVE TypeOK
  OBVIOUS
<1>1. NoRow \in Rows
  BY EmptyOK DEF NoRow, Rows, Statuses
<1>2. obs \in [Keys -> Rows]
  BY <1>1 DEF Init
<1>3. seen \in [Keys -> [before : Digests, now : Digests]]
  BY EmptyOK DEF Init
<1>4. worker \in [Procs -> [Keys -> GroupChecks]]
  BY IdleFacts DEF Init
<1>. QED  BY <1>2, <1>3, <1>4 DEF Init, TypeOK

\* A cycle that starts or ends touches only its own checks, and leaves none
\* of them concluded.
LEMMA CycleFacts ==
  ASSUME TypeOK, NEW p \in Procs, StartCheck(p) \/ EndCheck(p)
  PROVE  /\ TypeOK' /\ UNCHANGED <<served, obs, seen>>
         /\ \A k \in Keys : worker'[p][k].pc \in {"idle", "queued"}
         /\ \A q \in Procs \ {p} : worker'[q] = worker[q] /\ snapshot'[q] = snapshot[q]
<1>. DEFINE queued == [Idle EXCEPT !.pc = "queued"]
<1>1. PICK f \in [Keys -> {Idle, queued}] : worker' = [worker EXCEPT ![p] = f]
  <2>1. CASE StartCheck(p)
    <3>1. PICK snap \in Snapshots : worker' = [worker EXCEPT ![p] =
            [k \in Keys |-> IF k \in Groups(snap) THEN queued ELSE Idle]]
      BY <2>1, Zenon DEF StartCheck
    <3>2. [k \in Keys |-> IF k \in Groups(snap) THEN queued ELSE Idle] \in [Keys -> {Idle, queued}]
      <4>. HIDE DEF queued
      <4>. QED  OBVIOUS
    <3>. QED  BY <3>1, <3>2, Zenon
  <2>2. CASE EndCheck(p)
    <3>1. [k \in Keys |-> Idle] \in [Keys -> {Idle, queued}]
      <4>. HIDE DEF queued
      <4>. QED  OBVIOUS
    <3>. QED  BY <2>2, <3>1, Zenon DEF EndCheck
  <2>. QED  BY <2>1, <2>2
<1>2. Idle \in GroupChecks /\ Idle.pc = "idle" /\ queued \in GroupChecks /\ queued.pc = "queued"
  BY IdleFacts
<1>. HIDE DEF queued
<1>3. worker \in [Procs -> [Keys -> GroupChecks]]
  BY DEF TypeOK
<1>4. worker' \in [Procs -> [Keys -> GroupChecks]]
  BY <1>1, <1>2, <1>3
<1>5. worker'[p] = f /\ \A q \in Procs \ {p} : worker'[q] = worker[q]
  BY <1>1, <1>3
<1>6. \A k \in Keys : worker'[p][k].pc \in {"idle", "queued"}
  BY <1>1, <1>2, <1>5
<1>7. UNCHANGED <<served, obs, seen>> /\ checking' \in [Procs -> BOOLEAN]
  BY DEF StartCheck, EndCheck, TypeOK
<1>8. snapshot' \in [Procs -> Snapshots] /\ \A q \in Procs \ {p} : snapshot'[q] = snapshot[q]
  BY DEF StartCheck, EndCheck, TypeOK
<1>9. TypeOK'
  BY <1>4, <1>7, <1>8 DEF TypeOK
<1>. QED  BY <1>5, <1>6, <1>7, <1>8, <1>9

LEMMA PushFacts ==
  ASSUME TypeOK, NEW k \in Keys, Push(k)
  PROVE  TypeOK' /\ UNCHANGED <<obs, seen, checking, snapshot, worker>>
<1>1. UNCHANGED <<obs, seen, checking, snapshot, worker>>
  BY DEF Push
<1>2. served' \in [Keys -> Manifests]
  BY DEF Push, TypeOK
<1>. QED  BY <1>1, <1>2 DEF TypeOK

LEMMA NextTyped == TypeOK /\ [Next]_vars => TypeOK'
<1>. SUFFICES ASSUME TypeOK, [Next]_vars PROVE TypeOK'
  OBVIOUS
<1>1. CASE Next
  BY <1>1, PushFacts, CycleFacts, StepFacts DEF Next
<1>2. CASE UNCHANGED vars
  BY <1>2 DEF vars, TypeOK
<1>. QED  BY <1>1, <1>2

\* A step of the gauges is a step of the observer.
LEMMA GaugeStep == [GNext]_gaugeVars => [Next]_vars
  BY DEF GNext, gaugeVars, Next, GPublish, StartCycle, GCheck, RecordResults

\* Every variable keeps its type however many processes check, whatever the
\* registry serves and whichever calls fail: the events a result carries are
\* events of its image, its rows hold digests the registry has served.
THEOREM ChecksTyped == GSpec => []TypeOK
<1>1. GInit => TypeOK
  BY InitTyped DEF GInit
<1>2. TypeOK /\ [GNext]_gaugeVars => TypeOK'
  BY NextTyped, GaugeStep
<1>. QED  BY <1>1, <1>2, PTL DEF GSpec

-----------------------------------------------------------------------------

\* What the comparison of one check found is in its result: a transition, or
\* a container that runs another image, is reported with the digest served.
Noticed(p, k) ==
  detectDigestEvents(k, worker[p][k].prev, worker[p][k].got) # <<>> \/ computeDigestDrift(p, k)

ReportsIt(p, k) ==
  \E i \in DOMAIN worker[p][k].events : worker[p][k].events[i] = DigestEvent(k, worker[p][k].got)

EventsKept ==
  \A p \in Procs, k \in Keys : worker[p][k].pc = "ok" /\ Noticed(p, k) => ReportsIt(p, k)

LEMMA SameNoticed ==
  ASSUME NEW p \in Procs, NEW k \in Keys,
         worker'[p][k].prev = worker[p][k].prev, worker'[p][k].got = worker[p][k].got,
         snapshot'[p] = snapshot[p]
  PROVE  Noticed(p, k)' <=> Noticed(p, k)
<1>1. Running(p, k)' = Running(p, k)
  BY DEF Running
<1>2. computeDigestDrift(p, k)' <=> computeDigestDrift(p, k)
  BY <1>1 DEF computeDigestDrift
<1>. QED  BY <1>2 DEF Noticed

LEMMA SameReports ==
  ASSUME NEW p \in Procs, NEW k \in Keys, worker'[p][k] = worker[p][k]
  PROVE  ReportsIt(p, k)' <=> ReportsIt(p, k)
  BY DEF ReportsIt

\* A check that concludes has noticed what it reports.
LEMMA ConcludedReports ==
  ASSUME TypeOK, NEW p \in Procs, NEW k \in Keys, Concluded(p, k), snapshot'[p] = snapshot[p],
         Noticed(p, k)'
  PROVE  ReportsIt(p, k)'
<1>. DEFINE d == DigestEvents(p, k)
            e == DigestEvent(k, worker[p][k].got)
<1>1. PICK es \in Seq(UpdateEvents) : worker'[p][k].events = d \o es
  BY ReportableEvents DEF Concluded
<1>2. worker'[p][k].prev = worker[p][k].prev /\ worker'[p][k].got = worker[p][k].got
  BY DEF Concluded
<1>3. Noticed(p, k)
  BY <1>2, SameNoticed
<1>4. d \in Seq(UpdateEvents) /\ 1 \in DOMAIN d /\ d[1] = e
  BY <1>3, DigestEventsFacts DEF Noticed
<1>. HIDE DEF d, e
<1>5. 1 \in DOMAIN (d \o es) /\ (d \o es)[1] = e
  BY <1>4
<1>. QED  BY <1>1, <1>2, <1>5 DEF ReportsIt, e

LEMMA NextKeepsEvents == TypeOK /\ EventsKept /\ [Next]_vars => EventsKept'
<1>. SUFFICES ASSUME TypeOK, EventsKept, [Next]_vars,
                     NEW q \in Procs, NEW j \in Keys, worker'[q][j].pc = "ok", Noticed(q, j)'
              PROVE  ReportsIt(q, j)'
  BY DEF EventsKept
<1>1. ASSUME worker'[q][j] = worker[q][j], snapshot'[q] = snapshot[q] PROVE ReportsIt(q, j)'
  BY <1>1, SameNoticed, SameReports DEF EventsKept
<1>2. ASSUME NEW k \in Keys, Push(k) PROVE ReportsIt(q, j)'
  BY <1>1, <1>2, PushFacts
<1>3. ASSUME NEW p \in Procs, StartCheck(p) \/ EndCheck(p) PROVE ReportsIt(q, j)'
  <2>1. q # p
    <3>1. worker'[p][j].pc \in {"idle", "queued"}
      BY <1>3, CycleFacts
    <3>. QED  BY <3>1
  <2>2. worker'[q] = worker[q] /\ snapshot'[q] = snapshot[q]
    BY <1>3, <2>1, CycleFacts
  <2>. QED  BY <1>1, <2>2
<1>4. ASSUME NEW p \in Procs, NEW k \in Keys, checkGroup(p, k) PROVE ReportsIt(q, j)'
  <2>1. Others(p, k) /\ snapshot' = snapshot /\ (worker'[p][k].pc = "ok" => Concluded(p, k))
    BY <1>4, StepFacts
  <2>2. CASE q = p /\ j = k
    BY <2>1, <2>2, ConcludedReports
  <2>3. CASE q # p \/ j # k
    <3>1. worker'[q][j] = worker[q][j]
      BY <2>1, <2>3 DEF Others
    <3>. QED  BY <1>1, <2>1, <3>1
  <2>. QED  BY <2>2, <2>3
<1>5. CASE UNCHANGED vars
  BY <1>1, <1>5 DEF vars
<1>. QED  BY <1>2, <1>3, <1>4, <1>5 DEF Next

LEMMA InitKeepsEvents == Init => EventsKept
<1>. SUFFICES ASSUME Init, NEW p \in Procs, NEW k \in Keys PROVE worker[p][k].pc # "ok"
  BY DEF EventsKept
<1>1. worker[p][k] = Idle
  BY DEF Init
<1>. QED  BY <1>1, IdleFacts

-----------------------------------------------------------------------------

\* The merged policy of a group allows what one of its members does.
LEMMA EffectiveAllows ==
  ASSUME NEW snap, NEW k \in Keys, Allowed(snap, k, digestEventType(k)) # {}
  PROVE  Allows(EffectivePolicy(snap, k), digestEventType(k))
<1>. DEFINE t == digestEventType(k)
            c == CategoryOf[t]
            P == {ApplyLabels(DefaultPolicy, snap[m].labels) : m \in Members(snap, k)}
<1>1. t \in EventTypes /\ c \in Categories
  BY DigestTypes
<1>2. PICK m \in Members(snap, k) : Allows(ApplyLabels(DefaultPolicy, snap[m].labels), t)
  BY DEF Allowed
<1>3. PICK q \in P : q[c]
  BY <1>2 DEF Allows
<1>. HIDE DEF P, c
<1>4. MergeAll(P) = [x \in Categories |-> \E r \in P : r[x]]
  BY <1>3 DEF MergeAll
<1>5. MergeAll(P)[c]
  BY <1>1, <1>3, <1>4
<1>6. EffectivePolicy(snap, k) = MergeAll(P)
  BY DEF EffectivePolicy, P
<1>. QED  BY <1>1, <1>5, <1>6 DEF Allows, c

\* A result whose containers drift, while one of them wants to hear of it,
\* shows an update of the digest event's type.
LEMMA DriftPresent ==
  ASSUME TypeOK, EventsKept, NEW p \in Procs, NEW k \in Fresh(p), computeDigestDrift(p, k),
         Allowed(snapshot[p], k, digestEventType(k)) # {}
  PROVE  digestEventType(k) \in Present(p, k)
<1>1. k \in Keys /\ worker[p][k].pc = "ok"
  BY DEF Fresh, Checked
<1>2. ReportsIt(p, k)
  BY <1>1 DEF EventsKept, Noticed
<1>3. DigestEvent(k, worker[p][k].got).type = digestEventType(k)
  BY DEF DigestEvent, Event
<1>4. \E i \in DOMAIN worker[p][k].events : worker[p][k].events[i].type = digestEventType(k)
  BY <1>2, <1>3 DEF ReportsIt
<1>. QED  BY <1>1, <1>4, DigestTypes, EffectiveAllows DEF Present

GaugesInv == TypeOK /\ EventsKept /\ drift \subseteq Keys /\ DriftShowsAsUpdate

LEMMA GaugesNext == GaugesInv /\ [GNext]_gaugeVars => GaugesInv'
<1>. SUFFICES ASSUME GaugesInv, [GNext]_gaugeVars PROVE GaugesInv'
  OBVIOUS
<1>1. TypeOK' /\ EventsKept'
  BY GaugeStep, NextTyped, NextKeepsEvents DEF GaugesInv
<1>2. CASE UNCHANGED gauges
  BY <1>1, <1>2 DEF gauges, GaugesInv, DriftShowsAsUpdate
<1>3. ASSUME NEW p \in Procs, RecordResults(p) PROVE GaugesInv'
  <2>1. drift' \subseteq Keys
    BY <1>3 DEF RecordResults
  <2>2. ASSUME NEW k \in drift' \intersect wanted' PROVE digestEventType(k) \in updates'[k]
    <3>1. k \in Keys
      BY <2>1, <2>2
    <3>2. CASE k \in Fresh(p)
      <4>1. computeDigestDrift(p, k) /\ Allowed(snapshot[p], k, digestEventType(k)) # {}
        BY <1>3, <2>2, <3>2 DEF RecordResults
      <4>2. updates'[k] = Present(p, k)
        BY <1>3, <3>1, <3>2 DEF RecordResults
      <4>. QED  BY <3>2, <4>1, <4>2, DriftPresent DEF GaugesInv
    <3>3. CASE k \notin Fresh(p)
      <4>1. k \in drift \intersect wanted
        BY <1>3, <2>2, <3>3 DEF RecordResults
      <4>2. updates'[k] = updates[k]
        BY <1>3, <3>1, <3>3 DEF RecordResults
      <4>. QED  BY <4>1, <4>2 DEF GaugesInv, DriftShowsAsUpdate
    <3>. QED  BY <3>2, <3>3
  <2>. QED  BY <1>1, <2>1, <2>2 DEF GaugesInv, DriftShowsAsUpdate
<1>4. UNCHANGED gauges \/ \E p \in Procs : RecordResults(p)
  BY DEF GNext, gaugeVars, GPublish, StartCycle, GCheck
<1>. QED  BY <1>2, <1>3, <1>4

\* The gauges of a stream agree, for any processes, faults, policies and
\* container lists: where digest_drift is 1 and a member wants to know, the
\* gauge of the digest event's type is 1, whether the event came from the
\* drift or from a transition that took its place.
THEOREM GaugesAgree == GSpec => []DriftShowsAsUpdate
<1>1. GInit => GaugesInv
  BY InitTyped, InitKeepsEvents DEF GInit, GaugesInv, DriftShowsAsUpdate
<1>2. GaugesInv => DriftShowsAsUpdate
  BY DEF GaugesInv
<1>. QED  BY <1>1, <1>2, GaugesNext, PTL DEF GSpec

-----------------------------------------------------------------------------

\* One process on a store whose calls succeed.  With a second process, or
\* with a store call that fails, both theorems below are false.
SoleWriter ==
  /\ \A p, q \in Procs : p = q
  /\ "read" \notin Faults /\ "write" \notin Faults

\* A row that has a digest was found.
Known(r) == r.platform # NoDigest => r.found

\* What a check in progress knows of the store and of the last two checks.
Tracks(p, k) ==
  LET w == worker[p][k]
  IN  /\ w.pc \in {"resolve", "put"} => w.prev = obs[k]
      /\ w.pc = "stalePut" => w.prev.platform = obs[k].platform
      /\ w.pc \in {"detect", "ok"} => /\ w.prev.platform = seen[k].before
                                      /\ w.got.platform = seen[k].now
                                      /\ Known(w.prev)

Remembers(k) == obs[k].platform = seen[k].now /\ Known(obs[k])

SoleInv ==
  /\ TypeOK /\ EventsKept
  /\ \A k \in Keys : Remembers(k)
  /\ \A p \in Procs, k \in Keys : Tracks(p, k)

LEMMA SameTracks ==
  ASSUME NEW p \in Procs, NEW k \in Keys,
         worker'[p][k] = worker[p][k], obs'[k] = obs[k], seen'[k] = seen[k]
  PROVE  (Tracks(p, k)' <=> Tracks(p, k)) /\ (Remembers(k)' <=> Remembers(k))
  BY DEF Tracks, Remembers, Known

\* The step of the only check of k keeps what it knows true.
LEMMA StepTracks ==
  ASSUME SoleWriter, TypeOK, NEW p \in Procs, NEW k \in Keys, checkGroup(p, k),
         Remembers(k), Tracks(p, k)
  PROVE  /\ Remembers(k)' /\ Tracks(p, k)'
         /\ \A j \in Keys \ {k} : obs'[j] = obs[j] /\ seen'[j] = seen[j]
<1>. DEFINE w == worker[p][k]
            Goal == /\ Remembers(k)' /\ Tracks(p, k)'
                    /\ \A j \in Keys \ {k} : obs'[j] = obs[j] /\ seen'[j] = seen[j]
<1>1. w \in GroupChecks /\ obs \in [Keys -> Rows] /\ seen \in [Keys -> [before : Digests, now : Digests]]
  BY DEF TypeOK
<1>2. w.prev \in Rows /\ w.got \in ManifestType
  BY <1>1 DEF GroupChecks
<1>3. ASSUME NEW v, worker'[p][k] = v, obs' = obs, seen' = seen,
             v.pc \in {"resolve", "put"} => v.prev = obs[k],
             v.pc = "stalePut" => v.prev.platform = obs[k].platform,
             v.pc \notin {"detect", "ok"}
      PROVE  Goal
  BY <1>3 DEF Tracks, Remembers, Known
<1>4. CASE Launch(p, k)
  <2>. DEFINE v == [w EXCEPT !.pc = "get"]
  <2>1. v.pc = "get"
    BY <1>1 DEF GroupChecks
  <2>2. worker'[p][k] = v /\ obs' = obs /\ seen' = seen
    BY <1>4, LaunchDoes DEF Launch, Becomes
  <2>. HIDE DEF v
  <2>. QED  BY <1>3, <2>1, <2>2
<1>5. CASE GetPrevious(p, k)
  <2>. DEFINE v == [w EXCEPT !.pc = "resolve", !.prev = obs[k]]
  <2>1. v.pc = "resolve" /\ v.prev = obs[k]
    BY <1>1 DEF GroupChecks
  <2>2. worker'[p][k] = v /\ obs' = obs /\ seen' = seen
    BY <1>5, GetDoes DEF GetPrevious, Becomes, SoleWriter
  <2>. HIDE DEF v
  <2>. QED  BY <1>3, <2>1, <2>2
<1>6. CASE ResolveOK(p, k)
  <2>. DEFINE v == [w EXCEPT !.pc = "put", !.got = served[k]]
  <2>1. v.pc = "put" /\ v.prev = w.prev
    BY <1>1 DEF GroupChecks
  <2>2. worker'[p][k] = v /\ obs' = obs /\ seen' = seen
    BY <1>6, ResolveDoes DEF ResolveOK, Becomes
  <2>3. w.prev = obs[k]
    BY <1>6 DEF ResolveOK, Tracks
  <2>. HIDE DEF v
  <2>. QED  BY <1>3, <2>1, <2>2, <2>3
<1>7. CASE ResolveFail(p, k)
  <2>. DEFINE v == [w EXCEPT !.pc = "stale"]
  <2>1. v.pc = "stale"
    BY <1>1 DEF GroupChecks
  <2>2. worker'[p][k] = v /\ obs' = obs /\ seen' = seen
    BY <1>7, ResolveFailDoes DEF ResolveFail, Becomes
  <2>. HIDE DEF v
  <2>. QED  BY <1>3, <2>1, <2>2
<1>8. CASE StaleGet(p, k)
  <2>. DEFINE v == [w EXCEPT !.pc = "stalePut", !.prev = obs[k]]
  <2>1. v.pc = "stalePut" /\ v.prev = obs[k]
    BY <1>1 DEF GroupChecks
  <2>2. Becomes(p, k, v)
    BY <1>8, StaleGetDoes DEF SoleWriter
  <2>3. worker'[p][k] = v /\ obs' = obs /\ seen' = seen
    BY <1>8, <2>2 DEF StaleGet, Becomes
  <2>. HIDE DEF v
  <2>. QED  BY <1>3, <2>1, <2>3
<1>9. CASE StalePut(p, k)
  <2>. DEFINE v == [w EXCEPT !.pc = "failed"]
              r == StaleRow(w.prev)
  <2>1. v.pc = "failed"
    BY <1>1 DEF GroupChecks
  <2>2. worker'[p][k] = v
    BY <1>9, StalePutDoes DEF Becomes
  <2>3. obs' = [obs EXCEPT ![k] = r] /\ seen' = seen
    BY <1>9 DEF StalePut, SoleWriter
  <2>4. r.platform = w.prev.platform /\ r.found
    BY <1>2, StaleRowFacts
  <2>5. w.prev.platform = obs[k].platform
    BY <1>9 DEF StalePut, Tracks
  <2>. HIDE DEF v, r
  <2>6. obs'[k] = r /\ \A j \in Keys \ {k} : obs'[j] = obs[j]
    BY <1>1, <2>3
  <2>7. Remembers(k)'
    BY <2>3, <2>4, <2>5, <2>6 DEF Remembers, Known
  <2>8. Tracks(p, k)'
    BY <2>1, <2>2 DEF Tracks
  <2>. QED  BY <2>3, <2>6, <2>7, <2>8
<1>10. CASE PutObservation(p, k)
  <2>. DEFINE v == [w EXCEPT !.pc = "detect"]
              r == FreshRow(w.got)
  <2>1. v.pc = "detect" /\ v.prev = w.prev /\ v.got = w.got
    BY <1>1 DEF GroupChecks
  <2>2. worker'[p][k] = v /\ obs' = [obs EXCEPT ![k] = r]
    BY <1>10, PutDoes DEF Becomes, SoleWriter
  <2>3. seen' = [seen EXCEPT ![k] = [before |-> seen[k].now, now |-> w.got.platform]]
    BY <1>1, <1>10 DEF PutObservation
  <2>4. r.platform = w.got.platform /\ r.found
    BY <1>2, FreshRowFacts
  <2>5. w.prev = obs[k]
    BY <1>10 DEF PutObservation, Tracks
  <2>. HIDE DEF v, r
  <2>6. obs'[k] = r /\ \A j \in Keys \ {k} : obs'[j] = obs[j]
    BY <1>1, <2>2
  <2>7. /\ seen'[k].before = seen[k].now /\ seen'[k].now = w.got.platform
        /\ \A j \in Keys \ {k} : seen'[j] = seen[j]
    BY <1>1, <2>3
  <2>8. Remembers(k)'
    BY <2>4, <2>6, <2>7 DEF Remembers, Known
  <2>9. Tracks(p, k)'
    BY <2>1, <2>2, <2>5, <2>7 DEF Tracks, Remembers, Known
  <2>. QED  BY <2>6, <2>7, <2>8, <2>9
<1>11. CASE Detect(p, k)
  <2>1. obs' = obs /\ seen' = seen /\ worker[p][k].pc = "detect"
    BY <1>11 DEF Detect
  <2>2. PICK es \in Seq(UpdateEvents), b \in BOOLEAN :
          Becomes(p, k, [w EXCEPT !.pc = "ok", !.events = DigestEvents(p, k) \o es, !.partial = b])
    BY <1>11, DetectDoes, ReportableEvents
  <2>. DEFINE d == DigestEvents(p, k) \o es
              v == [w EXCEPT !.pc = "ok", !.events = d, !.partial = b]
  <2>3. worker'[p][k] = v
    BY <2>2 DEF Becomes
  <2>. HIDE DEF d
  <2>4. v.pc = "ok" /\ v.prev = w.prev /\ v.got = w.got
    BY <1>1 DEF GroupChecks
  <2>. HIDE DEF v
  <2>5. Remembers(k)'
    BY <2>1 DEF Remembers, Known
  <2>6. Tracks(p, k)'
    BY <2>1, <2>3, <2>4 DEF Tracks, Known
  <2>. QED  BY <2>1, <2>5, <2>6
<1>. QED  BY <1>4, <1>5, <1>6, <1>7, <1>8, <1>9, <1>10, <1>11 DEF checkGroup

LEMMA SoleNext == ASSUME SoleWriter PROVE SoleInv /\ [Next]_vars => SoleInv'
<1>. SUFFICES ASSUME SoleInv, [Next]_vars PROVE SoleInv'
  OBVIOUS
<1>1. TypeOK' /\ EventsKept'
  BY NextTyped, NextKeepsEvents DEF SoleInv
<1>2. ASSUME NEW q \in Procs, NEW j \in Keys PROVE Remembers(j)' /\ Tracks(q, j)'
  <2>1. Remembers(j) /\ Tracks(q, j) /\ TypeOK
    BY DEF SoleInv
  <2>2. ASSUME NEW k \in Keys, Push(k) PROVE Remembers(j)' /\ Tracks(q, j)'
    BY <2>1, <2>2, PushFacts, SameTracks
  <2>3. ASSUME NEW p \in Procs, StartCheck(p) \/ EndCheck(p) PROVE Remembers(j)' /\ Tracks(q, j)'
    <3>1. p = q
      BY DEF SoleWriter
    <3>2. worker'[q][j].pc \in {"idle", "queued"} /\ obs' = obs /\ seen' = seen
      BY <2>1, <2>3, <3>1, CycleFacts
    <3>. QED  BY <2>1, <3>2 DEF Tracks, Remembers, Known
  <2>4. ASSUME NEW p \in Procs, NEW k \in Keys, checkGroup(p, k) PROVE Remembers(j)' /\ Tracks(q, j)'
    <3>1. p = q
      BY DEF SoleWriter
    <3>2. CASE j = k
      BY <2>1, <2>4, <3>1, <3>2, StepTracks
    <3>3. CASE j # k
      <4>1. worker'[q][j] = worker[q][j]
        BY <2>1, <2>4, <3>3, StepFacts DEF Others
      <4>2. Remembers(k) /\ Tracks(p, k)
        BY <2>4 DEF SoleInv
      <4>3. obs'[j] = obs[j] /\ seen'[j] = seen[j]
        BY <2>1, <2>4, <3>3, <4>2, StepTracks
      <4>. QED  BY <2>1, <4>1, <4>3, SameTracks
    <3>. QED  BY <3>2, <3>3
  <2>5. CASE UNCHANGED vars
    BY <2>1, <2>5, SameTracks DEF vars
  <2>. QED  BY <2>2, <2>3, <2>4, <2>5 DEF Next
<1>3. ASSUME NEW j \in Keys PROVE Remembers(j)'
  <2>1. CASE Procs = {}
    <3>1. UNCHANGED <<obs, seen>>
      BY <2>1, PushFacts DEF Next, vars, SoleInv
    <3>. QED  BY <3>1 DEF SoleInv, Remembers, Known
  <2>. QED  BY <1>2, <2>1
<1>. QED  BY <1>1, <1>2, <1>3 DEF SoleInv

LEMMA SoleInit == Init => SoleInv
<1>. SUFFICES ASSUME Init PROVE SoleInv
  OBVIOUS
<1>1. ASSUME NEW k \in Keys PROVE Remembers(k)
  BY DEF Init, Remembers, Known, NoRow
<1>2. ASSUME NEW p \in Procs, NEW k \in Keys PROVE Tracks(p, k)
  <2>1. worker[p][k] = Idle
    BY DEF Init
  <2>. QED  BY <2>1, IdleFacts DEF Tracks
<1>. QED  BY <1>1, <1>2, InitTyped, InitKeepsEvents DEF SoleInv

\* While one process checks and its store works, failed checks, however many
\* and wherever they fall, leave the stored digest at what the last
\* successful check saw.
THEOREM ObservationRetained == ASSUME SoleWriter PROVE GSpec => []RetainsObservation
<1>1. GInit => SoleInv
  BY SoleInit DEF GInit
<1>2. SoleInv /\ [GNext]_gaugeVars => SoleInv'
  BY SoleNext, GaugeStep
<1>3. SoleInv => RetainsObservation
  BY DEF SoleInv, Remembers, RetainsObservation
<1>. QED  BY <1>1, <1>2, <1>3, PTL DEF GSpec

\* Under the same conditions a check that succeeds reports every change since
\* the last one that did, whatever failed in between.
THEOREM TransitionsReported == ASSUME SoleWriter PROVE GSpec => []TransitionReported
<1>1. GInit => SoleInv
  BY SoleInit DEF GInit
<1>2. SoleInv /\ [GNext]_gaugeVars => SoleInv'
  BY SoleNext, GaugeStep
<1>3. SoleInv => TransitionReported
  <2>. SUFFICES ASSUME SoleInv, NEW p \in Procs, NEW k \in Keys, worker[p][k].pc = "ok",
                       seen[k].before # NoDigest, seen[k].now # NoDigest,
                       seen[k].before # seen[k].now
                PROVE  \E i \in DOMAIN worker[p][k].events :
                         worker[p][k].events[i] = Event(k, digestEventType(k), "", seen[k].now)
    BY DEF TransitionReported
  <2>. DEFINE w == worker[p][k]
  <2>1. w.prev.platform = seen[k].before /\ w.got.platform = seen[k].now /\ Known(w.prev)
    BY DEF SoleInv, Tracks
  <2>2. detectDigestEvents(k, w.prev, w.got) = <<DigestEvent(k, w.got)>>
    BY <2>1 DEF detectDigestEvents, Known
  <2>3. Noticed(p, k)
    BY <2>2 DEF Noticed
  <2>4. ReportsIt(p, k)
    BY <2>3 DEF SoleInv, EventsKept
  <2>5. DigestEvent(k, w.got) = Event(k, digestEventType(k), "", seen[k].now)
    BY <2>1 DEF DigestEvent
  <2>. QED  BY <2>4, <2>5 DEF ReportsIt
<1>. QED  BY <1>1, <1>2, <1>3, PTL DEF GSpec

-----------------------------------------------------------------------------
\* The daemon: a check's events on their way into the pipeline.

\* One turn of the recursion that FlattenSeq is defined by, up to n.
Turn(f, s, n) == [i \in 1..n |-> IF i = 1 THEN s[i] ELSE f[i - 1] \o s[i]]

\* There is a function it leaves alone: up to the first position where there
\* might be none, there is one, and it can be extended.
LEMMA FlattensUpTo ==
  ASSUME NEW s
  PROVE  \A n \in Nat : \E f : f = Turn(f, s, n)
<1>. DEFINE P(n) == \E f : f = Turn(f, s, n)
            Bad == {n \in Nat : ~P(n)}
<1>. SUFFICES ASSUME Bad # {} PROVE FALSE
  OBVIOUS
<1>1. PICK n \in Bad : \A m \in Bad : n <= m
  <2>. HIDE DEF Bad
  <2>1. Bad \in SUBSET Nat
    BY DEF Bad
  <2>. QED  BY <2>1, SmallestElement
<1>2. n \in Nat /\ ~P(n)
  BY <1>1
<1>3. n # 0
  <2>. SUFFICES ASSUME n = 0 PROVE FALSE
    OBVIOUS
  <2>1. PICK f : f = [i \in {} |-> s]
    OBVIOUS
  <2>2. 1..n = {}
    OBVIOUS
  <2>3. f = Turn(f, s, n)
    BY <2>1, <2>2 DEF Turn
  <2>. QED  BY <1>2, <2>3
<1>4. n - 1 \in Nat /\ P(n - 1)
  <2>1. n - 1 \in Nat /\ ~(n <= n - 1)
    BY <1>2, <1>3
  <2>2. n - 1 \notin Bad
    BY <1>1, <2>1
  <2>. HIDE DEF P
  <2>. QED  BY <2>1, <2>2
<1>5. PICK f : f = Turn(f, s, n - 1)
  BY <1>4
<1>. PICK last : last = IF n = 1 THEN s[n] ELSE f[n - 1] \o s[n]
  OBVIOUS
<1>. PICK g : g = [i \in 1..n |-> IF i = n THEN last ELSE f[i]]
  OBVIOUS
<1>6. ASSUME NEW i \in 1..n PROVE g[i] = IF i = 1 THEN s[i] ELSE g[i - 1] \o s[i]
  <2>1. CASE i = n
    <3>1. i # 1 => i - 1 \in 1..n /\ i - 1 # n
      BY <1>2, <2>1
    <3>2. i # 1 => g[i - 1] = f[i - 1]
      BY <3>1
    <3>. QED  BY <2>1, <3>2
  <2>2. CASE i # n
    <3>1. i \in 1..(n - 1) /\ (i # 1 => i - 1 \in 1..n /\ i - 1 # n)
      BY <1>2, <2>2
    <3>2. i # 1 => g[i - 1] = f[i - 1]
      BY <3>1
    <3>3. f[i] = IF i = 1 THEN s[i] ELSE f[i - 1] \o s[i]
      BY <1>5, <3>1 DEF Turn
    <3>. QED  BY <2>2, <3>2, <3>3
  <2>. QED  BY <2>1, <2>2
<1>7. g = Turn(g, s, n)
  BY <1>6 DEF Turn
<1>. QED  BY <1>2, <1>7, Zenon

\* Sequences of elements of S flatten to one.
LEMMA FlattenType ==
  ASSUME NEW S, NEW s \in Seq(Seq(S))
  PROVE  FlattenSeq(s) \in Seq(S)
<1>1. Len(s) \in Nat /\ \A i \in 1..Len(s) : s[i] \in Seq(S)
  OBVIOUS
<1>2. CASE Len(s) = 0
  BY <1>2 DEF FlattenSeq
<1>3. CASE Len(s) # 0
  <2>. DEFINE n == Len(s)
              flatten == CHOOSE f : f = Turn(f, s, n)
  <2>1. FlattenSeq(s) = flatten[n]
    BY <1>3, Zenon DEF FlattenSeq, Turn
  <2>2. \E f : f = Turn(f, s, n)
    BY <1>1, FlattensUpTo
  <2>3. flatten = Turn(flatten, s, n)
    BY <2>2, Zenon
  <2>. HIDE DEF flatten
  <2>4. \A i \in 1..n : flatten[i] = IF i = 1 THEN s[i] ELSE flatten[i - 1] \o s[i]
    BY <2>3 DEF Turn
  <2>. DEFINE Bad == {i \in 1..n : flatten[i] \notin Seq(S)}
  <2>5. Bad = {}
    <3>. SUFFICES ASSUME Bad # {} PROVE FALSE
      OBVIOUS
    <3>1. Bad \in SUBSET Nat
      BY <1>1
    <3>2. PICK i \in Bad : \A j \in Bad : i <= j
      <4>. HIDE DEF Bad
      <4>. QED  BY <3>1, SmallestElement
    <3>3. i \in 1..n /\ flatten[i] \notin Seq(S)
      BY <3>2
    <3>4. CASE i = 1
      BY <1>1, <2>4, <3>3, <3>4
    <3>5. CASE i # 1
      <4>1. i - 1 \in 1..n /\ ~(i <= i - 1)
        BY <1>1, <3>3, <3>5
      <4>2. i - 1 \notin Bad
        BY <3>2, <4>1
      <4>3. flatten[i - 1] \in Seq(S)
        BY <4>1, <4>2
      <4>4. flatten[i] = flatten[i - 1] \o s[i] /\ s[i] \in Seq(S)
        BY <1>1, <2>4, <3>3, <3>5
      <4>5. PICK a, b : a = flatten[i - 1] /\ b = s[i]
        OBVIOUS
      <4>6. a \in Seq(S) /\ b \in Seq(S)
        BY <4>3, <4>4, <4>5
      <4>7. a \o b \in Seq(S)
        BY <4>6
      <4>. QED  BY <3>3, <4>4, <4>5, <4>7, Zenon
    <3>. QED  BY <3>4, <3>5
  <2>6. n \in 1..n
    BY <1>1, <1>3
  <2>7. flatten[n] \in Seq(S)
    BY <2>5, <2>6
  <2>. QED  BY <2>1, <2>7, Zenon
<1>. QED  BY <1>2, <1>3

\* A check that has its answer has one the registry gave.
Answered(p, k) == worker[p][k].pc \in {"put", "detect"} => worker[p][k].got \in Manifests

\* The events of a result can be told apart in the notifications table.
Reports(p, k) == worker[p][k].pc = "ok" => worker[p][k].events \in Seq(Reportable)

ChecksInv == TypeOK /\ \A p \in Procs, k \in Keys : Answered(p, k) /\ Reports(p, k)

LEMMA DigestEventsReportable ==
  ASSUME TypeOK, NEW p \in Procs, NEW k \in Keys, worker[p][k].got \in Manifests
  PROVE  DigestEvents(p, k) \in Seq(Reportable)
<1>. PICK d, e, m : d = DigestEvents(p, k) /\ e = DigestEvent(k, worker[p][k].got) /\ m = worker[p][k].got
  OBVIOUS
<1>1. d \in Seq(UpdateEvents) /\ \A i \in DOMAIN d : d[i] = e
  BY DigestEventsFacts
<1>2. e \in Reportable
  <2>1. digestEventType(k) \in EventTypes /\ digestEventType(k) \in ReportedTypes
    <3>1. digestEventType(k) \in {digestEventType(j) : j \in Keys}
      BY Zenon
    <3>. QED  BY <3>1, DigestTypes, Zenon DEF ReportedTypes
  <2>2. m.platform \in {n.platform : n \in Manifests} \union {NoDigest} /\ m.platform \in Digests
    <3>1. m.platform \in {n.platform : n \in Manifests}
      BY Zenon
    <3>. QED  BY <3>1, Zenon DEF Digests
  <2>3. Event(k, digestEventType(k), "", m.platform) \in Reportable
    BY <2>1, <2>2, EmptyOK, ReportableEvent
  <2>. QED  BY <2>3 DEF DigestEvent
<1>3. Len(d) \in Nat /\ d \in [1..Len(d) -> Reportable]
  BY <1>1, <1>2
<1>. QED  BY <1>3

LEMMA StepAnswers ==
  ASSUME TypeOK, NEW p \in Procs, NEW k \in Keys, checkGroup(p, k), Answered(p, k)
  PROVE  Answered(p, k)'
<1>. DEFINE w == worker[p][k]
<1>1. w \in GroupChecks /\ served[k] \in Manifests
  BY DEF TypeOK
<1>2. ASSUME NEW v, Becomes(p, k, v), v.pc \notin {"put", "detect"} \/ v.got \in Manifests
      PROVE  Answered(p, k)'
  BY <1>2, Zenon DEF Becomes, Answered
<1>3. CASE Launch(p, k)
  <2>1. [w EXCEPT !.pc = "get"].pc \notin {"put", "detect"}
    BY <1>1 DEF GroupChecks
  <2>. QED  BY <1>2, <1>3, <2>1, LaunchDoes
<1>4. CASE GetPrevious(p, k)
  <2>1. /\ [w EXCEPT !.pc = "resolve", !.prev = obs[k]].pc \notin {"put", "detect"}
        /\ [w EXCEPT !.pc = "resolve", !.partial = TRUE].pc \notin {"put", "detect"}
    BY <1>1 DEF GroupChecks
  <2>. QED  BY <1>2, <1>4, <2>1, GetDoes
<1>5. CASE ResolveOK(p, k)
  <2>1. [w EXCEPT !.pc = "put", !.got = served[k]].got \in Manifests
    BY <1>1 DEF GroupChecks
  <2>. QED  BY <1>2, <1>5, <2>1, ResolveDoes
<1>6. CASE ResolveFail(p, k)
  <2>1. [w EXCEPT !.pc = "stale"].pc \notin {"put", "detect"}
    BY <1>1 DEF GroupChecks
  <2>. QED  BY <1>2, <1>6, <2>1, ResolveFailDoes
<1>7. CASE StaleGet(p, k)
  <2>1. \A row : [w EXCEPT !.pc = "stalePut", !.prev = row].pc \notin {"put", "detect"}
    BY <1>1 DEF GroupChecks
  <2>2. PICK row : Becomes(p, k, [w EXCEPT !.pc = "stalePut", !.prev = row])
    BY <1>7, StaleGetDoes, Zenon
  <2>. QED  BY <1>2, <2>1, <2>2
<1>8. CASE StalePut(p, k)
  <2>1. [w EXCEPT !.pc = "failed"].pc \notin {"put", "detect"}
    BY <1>1 DEF GroupChecks
  <2>. QED  BY <1>2, <1>8, <2>1, StalePutDoes
<1>9. CASE PutObservation(p, k)
  <2>1. w.got \in Manifests
    BY <1>9 DEF PutObservation, Answered
  <2>2. /\ [w EXCEPT !.pc = "detect"].got = w.got
        /\ [w EXCEPT !.pc = "detect", !.partial = TRUE].got = w.got
    BY <1>1 DEF GroupChecks
  <2>3. \/ Becomes(p, k, [w EXCEPT !.pc = "detect"])
        \/ Becomes(p, k, [w EXCEPT !.pc = "detect", !.partial = TRUE])
    BY <1>9, PutDoes
  <2>. QED  BY <1>2, <2>1, <2>2, <2>3
<1>10. CASE Detect(p, k)
  <2>1. PICK es \in Seq(Reportable), b \in BOOLEAN :
          Becomes(p, k, [w EXCEPT !.pc = "ok", !.events = DigestEvents(p, k) \o es, !.partial = b])
    BY <1>10, DetectDoes
  <2>2. PICK d : d = DigestEvents(p, k) \o es
    OBVIOUS
  <2>3. [w EXCEPT !.pc = "ok", !.events = d, !.partial = b].pc \notin {"put", "detect"}
    BY <1>1 DEF GroupChecks
  <2>. QED  BY <1>2, <2>1, <2>2, <2>3
<1>. QED  BY <1>3, <1>4, <1>5, <1>6, <1>7, <1>8, <1>9, <1>10 DEF checkGroup

LEMMA StepReports ==
  ASSUME TypeOK, NEW p \in Procs, NEW k \in Keys, checkGroup(p, k), Answered(p, k)
  PROVE  Reports(p, k)'
<1>. SUFFICES ASSUME worker'[p][k].pc = "ok" PROVE worker'[p][k].events \in Seq(Reportable)
  BY DEF Reports
<1>1. Concluded(p, k)
  BY StepFacts
<1>2. PICK es \in Seq(Reportable) : worker'[p][k].events = DigestEvents(p, k) \o es
  BY <1>1 DEF Concluded
<1>3. DigestEvents(p, k) \in Seq(Reportable)
  BY <1>1, DigestEventsReportable DEF Concluded, Answered
<1>4. \A d \in Seq(Reportable) : d \o es \in Seq(Reportable)
  OBVIOUS
<1>. QED  BY <1>2, <1>3, <1>4

\* The checks keep their invariant whichever process acts.
LEMMA CheckKeeps ==
  ASSUME ChecksInv, NEW p \in Procs, NEW k \in Keys, checkGroup(p, k)
  PROVE  ChecksInv'
<1>1. TypeOK /\ Answered(p, k)
  BY DEF ChecksInv
<1>2. TypeOK' /\ Others(p, k)
  BY <1>1, StepFacts
<1>3. ASSUME NEW q \in Procs, NEW j \in Keys PROVE Answered(q, j)' /\ Reports(q, j)'
  <2>1. CASE q = p /\ j = k
    BY <1>1, <2>1, StepAnswers, StepReports
  <2>2. CASE q # p \/ j # k
    <3>1. worker'[q][j] = worker[q][j]
      BY <1>2, <2>2 DEF Others
    <3>. QED  BY <3>1 DEF ChecksInv, Answered, Reports
  <2>. QED  BY <2>1, <2>2
<1>. QED  BY <1>2, <1>3 DEF ChecksInv

\* What was reset has neither answer nor events.
LEMMA ResetKeeps ==
  ASSUME ChecksInv, TypeOK', NEW p \in Procs,
         \A k \in Keys : worker'[p][k].pc \in {"idle", "queued"},
         \A q \in Procs \ {p} : worker'[q] = worker[q]
  PROVE  ChecksInv'
<1>1. ASSUME NEW q \in Procs, NEW j \in Keys PROVE Answered(q, j)' /\ Reports(q, j)'
  <2>1. CASE q = p
    BY <2>1 DEF Answered, Reports
  <2>2. CASE q # p
    BY <2>2 DEF ChecksInv, Answered, Reports
  <2>. QED  BY <2>1, <2>2
<1>. QED  BY <1>1 DEF ChecksInv

\* The pipeline's own lemmas, with every list of items a check might hand
\* over.
PP == INSTANCE PipelineProofs WITH
        ItemLists <- Seq([fp : Fingerprints, allowed : Nat]), Faults <- Faults \ {"registry"}

LEMMA PipeAssumption ==
  /\ NumNotifiers \in Nat
  /\ Mode \in {"batch", "individual"}
  /\ Seq([fp : Fingerprints, allowed : Nat]) \subseteq Seq(PP!Item)
  /\ Faults \ {"registry"} \subseteq PP!FaultKinds
<1>1. Faults \ {"registry"} \subseteq PP!FaultKinds
  BY DaemonAssumption DEF Pipe!FaultKinds, PP!FaultKinds
<1>2. PP!Item = [fp : Fingerprints, allowed : Nat]
  BY DEF PP!Item
<1>. QED  BY <1>1, <1>2, DaemonAssumption

\* As many containers want an event as there are.
LEMMA AllowedFinite ==
  ASSUME NEW snap \in Snapshots, NEW k, NEW t
  PROVE  Cardinality(Allowed(snap, k, t)) \in Nat
<1>1. IsFiniteSet(DOMAIN snap)
  BY ObserverAssumption DEF SnapshotOK
<1>2. Allowed(snap, k, t) \in SUBSET DOMAIN snap
  BY Zenon DEF Allowed, Members
<1>. QED  BY <1>1, <1>2, FS_Subset, FS_CardinalityType

\* What BuildNotification is handed are items with fingerprints.
LEMMA ResultItemsType ==
  ASSUME ChecksInv, NEW p \in Procs
  PROVE  ResultItems(p) \in Seq([fp : Fingerprints, allowed : Nat])
<1>. DEFINE I == [fp : Fingerprints, allowed : Nat]
            item(k, i) == [fp |-> Fingerprint(worker[p][k].events[i]),
                           allowed |-> Cardinality(Allowed(snapshot[p], k, worker[p][k].events[i].type))]
            items(k) == [i \in DOMAIN worker[p][k].events |-> item(k, i)]
            all == [k \in Keys |-> IF worker[p][k].pc = "ok" THEN items(k) ELSE <<>>]
<1>1. ASSUME NEW k \in Keys, worker[p][k].pc = "ok" PROVE items(k) \in Seq(I)
  <2>. PICK es : es = worker[p][k].events
    OBVIOUS
  <2>1. es \in Seq(Reportable)
    BY <1>1 DEF ChecksInv, Reports
  <2>2. ASSUME NEW i \in DOMAIN es PROVE item(k, i) \in I
    <3>1. es[i] \in Reportable
      BY <2>1
    <3>2. Fingerprint(es[i]) \in Fingerprints
      BY <3>1 DEF Reportable
    <3>3. snapshot[p] \in Snapshots
      BY DEF ChecksInv, TypeOK
    <3>4. PICK n : n = Cardinality(Allowed(snapshot[p], k, es[i].type))
      OBVIOUS
    <3>5. n \in Nat
      BY <3>3, <3>4, AllowedFinite
    <3>. QED  BY <3>2, <3>4, <3>5
  <2>. HIDE DEF I, item
  <2>3. Len(es) \in Nat /\ DOMAIN es = 1..Len(es)
    BY <2>1
  <2>4. items(k) \in [1..Len(es) -> I]
    BY <2>2, <2>3
  <2>. QED  BY <2>3, <2>4
<1>2. ResultItems(p) = FlattenSeq(all)
  BY DEF ResultItems
<1>3. all \in Seq(Seq(I))
  <2>. HIDE DEF items, I
  <2>1. all \in [1..NumKeys -> Seq(I)]
    BY <1>1 DEF Keys
  <2>2. NumKeys \in Nat
    BY ObserverAssumption
  <2>. HIDE DEF all
  <2>. QED  BY <2>1, <2>2
<1>. HIDE DEF all, I
<1>4. FlattenSeq(all) \in Seq(I)
  BY <1>3, FlattenType
<1>. QED  BY <1>2, <1>4 DEF I

\* The inductive invariant of the whole loop.
DaemonInv == ChecksInv /\ PP!IInv

\* A step of the daemon is one of the pipeline, or nothing to it.
LEMMA DaemonPipeStep == ChecksInv /\ [DNext]_allVars => [PP!Next]_(PP!vars)
<1>. SUFFICES ASSUME ChecksInv, [DNext]_allVars PROVE PP!Next \/ UNCHANGED PP!vars
  OBVIOUS
<1>1. UNCHANGED pipeVars => UNCHANGED PP!vars
  BY DEF pipeVars, PP!vars
<1>2. ASSUME NEW p \in Procs, HandOver(p) PROVE PP!Next
  <2>1. PICK items : items = ResultItems(p)
    OBVIOUS
  <2>2. items \in Seq([fp : Fingerprints, allowed : Nat]) /\ Pipe!Begin(p, items)
    BY <1>2, <2>1, ResultItemsType DEF HandOver
  <2>3. PP!Begin(p, items)
    BY <2>2, Zenon DEF Pipe!Begin, PP!Begin
  <2>. QED  BY <2>2, <2>3, Zenon DEF PP!Next
<1>3. ASSUME NEW p \in Procs, Notify(p) PROVE PP!Next
  <2>1. Pipe!Cycle(p)
    BY <1>3 DEF Notify
  <2>2. PP!Cycle(p)
    BY <2>1, Zenon
    DEF Pipe!Cycle, PP!Cycle, Pipe!SkipUnwanted, PP!SkipUnwanted, Pipe!SuppressNotified,
        PP!SuppressNotified, Pipe!IncludeItem, PP!IncludeItem, Pipe!FinishBuild, PP!FinishBuild,
        Pipe!NotifyOK, PP!NotifyOK, Pipe!NotifyFail, PP!NotifyFail, Pipe!HandPart, PP!HandPart,
        Pipe!Receive, PP!Receive, Pipe!Items, PP!Items, Pipe!HasTwice, PP!HasTwice,
        Pipe!Batch, PP!Batch, Pipe!Rest, PP!Rest, Pipe!NextBatch, PP!NextBatch,
        Pipe!EndDeliver, PP!EndDeliver, Pipe!MarkItem, PP!MarkItem, Pipe!MarkFail, PP!MarkFail,
        Pipe!EndMark, PP!EndMark, Pipe!Notifiers, PP!Notifiers
  <2>. QED  BY <2>2, Zenon DEF PP!Next
<1>4. ASSUME NEW p \in Procs, OpenStore(p) PROVE PP!Next
  BY <1>4, Zenon DEF OpenStore, Pipe!Open, PP!Next, PP!Open
<1>5. ASSUME NEW p \in Procs, Die(p) PROVE PP!Next
  <2>1. /\ phase[p] # "down" /\ Pipe!Die(p)
        /\ "crash" \in Faults \/ ("restart" \in Faults /\ phase[p] = "idle")
    BY <1>5 DEF Die
  <2>2. PP!Die(p)
    BY <2>1, Zenon
    DEF Pipe!Die, PP!Die, Pipe!HandPart, PP!HandPart, Pipe!Receive, PP!Receive, Pipe!Items,
        PP!Items, Pipe!HasTwice, PP!HasTwice, Pipe!Batch, PP!Batch, Pipe!Notifiers, PP!Notifiers
  <2>3. PP!Stop(p) \/ PP!Crash(p)
    BY <2>1, <2>2 DEF PP!Stop, PP!Crash
  <2>. QED  BY <2>3, Zenon DEF PP!Next
<1>6. ASSUME NEW f \in Fingerprints, Expire(f) PROVE PP!Next
  BY <1>6, Zenon DEF Expire, Pipe!Expire, PP!Next, PP!Expire
<1>7. ASSUME NEW p \in Procs, RunCheck(p) \/ Check(p) PROVE UNCHANGED pipeVars
  BY <1>7 DEF RunCheck, Check
<1>8. ASSUME NEW k \in Keys, Publish(k) PROVE UNCHANGED pipeVars
  BY <1>8 DEF Publish
<1>9. UNCHANGED allVars => UNCHANGED pipeVars
  BY DEF allVars
<1>. QED  BY <1>1, <1>2, <1>3, <1>4, <1>5, <1>6, <1>7, <1>8, <1>9 DEF DNext

\* No step of the daemon disturbs its checks.
LEMMA DaemonChecksStep == ChecksInv /\ [DNext]_allVars => ChecksInv'
<1>. SUFFICES ASSUME ChecksInv, [DNext]_allVars PROVE ChecksInv'
  OBVIOUS
<1>0. TypeOK
  BY DEF ChecksInv
<1>1. ASSUME UNCHANGED vars PROVE ChecksInv'
  BY <1>1 DEF ChecksInv, vars, TypeOK, Answered, Reports
<1>2. ASSUME NEW p \in Procs, StartCheck(p) \/ EndCheck(p) PROVE ChecksInv'
  BY <1>0, <1>2, CycleFacts, ResetKeeps
<1>3. ASSUME NEW p \in Procs, Check(p) PROVE ChecksInv'
  BY <1>3, CheckKeeps DEF Check
<1>4. ASSUME NEW p \in Procs, Die(p) PROVE ChecksInv'
  <2>1. /\ checking' = [checking EXCEPT ![p] = FALSE]
        /\ worker' = [worker EXCEPT ![p] = [k \in Keys |-> Idle]]
        /\ UNCHANGED <<served, obs, seen, snapshot>>
    BY <1>4 DEF Die
  <2>2. Idle \in GroupChecks /\ Idle.pc = "idle"
    BY IdleFacts
  <2>3. worker \in [Procs -> [Keys -> GroupChecks]]
    BY <1>0 DEF TypeOK
  <2>4. worker' \in [Procs -> [Keys -> GroupChecks]]
    BY <2>1, <2>2, <2>3
  <2>5. /\ \A k \in Keys : worker'[p][k].pc \in {"idle", "queued"}
        /\ \A q \in Procs \ {p} : worker'[q] = worker[q]
    BY <2>1, <2>2, <2>3
  <2>6. checking' \in [Procs -> BOOLEAN]
    BY <1>0, <2>1 DEF TypeOK
  <2>7. TypeOK'
    BY <1>0, <2>1, <2>4, <2>6 DEF TypeOK
  <2>. QED  BY <2>5, <2>7, ResetKeeps
<1>5. ASSUME NEW k \in Keys, Publish(k) PROVE ChecksInv'
  <2>1. TypeOK' /\ worker' = worker
    BY <1>0, <1>5, PushFacts DEF Publish
  <2>. QED  BY <2>1 DEF ChecksInv, Answered, Reports
<1>6. ASSUME NEW p \in Procs, Notify(p) \/ OpenStore(p) PROVE ChecksInv'
  BY <1>1, <1>6 DEF Notify, OpenStore
<1>7. ASSUME NEW f \in Fingerprints, Expire(f) PROVE ChecksInv'
  BY <1>1, <1>7 DEF Expire
<1>8. ASSUME NEW p \in Procs, RunCheck(p) \/ HandOver(p) PROVE ChecksInv'
  BY <1>2, <1>8 DEF RunCheck, HandOver
<1>9. UNCHANGED allVars => UNCHANGED vars
  BY DEF allVars, vars
<1>. QED  BY <1>1, <1>3, <1>4, <1>5, <1>6, <1>7, <1>8, <1>9 DEF DNext

LEMMA DaemonInit == DInit => DaemonInv
<1>. SUFFICES ASSUME DInit PROVE DaemonInv
  OBVIOUS
<1>1. TypeOK
  BY InitTyped DEF DInit
<1>2. ASSUME NEW p \in Procs, NEW k \in Keys PROVE Answered(p, k) /\ Reports(p, k)
  <2>1. worker[p][k] = Idle
    BY DEF DInit, Init
  <2>. QED  BY <2>1, IdleFacts DEF Answered, Reports
<1>3. PP!Init
  BY DEF DInit, Pipe!Init, PP!Init
<1>4. PP!IInv
  BY <1>3, PP!InitIInv, PipeAssumption
<1>. QED  BY <1>1, <1>2, <1>4 DEF DaemonInv, ChecksInv

LEMMA DaemonStep == DaemonInv /\ [DNext]_allVars => DaemonInv'
<1>1. PP!IInv /\ [PP!Next]_(PP!vars) => PP!IInv'
  BY PP!StepIInv, PipeAssumption
<1>. QED  BY <1>1, DaemonPipeStep, DaemonChecksStep DEF DaemonInv

\* The whole daemon hides nothing: with any number of processes that check,
\* deliver, crash and prune over one database, a row of the notifications table
\* stands for an event that a target received.
THEOREM DaemonHidesNothing == DSpec => []NothingHidden
<1>1. DaemonInv => NothingHidden
  <2>1. PP!IInv => PP!MarkedWasReceived
    BY DEF PP!IInv
  <2>2. PP!MarkedWasReceived => Pipe!MarkedWasReceived
    BY Zenon DEF PP!MarkedWasReceived, Pipe!MarkedWasReceived, PP!Notifiers, Pipe!Notifiers
  <2>. QED  BY <2>1, <2>2 DEF DaemonInv, NothingHidden
<1>. QED  BY <1>1, DaemonInit, DaemonStep, PTL DEF DSpec

\* The daemon implements the delivery ledger, its checks included: every step
\* of a check, a delivery, a crash or a restart hands notifications over,
\* retires one that was handed over, forgets retired ones, or shows nothing.
THEOREM DaemonKeepsLedger == DSpec => Pipe!KeepsLedger
<1>1. DInit => Pipe!Promise!Init
  BY DEF DInit, Pipe!Init, Pipe!Promise!Init
<1>2. DaemonInv /\ [DNext]_allVars => [PP!Promise!Next]_(PP!Promise!vars)
  <2>1. PP!IInv /\ [PP!Next]_(PP!vars) => [PP!Promise!Next]_(PP!Promise!vars)
    BY PP!SimulationStep, PipeAssumption
  <2>. QED  BY <2>1, DaemonPipeStep DEF DaemonInv
<1>3. [PP!Promise!Next]_(PP!Promise!vars) => [Pipe!Promise!Next]_(Pipe!Promise!vars)
  BY Zenon
  DEF PP!Promise!Next, Pipe!Promise!Next, PP!Promise!vars, Pipe!Promise!vars,
      PP!Promise!Receive, Pipe!Promise!Receive, PP!Promise!Retire, Pipe!Promise!Retire,
      PP!Promise!Forget, Pipe!Promise!Forget, PP!Notifiers, Pipe!Notifiers
<1>. QED  BY <1>1, <1>2, <1>3, DaemonInit, DaemonStep, PTL DEF DSpec, Pipe!KeepsLedger, Pipe!Promise!Spec
=============================================================================
