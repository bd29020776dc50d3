-------------------------- MODULE CandidatesProofs ---------------------------
(***************************************************************************)
(* Candidate analysis misses no update and invents none, for every running *)
(* tag and every list of tags.                                             *)
(***************************************************************************)
EXTENDS Candidates, WellFoundedInduction, TLAPS

\* What the loop knows about the tags it has examined.
Examined ==
  \A kind \in Kinds : \A i \in DOMAIN tags :
    HasApplication(current) /\ i < next /\ Eligible(kind, tags[i])
    => best[kind] # NoTag /\ ~Newer(VersionOn(kind, tags[i]), VersionOn(kind, best[kind]))

\* A candidate is a listed tag of its kind.
Genuine ==
  \A kind \in Kinds : best[kind] # NoTag => best[kind] \in Listed /\ Eligible(kind, best[kind])

LoopInv ==
  /\ current \in Seq(Segment) /\ tags \in Seq(Seq(Segment))
  /\ next \in 1..(Len(tags) + 1)
  /\ DOMAIN best = Kinds
  /\ ~HasApplication(current) => next = Len(tags) + 1 /\ \A kind \in Kinds : best[kind] = NoTag
  /\ Examined /\ Genuine

USE CandidatesAssumption

-----------------------------------------------------------------------------

\* A non-empty set of indices has a first one.
LEMMA EarliestIsFirst ==
  ASSUME NEW S \in SUBSET Nat, S # {}
  PROVE  Earliest(S) \in S /\ \A j \in S : Earliest(S) <= j
<1>. DEFINE R == {ss \in Nat \X Nat : ss[1] < ss[2]}
<1>1. IsWellFoundedOn(R, Nat)
  BY NatLessThanWellFounded, Zenon DEF OpToRel
<1>2. PICK x \in S : \A y \in S : <<y, x>> \notin R
  <2>. HIDE DEF R
  <2>. QED  BY <1>1, WFMin
<1>3. ASSUME NEW j \in S PROVE x <= j
  <2>1. <<j, x>> \in Nat \X Nat /\ <<j, x>>[1] = j /\ <<j, x>>[2] = x
    OBVIOUS
  <2>2. ~(j < x)
    BY <1>2, <2>1, Zenon
  <2>. QED  BY <2>2
<1>. QED  BY <1>2, <1>3 DEF Earliest

\* The order of versions is total on what their numbers tell apart.
LEMMA VersionOrder ==
  ASSUME NEW u \in Version, NEW v \in Version, NEW w \in Version
  PROVE  /\ ~Newer(u, u)
         /\ Newer(u, v) /\ Newer(v, w) => Newer(u, w)
         /\ Newer(u, v) => ~Newer(v, u)
         /\ ~Newer(u, v) /\ ~Newer(v, u) => SameVersion(u, v)
         /\ ~Newer(u, v) /\ ~Newer(v, w) => ~Newer(u, w)
         /\ SameVersion(u, v) => (Newer(u, w) <=> Newer(v, w)) /\ (Newer(w, u) <=> Newer(w, v))
<1>1. /\ u.n = <<u.n[1], u.n[2], u.n[3]>> /\ u.n[1] \in Nat /\ u.n[2] \in Nat /\ u.n[3] \in Nat
      /\ v.n = <<v.n[1], v.n[2], v.n[3]>> /\ v.n[1] \in Nat /\ v.n[2] \in Nat /\ v.n[3] \in Nat
      /\ w.n[1] \in Nat /\ w.n[2] \in Nat /\ w.n[3] \in Nat
  BY DEF Version
<1>2. ~Newer(u, v) /\ ~Newer(v, u) => SameVersion(u, v)
  <2>1. ~Newer(u, v) /\ ~Newer(v, u) => u.n[1] = v.n[1] /\ u.n[2] = v.n[2] /\ u.n[3] = v.n[3]
    BY <1>1 DEF Newer
  <2>. QED  BY <1>1, <2>1 DEF SameVersion
<1>3. SameVersion(u, v) => (Newer(u, w) <=> Newer(v, w)) /\ (Newer(w, u) <=> Newer(w, v))
  BY DEF SameVersion, Newer
<1>. QED  BY <1>1, <1>2, <1>3 DEF Newer

\* The application version of a tag is the version of one of its segments.
LEMMA ApplicationType ==
  ASSUME NEW t \in Seq(Segment), HasApplication(t)
  PROVE  Application(t) \in Version /\ Application(t).precision \in 1..3
<1>. DEFINE I == Of(t, {"version"})
            Best(i) == \A j \in I \ {i} : \/ t[i].ver.precision > t[j].ver.precision
                                          \/ t[i].ver.precision = t[j].ver.precision /\ i < j
            P == {4 - t[i].ver.precision : i \in I}
<1>1. I \in SUBSET Nat /\ I # {} /\ I \subseteq DOMAIN t
  BY DEF Of, HasApplication
<1>2. ASSUME NEW i \in I PROVE t[i] \in Segment /\ t[i].ver \in Version /\ t[i].ver.precision \in 1..3
  <2>1. t[i] \in Segment /\ t[i].kind = "version"
    BY DEF Of
  <2>2. t[i].ver \in Version /\ t[i].ver.precision # 0
    BY <2>1 DEF Segment
  <2>. QED  BY <2>1, <2>2 DEF Version
<1>3. P \in SUBSET Nat /\ P # {}
  <2>. HIDE DEF I
  <2>. QED  BY <1>1, <1>2
<1>. HIDE DEF I
<1>4. Earliest(P) \in P /\ \A q \in P : Earliest(P) <= q
  <2>. HIDE DEF P
  <2>. QED  BY <1>3, EarliestIsFirst
<1>5. PICK k \in I : Earliest(P) = 4 - t[k].ver.precision
  BY <1>4
<1>. DEFINE J == {i \in I : t[i].ver.precision = t[k].ver.precision}
<1>6. J \in SUBSET Nat /\ J # {}
  BY <1>1
<1>7. Earliest(J) \in J /\ \A j \in J : Earliest(J) <= j
  <2>. HIDE DEF J
  <2>. QED  BY <1>6, EarliestIsFirst
<1>8. \E i \in I : Best(i)
  <2>. DEFINE e == Earliest(J)
  <2>1. e \in I /\ t[e].ver.precision = t[k].ver.precision /\ e \in Nat
    BY <1>1, <1>7
  <2>2. ASSUME NEW j \in I \ {e}
        PROVE  t[e].ver.precision > t[j].ver.precision
               \/ (t[e].ver.precision = t[j].ver.precision /\ e < j)
    <3>1. t[j].ver.precision \in 1..3 /\ t[k].ver.precision \in 1..3 /\ j \in Nat
      BY <1>1, <1>2
    <3>2. 4 - t[k].ver.precision <= 4 - t[j].ver.precision
      BY <1>4, <1>5
    <3>3. t[j].ver.precision = t[k].ver.precision => e <= j
      BY <1>7
    <3>. HIDE DEF e
    <3>. QED  BY <2>1, <3>1, <3>2, <3>3
  <2>. HIDE DEF e
  <2>. QED  BY <2>1, <2>2
<1>9. (CHOOSE i \in I : Best(i)) \in I
  <2>. HIDE DEF Best
  <2>. QED  BY <1>8
<1>10. Application(t) = t[CHOOSE i \in I : Best(i)].ver
  BY DEF Application, I
<1>. QED  BY <1>2, <1>9, <1>10

\* So is the base component.
LEMMA BaseType ==
  ASSUME NEW t \in Seq(Segment), HasBase(t)
  PROVE  Base(t) \in Segment /\ Base(t).ver \in Version
<1>. DEFINE I == Of(t, {"base"})
<1>1. I \in SUBSET Nat /\ I # {} /\ I \subseteq DOMAIN t
  BY DEF Of, HasBase
<1>2. Earliest(I) \in I
  <2>. HIDE DEF I
  <2>. QED  BY <1>1, EarliestIsFirst
<1>3. Base(t) \in Segment
  BY <1>1, <1>2 DEF Base
<1>. QED  BY <1>3 DEF Segment

\* A tag of a kind has the version the kind competes with, and it is newer.
LEMMA EligibleVersion ==
  ASSUME current \in Seq(Segment), HasApplication(current),
         NEW kind \in Kinds, NEW t \in Seq(Segment), Eligible(kind, t)
  PROVE  /\ VersionOn(kind, t) \in Version
         /\ VersionOn(kind, current) \in Version
         /\ Newer(VersionOn(kind, t), VersionOn(kind, current))
<1>1. CASE kind = "base"
  <2>1. HasBase(current) /\ HasBase(t) /\ Newer(Base(t).ver, Base(current).ver)
    BY <1>1 DEF Eligible
  <2>. QED  BY <1>1, <2>1, BaseType DEF VersionOn
<1>2. CASE kind # "base"
  <2>1. HasApplication(t) /\ Classify(Application(t), Application(current)) = kind
    BY <1>2 DEF Eligible
  <2>2. Application(t) \in Version /\ Application(current) \in Version
    BY <2>1, ApplicationType
  <2>3. Newer(Application(t), Application(current))
    BY <2>1, <2>2 DEF Classify, Kinds, Newer
  <2>. QED  BY <1>2, <2>2, <2>3 DEF VersionOn
<1>. QED  BY <1>1, <1>2

-----------------------------------------------------------------------------

LEMMA InitLoopInv == Init => LoopInv
<1>1. SUFFICES ASSUME Init PROVE LoopInv
  OBVIOUS
<1>2. /\ current \in Seq(Segment) /\ tags \in Seq(Seq(Segment))
      /\ best = [kind \in Kinds |-> NoTag] /\ (HasApplication(current) => next = 1)
      /\ (~HasApplication(current) => next = Len(tags) + 1)
  BY <1>1 DEF Init
<1>3. Len(tags) \in Nat /\ DOMAIN tags = 1..Len(tags)
  BY <1>2
<1>4. Examined
  BY <1>2, <1>3 DEF Examined
<1>. QED  BY <1>2, <1>3, <1>4 DEF LoopInv, Genuine

\* One turn of the loop keeps the newest candidate of each kind.
LEMMA ExamineStep ==
  ASSUME LoopInv, Examine
  PROVE  LoopInv'
<1>. DEFINE t == tags[next]
<1>1. /\ current \in Seq(Segment) /\ tags \in Seq(Seq(Segment)) /\ next \in DOMAIN tags
      /\ current' = current /\ tags' = tags /\ next' = next + 1
      /\ best' = [kind \in Kinds |-> IF Eligible(kind, t) THEN update(best[kind], kind, t) ELSE best[kind]]
  BY DEF LoopInv, Examine
<1>2. /\ Len(tags) \in Nat /\ DOMAIN tags = 1..Len(tags) /\ t \in Seq(Segment) /\ t \in Listed
      /\ next \in 1..Len(tags) /\ t # NoTag
  BY <1>1 DEF Listed
<1>3. HasApplication(current)
  BY <1>1, <1>2 DEF LoopInv
<1>4. /\ Listed' = Listed /\ (HasApplication(current))' = HasApplication(current)
      /\ \A k, u : Eligible(k, u)' = Eligible(k, u)
  BY <1>1 DEF Listed, Eligible
<1>5. ASSUME NEW kind \in Kinds
      PROVE  /\ best'[kind] # NoTag => best'[kind] \in Listed /\ Eligible(kind, best'[kind])
             /\ \A i \in DOMAIN tags :
                  i < next + 1 /\ Eligible(kind, tags[i])
                  => best'[kind] # NoTag /\ ~Newer(VersionOn(kind, tags[i]), VersionOn(kind, best'[kind]))
  <2>. DEFINE b == best[kind]
  <2>1. /\ b # NoTag => b \in Listed /\ Eligible(kind, b)
        /\ \A i \in DOMAIN tags :
             i < next /\ Eligible(kind, tags[i])
             => b # NoTag /\ ~Newer(VersionOn(kind, tags[i]), VersionOn(kind, b))
    BY <1>3 DEF LoopInv, Genuine, Examined
  <2>2. best'[kind] = IF Eligible(kind, t) THEN update(b, kind, t) ELSE b
    BY <1>1
  <2>3. Listed \subseteq Seq(Segment)
    BY <1>1 DEF Listed
  <2>4. ASSUME NEW i \in DOMAIN tags, i < next + 1 PROVE i < next \/ tags[i] = t
    BY <1>2, <2>4
  <2>5. CASE ~Eligible(kind, t)
    <3>1. best'[kind] = b
      BY <2>2, <2>5
    <3>. HIDE DEF t, b
    <3>. QED  BY <2>1, <2>4, <2>5, <3>1
  <2>6. CASE Eligible(kind, t)
    <3>1. VersionOn(kind, t) \in Version
      BY <1>1, <1>2, <1>3, <2>6, EligibleVersion
    <3>2. CASE b = NoTag
      <4>1. best'[kind] = t
        BY <2>2, <2>6, <3>2 DEF update
      <4>2. ~Newer(VersionOn(kind, t), VersionOn(kind, t))
        BY <3>1, VersionOrder
      <4>. HIDE DEF t, b
      <4>. QED  BY <1>2, <2>1, <2>4, <2>6, <3>2, <4>1, <4>2
    <3>3. CASE b # NoTag
      <4>1. b \in Seq(Segment) /\ Eligible(kind, b)
        BY <2>1, <2>3, <3>3
      <4>2. VersionOn(kind, b) \in Version
        BY <1>1, <1>3, <4>1, EligibleVersion
      <4>3. CASE Newer(VersionOn(kind, t), VersionOn(kind, b))
        <5>1. best'[kind] = t
          BY <2>2, <2>6, <4>3 DEF update
        <5>2. ~Newer(VersionOn(kind, t), VersionOn(kind, t)) /\ ~Newer(VersionOn(kind, b), VersionOn(kind, t))
          BY <3>1, <4>2, <4>3, VersionOrder
        <5>3. ASSUME NEW i \in DOMAIN tags, i < next, Eligible(kind, tags[i])
              PROVE  ~Newer(VersionOn(kind, tags[i]), VersionOn(kind, t))
          <6>1. tags[i] \in Seq(Segment)
            BY <1>1
          <6>2. VersionOn(kind, tags[i]) \in Version
            BY <1>1, <1>3, <5>3, <6>1, EligibleVersion
          <6>3. ~Newer(VersionOn(kind, tags[i]), VersionOn(kind, b))
            BY <2>1, <5>3
          <6>. HIDE DEF t, b
          <6>. QED  BY <3>1, <4>2, <5>2, <6>2, <6>3, VersionOrder
        <5>. HIDE DEF t, b
        <5>. QED  BY <1>2, <2>4, <2>6, <5>1, <5>2, <5>3
      <4>4. CASE ~Newer(VersionOn(kind, t), VersionOn(kind, b))
        <5>1. best'[kind] = b
          BY <2>2, <3>3, <4>4 DEF update
        <5>. HIDE DEF t, b
        <5>. QED  BY <2>1, <2>4, <3>3, <4>4, <5>1
      <4>. QED  BY <4>3, <4>4
    <3>. QED  BY <3>2, <3>3
  <2>. QED  BY <2>5, <2>6
<1>6. Examined'
  <2>. HIDE DEF t
  <2>. QED  BY <1>1, <1>4, <1>5 DEF Examined, VersionOn
<1>7. Genuine'
  <2>. HIDE DEF t
  <2>. QED  BY <1>4, <1>5 DEF Genuine
<1>8. DOMAIN best' = Kinds
  BY <1>1
<1>9. next' \in 1..(Len(tags') + 1)
  BY <1>1, <1>2
<1>. QED  BY <1>1, <1>3, <1>4, <1>6, <1>7, <1>8, <1>9 DEF LoopInv

\* The loop has examined what lies before it.
LEMMA Invariance == Spec => []LoopInv
<1>1. LoopInv /\ [Next]_vars => LoopInv'
  <2>1. ASSUME LoopInv, UNCHANGED vars PROVE LoopInv'
    BY <2>1 DEF vars, LoopInv, Examined, Genuine, Listed, Eligible
  <2>. QED  BY <2>1, ExamineStep DEF Next, Return
<1>. QED  BY InitLoopInv, <1>1, PTL DEF Spec

-----------------------------------------------------------------------------

\* When the loop is done, it has examined every tag.
LEMMA AllExamined ==
  ASSUME LoopInv, Done, HasApplication(current), NEW kind \in Kinds, NEW t \in Listed, Eligible(kind, t)
  PROVE  best[kind] # NoTag /\ ~Newer(VersionOn(kind, t), VersionOn(kind, best[kind]))
<1>1. PICK i \in DOMAIN tags : t = tags[i]
  BY DEF Listed
<1>2. i < next
  BY <1>1 DEF LoopInv, Done
<1>. QED  BY <1>1, <1>2 DEF LoopInv, Examined

\* A reported candidate is a listed tag of its kind.
LEMMA ResultFacts ==
  ASSUME LoopInv, NEW kind \in Kinds, Result(kind) # NoTag
  PROVE  /\ Result(kind) = best[kind] /\ HasApplication(current) /\ current \in Seq(Segment)
         /\ Result(kind) \in Listed /\ Result(kind) \in Seq(Segment) /\ Eligible(kind, Result(kind))
<1>1. Result(kind) = best[kind] /\ best[kind] # NoTag
  BY DEF Result
<1>2. Listed \subseteq Seq(Segment)
  BY DEF LoopInv, Listed
<1>. QED  BY <1>1, <1>2 DEF LoopInv, Genuine

\* Exactly the newer versions have a kind, and the kinds are ranked by age.
LEMMA ClassifyFacts ==
  ASSUME NEW v \in Version, NEW w \in Version, NEW cur \in Version, cur.precision \in 1..3
  PROVE  /\ Classify(v, cur) \in {"major", "minor", "patch", "family", "none"}
         /\ Classify(v, cur) # "none" <=> Newer(v, cur)
         /\ Classify(v, cur) = "family" => cur.precision = 1 /\ v.n[1] = cur.n[1]
         /\ \A i, j \in 1..4 :
              Classify(v, cur) = Ranking[i] /\ Classify(w, cur) = Ranking[j] /\ i < j => ~Newer(w, v)
<1>1. /\ v.n[1] \in Nat /\ v.n[2] \in Nat /\ v.n[3] \in Nat
      /\ w.n[1] \in Nat /\ w.n[2] \in Nat /\ w.n[3] \in Nat
      /\ cur.n[1] \in Nat /\ cur.n[2] \in Nat /\ cur.n[3] \in Nat
  BY DEF Version
<1>2. ASSUME NEW i \in 1..4, NEW j \in 1..4, i < j,
             Classify(v, cur) = Ranking[i], Classify(w, cur) = Ranking[j]
      PROVE  ~Newer(w, v)
  <2>1. i = 1 \/ (i = 2 /\ j \in {3, 4}) \/ (i = 3 /\ j = 4)
    BY <1>2
  <2>2. CASE i = 1
    <3>1. Classify(v, cur) = "major" /\ Classify(w, cur) # "major"
      BY <1>2, <2>2 DEF Ranking
    <3>. QED  BY <1>1, <3>1 DEF Classify, Newer
  <2>3. CASE i = 2 /\ j \in {3, 4}
    <3>1. Classify(v, cur) = "minor" /\ Classify(w, cur) \in {"family", "patch"}
      BY <1>2, <2>3 DEF Ranking
    <3>. QED  BY <1>1, <3>1 DEF Classify, Newer
  <2>4. CASE i = 3 /\ j = 4
    <3>1. Classify(v, cur) = "family" /\ Classify(w, cur) = "patch"
      BY <1>2, <2>4 DEF Ranking
    <3>. QED  BY <3>1 DEF Classify
  <2>. QED  BY <2>1, <2>2, <2>3, <2>4
<1>3. Classify(v, cur) \in {"major", "minor", "patch", "family", "none"}
  BY DEF Classify
<1>4. Classify(v, cur) # "none" <=> Newer(v, cur)
  BY <1>1 DEF Classify, Newer
<1>5. Classify(v, cur) = "family" => cur.precision = 1 /\ v.n[1] = cur.n[1]
  BY DEF Classify
<1>. QED  BY <1>2, <1>3, <1>4, <1>5

\* A listed tag of the running tag's shape with a newer application version
\* is of the kind its version is classified as.
LEMMA NewerIsEligible ==
  ASSUME LoopInv, HasApplication(current), NEW t \in Listed,
         HasApplication(t), IsComposite(t) = IsComposite(current),
         Newer(Application(t), Application(current))
  PROVE  /\ t \in Seq(Segment) /\ Application(t) \in Version /\ Application(current) \in Version
         /\ Application(current).precision \in 1..3
         /\ Classify(Application(t), Application(current)) \in Kinds \ {"base"}
         /\ Eligible(Classify(Application(t), Application(current)), t)
<1>1. t \in Seq(Segment) /\ current \in Seq(Segment)
  BY DEF LoopInv, Listed
<1>2. Application(t) \in Version /\ Application(current) \in Version /\ Application(current).precision \in 1..3
  BY <1>1, ApplicationType
<1>3. Classify(Application(t), Application(current)) \in Kinds \ {"base"}
  BY <1>2, ClassifyFacts DEF Kinds
<1>4. t # current
  BY <1>2, VersionOrder
<1>. QED  BY <1>1, <1>2, <1>3, <1>4 DEF Eligible

\* A version is classified as the kind of update it is.
LEMMA ClassifiedAsUpdate ==
  ASSUME NEW v \in Version, NEW cur \in Version, cur.precision \in 1..3, NEW kind \in Kinds \ {"base"}
  PROVE  Classify(v, cur) = kind <=> IsUpdate(kind, v, cur)
<1>1. /\ v.n[1] \in Nat /\ v.n[2] \in Nat /\ v.n[3] \in Nat
      /\ cur.n[1] \in Nat /\ cur.n[2] \in Nat /\ cur.n[3] \in Nat
  BY DEF Version
<1>2. CASE kind = "major"
  BY <1>1, <1>2 DEF Classify, IsUpdate, Newer
<1>3. CASE kind = "minor"
  BY <1>1, <1>3 DEF Classify, IsUpdate, Newer
<1>4. CASE kind = "patch"
  BY <1>1, <1>4 DEF Classify, IsUpdate, Newer
<1>5. CASE kind = "family"
  BY <1>1, <1>5 DEF Classify, IsUpdate, Newer
<1>. QED  BY <1>2, <1>3, <1>4, <1>5 DEF Kinds

\* The updates of a kind are the listed tags the loop considers for it.
LEMMA UpdatesAreEligible ==
  ASSUME LoopInv, HasApplication(current), NEW kind \in Kinds \ {"base"}
  PROVE  Updates(kind) = {t \in Listed : Eligible(kind, t)}
<1>1. ASSUME NEW t \in Listed, HasApplication(t)
      PROVE  Classify(Application(t), Application(current)) = kind
             <=> IsUpdate(kind, Application(t), Application(current))
  <2>1. t \in Seq(Segment) /\ current \in Seq(Segment)
    BY DEF LoopInv, Listed
  <2>2. /\ Application(t) \in Version /\ Application(current) \in Version
        /\ Application(current).precision \in 1..3
    BY <1>1, <2>1, ApplicationType
  <2>. QED  BY <2>2, ClassifiedAsUpdate
<1>2. ASSUME NEW t \in Listed PROVE t \in Updates(kind) <=> Eligible(kind, t)
  BY <1>1 DEF Updates, Eligible
<1>3. Updates(kind) \subseteq Listed
  BY DEF Updates
<1>. QED  BY <1>2, <1>3

\* AnalyzeCandidates misses no application update and invents none: each kind
\* reports a newest update of that kind, exactly if there is one.
THEOREM NewestCorrect == Spec => []NewestReported
<1>1. LoopInv => NewestReported
  <2>1. SUFFICES ASSUME LoopInv, Done, HasApplication(current), NEW kind \in Kinds \ {"base"}
                 PROVE  IF Updates(kind) = {} \/ (kind = "family" /\ IsComposite(current))
                          THEN Result(kind) = NoTag
                          ELSE /\ Result(kind) \in Updates(kind)
                               /\ \A t \in Updates(kind) : ~Newer(Application(t), Application(Result(kind)))
    BY DEF NewestReported
  <2>2. \A t : t \in Updates(kind) <=> t \in Listed /\ Eligible(kind, t)
    BY <2>1, UpdatesAreEligible
  <2>3. Result(kind) # NoTag => Result(kind) \in Updates(kind)
    BY <2>1, <2>2, ResultFacts
  <2>4. CASE kind = "family" /\ IsComposite(current)
    BY <2>4 DEF Result
  <2>5. CASE ~(kind = "family" /\ IsComposite(current))
    <3>1. Result(kind) = best[kind]
      BY <2>5 DEF Result
    <3>2. ASSUME NEW t \in Updates(kind)
          PROVE  Result(kind) # NoTag /\ ~Newer(Application(t), Application(Result(kind)))
      <4>1. best[kind] # NoTag /\ ~Newer(VersionOn(kind, t), VersionOn(kind, best[kind]))
        BY <2>1, <2>2, <3>2, AllExamined
      <4>2. kind # "base"
        OBVIOUS
      <4>. QED  BY <3>1, <4>1, <4>2 DEF VersionOn
    <3>. QED  BY <2>3, <2>5, <3>2
  <2>. QED  BY <2>4, <2>5
<1>. QED  BY <1>1, Invariance, PTL

\* The best application candidate is of the first kind that has one.
LEMMA BestApplicationFacts ==
  ASSUME BestApplication # NoTag
  PROVE  \E i \in 1..4 : /\ Ranking[i] \in Kinds \ {"base"}
                         /\ BestApplication = Result(Ranking[i])
                         /\ \A j \in 1..4 : j < i => Result(Ranking[j]) = NoTag
<1>. DEFINE found == {i \in DOMAIN Ranking : Result(Ranking[i]) # NoTag}
<1>1. DOMAIN Ranking = 1..4 /\ \A i \in 1..4 : Ranking[i] \in Kinds \ {"base"}
  BY DEF Ranking, Kinds
<1>2. found # {} /\ found \in SUBSET Nat
  BY <1>1 DEF BestApplication
<1>3. BestApplication = Result(Ranking[Earliest(found)])
  BY DEF BestApplication
<1>4. Earliest(found) \in found /\ \A j \in found : Earliest(found) <= j
  <2>. HIDE DEF found
  <2>. QED  BY <1>2, EarliestIsFirst
<1>5. ASSUME NEW j \in 1..4, j < Earliest(found) PROVE Result(Ranking[j]) = NoTag
  <2>1. j \notin found
    <3>1. Earliest(found) \in Nat /\ (j \in found => Earliest(found) <= j)
      BY <1>2, <1>4, Zenon
    <3>. DEFINE e == Earliest(found)
    <3>2. e \in Nat /\ (j \in found => e <= j) /\ j < e
      BY <1>5, <3>1
    <3>. HIDE DEF e, found
    <3>. QED  BY <3>2
  <2>2. j \in DOMAIN Ranking
    BY <1>1
  <2>. QED  BY <2>1, <2>2, Zenon
<1>. HIDE DEF found
<1>6. Earliest(found) \in 1..4
  BY <1>1, <1>4 DEF found
<1>. QED  BY <1>1, <1>3, <1>5, <1>6

\* Nothing listed is newer than the best application candidate.
LEMMA NothingNewer ==
  ASSUME LoopInv, Done, BestApplication # NoTag, NEW t \in Listed,
         HasApplication(t), IsComposite(t) = IsComposite(current)
  PROVE  ~Newer(Application(t), Application(BestApplication))
<1>1. PICK i \in 1..4 : /\ Ranking[i] \in Kinds \ {"base"}
                       /\ BestApplication = Result(Ranking[i])
                       /\ \A j \in 1..4 : j < i => Result(Ranking[j]) = NoTag
  BY BestApplicationFacts
<1>. DEFINE k == Ranking[i]
            b == BestApplication
            cur == Application(current)
<1>2. /\ b = best[k] /\ HasApplication(current) /\ current \in Seq(Segment)
      /\ b \in Seq(Segment) /\ Eligible(k, b)
  BY <1>1, ResultFacts
<1>3. HasApplication(b) /\ Classify(Application(b), cur) = k
  BY <1>1, <1>2 DEF Eligible
<1>4. t \in Seq(Segment)
  BY DEF LoopInv, Listed
<1>5. /\ Application(t) \in Version /\ Application(b) \in Version /\ cur \in Version
      /\ cur.precision \in 1..3
  BY <1>2, <1>3, <1>4, ApplicationType
<1>6. Newer(Application(b), cur) /\ k # "none"
  BY <1>1, <1>3, <1>5, ClassifyFacts DEF Kinds
<1>7. SUFFICES ASSUME Newer(Application(t), Application(b)) PROVE FALSE
  OBVIOUS
<1>8. Newer(Application(t), cur)
  BY <1>5, <1>6, <1>7, VersionOrder
<1>. DEFINE kt == Classify(Application(t), cur)
<1>9. kt \in Kinds \ {"base"} /\ Eligible(kt, t)
  BY <1>2, <1>8, NewerIsEligible
<1>10. PICK j \in 1..4 : kt = Ranking[j]
  <2>. HIDE DEF kt
  <2>. QED  BY <1>9 DEF Kinds, Ranking
<1>11. CASE i < j
  BY <1>3, <1>5, <1>7, <1>10, <1>11, ClassifyFacts
<1>12. CASE i = j
  <2>1. kt = k
    BY <1>10, <1>12
  <2>2. best[k] # NoTag /\ ~Newer(VersionOn(k, t), VersionOn(k, best[k]))
    BY <1>2, <1>9, <2>1, AllExamined
  <2>3. k # "base"
    BY <1>1
  <2>. HIDE DEF k, b
  <2>. QED  BY <1>2, <1>7, <2>2, <2>3 DEF VersionOn
<1>13. CASE j < i
  <2>1. Result(kt) = NoTag
    BY <1>1, <1>10, <1>13
  <2>2. best[kt] # NoTag
    BY <1>2, <1>9, AllExamined
  <2>3. kt = "family"
    BY <2>1, <2>2 DEF Result
  <2>4. cur.precision = 1 /\ j = 3 /\ i = 4
    <3>1. cur.precision = 1
      BY <1>5, <2>3, ClassifyFacts
    <3>2. j = 3
      BY <1>10, <2>3 DEF Ranking
    <3>. QED  BY <1>13, <3>1, <3>2
  <2>5. k = "patch"
    BY <2>4 DEF Ranking
  <2>. QED  BY <1>3, <2>4, <2>5 DEF Classify
<1>. QED  BY <1>11, <1>12, <1>13

\* No candidate of a lower kind hides a release of a higher one.
THEOREM BestCorrect == Spec => []BestIsNewest
<1>1. LoopInv => BestIsNewest
  BY NothingNewer DEF BestIsNewest
<1>. QED  BY <1>1, Invariance, PTL

\* The base candidate is a newest base of the running tag's family, and there is
\* one exactly if the family has a newer base.
THEOREM BaseCorrect == Spec => []BaseNewest
<1>1. LoopInv => BaseNewest
  <2>. DEFINE newer == {t \in Family : Newer(Base(t).ver, Base(current).ver)}
              r == Result("base")
  <2>1. SUFFICES ASSUME LoopInv, Done, HasApplication(current)
                 PROVE  IF ~HasBase(current) \/ Base(current).ver.precision = 0 \/ newer = {}
                          THEN r = NoTag
                          ELSE r \in newer /\ \A t \in newer : ~Newer(Base(t).ver, Base(r).ver)
    BY DEF BaseNewest
  <2>2. r = best["base"] /\ "base" \in Kinds
    BY DEF Result, Kinds
  <2>3. r # NoTag => r \in newer /\ HasBase(current) /\ Base(current).ver.precision # 0
    <3>1. SUFFICES ASSUME r # NoTag
                   PROVE  r \in newer /\ HasBase(current) /\ Base(current).ver.precision # 0
      OBVIOUS
    <3>2. r \in Listed /\ Eligible("base", r)
      BY <2>1, <2>2, <3>1, ResultFacts
    <3>. HIDE DEF r
    <3>. QED  BY <3>2 DEF Eligible, Family
  <2>4. ASSUME HasBase(current), Base(current).ver.precision # 0, NEW t \in newer
        PROVE  r # NoTag /\ ~Newer(Base(t).ver, Base(r).ver)
    <3>1. t \in Listed /\ Eligible("base", t)
      BY <2>4 DEF Family, Eligible
    <3>2. best["base"] # NoTag /\ ~Newer(VersionOn("base", t), VersionOn("base", best["base"]))
      BY <2>1, <2>2, <3>1, AllExamined
    <3>. QED  BY <2>2, <3>2 DEF VersionOn
  <2>. HIDE DEF newer, r
  <2>. QED  BY <2>3, <2>4
<1>. QED  BY <1>1, Invariance, PTL

\* A base of the running tag's family is not newer than the base candidate.
LEMMA NoNewerBase ==
  ASSUME LoopInv, Done, Result("base") # NoTag, NEW t \in Listed \ {current},
         HasBase(t), Base(t).name = Base(current).name
  PROVE  ~Newer(Base(t).ver, Base(Result("base")).ver)
<1>. DEFINE r == Result("base")
<1>1. "base" \in Kinds
  BY DEF Kinds
<1>2. r = best["base"] /\ HasApplication(current) /\ current \in Seq(Segment) /\ r \in Seq(Segment)
      /\ Eligible("base", r)
  BY <1>1, ResultFacts
<1>3. /\ HasBase(current) /\ Base(current).ver.precision # 0 /\ HasBase(r)
      /\ Newer(Base(r).ver, Base(current).ver)
  BY <1>2 DEF Eligible
<1>4. t \in Seq(Segment)
  BY DEF LoopInv, Listed
<1>5. Base(t).ver \in Version /\ Base(r).ver \in Version /\ Base(current).ver \in Version
  BY <1>2, <1>3, <1>4, BaseType
<1>6. CASE Newer(Base(t).ver, Base(current).ver)
  <2>1. Eligible("base", t)
    BY <1>3, <1>6 DEF Eligible
  <2>2. ~Newer(VersionOn("base", t), VersionOn("base", best["base"]))
    BY <1>1, <1>2, <2>1, AllExamined
  <2>. QED  BY <1>2, <2>2 DEF VersionOn
<1>7. CASE ~Newer(Base(t).ver, Base(current).ver)
  <2>. HIDE DEF r
  <2>1. ~Newer(Base(t).ver, Base(r).ver)
    BY <1>3, <1>5, <1>7, VersionOrder
  <2>. QED  BY <2>1 DEF r
<1>. QED  BY <1>6, <1>7

\* A combined candidate carries both winning versions, and if a tag carries
\* them, there is one.
LEMMA CombinedFacts ==
  ASSUME LoopInv
  PROVE  /\ Combined # NoTag => /\ BestApplication # NoTag /\ Result("base") # NoTag
                                /\ Combined \in Listed /\ Carries(Combined)
         /\ \A t \in Listed : /\ IsComposite(current) /\ BestApplication # NoTag /\ Result("base") # NoTag
                              /\ Carries(t)
                              => Combined # NoTag
<1>. DEFINE found == {i \in DOMAIN tags : Carries(tags[i])}
<1>1. found \in SUBSET Nat /\ DOMAIN tags = 1..Len(tags) /\ \A i \in DOMAIN tags : tags[i] # NoTag
  BY DEF LoopInv
<1>2. found # {} => Earliest(found) \in found
  <2>. HIDE DEF found
  <2>. QED  BY <1>1, EarliestIsFirst
<1>3. Combined = IF \/ ~IsComposite(current)
                    \/ BestApplication = NoTag \/ Result("base") = NoTag
                    \/ found = {}
                   THEN NoTag
                   ELSE tags[Earliest(found)]
  BY DEF Combined
<1>4. found # {} => /\ tags[Earliest(found)] # NoTag /\ tags[Earliest(found)] \in Listed
                    /\ Carries(tags[Earliest(found)])
  BY <1>1, <1>2 DEF Listed
<1>5. ASSUME NEW t \in Listed, Carries(t) PROVE found # {}
  BY <1>5 DEF Listed
<1>. HIDE DEF found
<1>. QED  BY <1>3, <1>4, <1>5

\* Unless a tag of another family carries both winners' numbers, the combined
\* candidate is of the running tag's family, an update on both axes and the newest
\* on each; and one is found whenever some tag is that.
THEOREM CombinedCorrect == Spec => []CombinedUpdatesBoth
<1>1. LoopInv => CombinedUpdatesBoth
  <2>1. SUFFICES ASSUME LoopInv, Done, IsComposite(current), HasBase(current) PROVE CombinedUpdatesBoth
    BY DEF CombinedUpdatesBoth
  <2>. DEFINE b == BestApplication
              r == Result("base")
              c == Combined
  <2>2. ASSUME b # NoTag
        PROVE  /\ b \in Listed \ {current} /\ HasApplication(b) /\ IsComposite(b)
               /\ Application(b) \in Version /\ Application(current) \in Version
               /\ Newer(Application(b), Application(current))
    <3>1. PICK i \in 1..4 : Ranking[i] \in Kinds \ {"base"} /\ BestApplication = Result(Ranking[i])
      BY <2>2, BestApplicationFacts
    <3>2. /\ b \in Listed /\ b \in Seq(Segment) /\ Eligible(Ranking[i], b)
          /\ HasApplication(current) /\ current \in Seq(Segment)
      BY <2>1, <2>2, <3>1, ResultFacts
    <3>3. b # current /\ HasApplication(b) /\ IsComposite(b) = IsComposite(current)
      BY <3>1, <3>2 DEF Eligible
    <3>4. /\ VersionOn(Ranking[i], b) \in Version /\ VersionOn(Ranking[i], current) \in Version
          /\ Newer(VersionOn(Ranking[i], b), VersionOn(Ranking[i], current))
      BY <3>1, <3>2, EligibleVersion
    <3>5. VersionOn(Ranking[i], b) = Application(b) /\ VersionOn(Ranking[i], current) = Application(current)
      BY <3>1 DEF VersionOn
    <3>6. IsComposite(b)
      BY <2>1, <3>3
    <3>. QED  BY <3>2, <3>3, <3>4, <3>5, <3>6
  <2>3. ASSUME r # NoTag
        PROVE  /\ r \in Listed \ {current} /\ HasBase(r) /\ Base(r).name = Base(current).name
               /\ Base(r).ver \in Version /\ Base(current).ver \in Version
               /\ Newer(Base(r).ver, Base(current).ver)
    <3>1. "base" \in Kinds
      BY DEF Kinds
    <3>2. r \in Listed /\ r \in Seq(Segment) /\ Eligible("base", r)
      BY <2>1, <2>3, <3>1, ResultFacts
    <3>3. current \in Seq(Segment)
      BY <2>1 DEF LoopInv
    <3>. QED  BY <2>1, <3>2, <3>3, BaseType DEF Eligible
  <2>4. Listed \subseteq Seq(Segment)
    BY <2>1 DEF LoopInv, Listed
  <2>5. ASSUME c # NoTag, \A t \in Listed : Carries(t) => t \in Family
        PROVE  c \in UpdatesBoth
    <3>1. b # NoTag /\ r # NoTag /\ c \in Listed /\ Carries(c) /\ c \in Family
      BY <2>1, <2>5, CombinedFacts
    <3>2. /\ HasApplication(c) /\ HasBase(c) /\ SameVersion(Application(c), Application(b))
          /\ SameVersion(Base(c).ver, Base(r).ver)
      BY <3>1 DEF Carries
    <3>3. Application(c) \in Version /\ Base(c).ver \in Version
      BY <2>4, <3>1, <3>2, ApplicationType, BaseType
    <3>4. Newer(Application(c), Application(current))
      <4>. HIDE DEF b, c
      <4>. QED  BY <2>2, <3>1, <3>2, <3>3, VersionOrder
    <3>5. Newer(Base(c).ver, Base(current).ver)
      <4>. HIDE DEF r, c
      <4>. QED  BY <2>3, <3>1, <3>2, <3>3, VersionOrder
    <3>6. ASSUME NEW t \in Listed \ {current}, IsComposite(t) PROVE ~Newer(Application(t), Application(c))
      <4>1. HasApplication(t)
        BY <3>6 DEF IsComposite
      <4>2. Application(t) \in Version
        BY <2>4, <4>1, ApplicationType
      <4>3. ~Newer(Application(t), Application(b))
        BY <2>1, <3>1, <3>6, <4>1, NothingNewer
      <4>. HIDE DEF b, c
      <4>. QED  BY <2>2, <3>1, <3>2, <3>3, <4>2, <4>3, VersionOrder
    <3>7. ASSUME NEW t \in Family PROVE ~Newer(Base(t).ver, Base(c).ver)
      <4>1. t \in Listed \ {current} /\ HasBase(t) /\ Base(t).name = Base(current).name
        BY <3>7 DEF Family
      <4>2. ~Newer(Base(t).ver, Base(r).ver)
        BY <2>1, <3>1, <4>1, NoNewerBase
      <4>3. Base(t).ver \in Version
        BY <2>4, <4>1, BaseType
      <4>. HIDE DEF r, c
      <4>. QED  BY <2>3, <3>1, <3>2, <3>3, <4>2, <4>3, VersionOrder
    <3>. HIDE DEF c
    <3>. QED  BY <3>1, <3>2, <3>4, <3>5, <3>6, <3>7 DEF UpdatesBoth
  <2>6. ASSUME b # NoTag, r # NoTag, NEW t \in UpdatesBoth
        PROVE  c # NoTag
    <3>1. /\ t \in Listed \ {current} /\ HasApplication(t) /\ HasBase(t)
          /\ Base(t).name = Base(current).name
      BY <2>6 DEF UpdatesBoth, Family
    <3>2. Application(t) \in Version /\ Base(t).ver \in Version
      BY <2>4, <3>1, ApplicationType, BaseType
    <3>3. ~Newer(Application(t), Application(b)) /\ ~Newer(Application(b), Application(t))
      <4>1. IsComposite(t) /\ IsComposite(b)
        BY <2>2, <2>6, <3>1 DEF IsComposite, HasBase, Of
      <4>2. ~Newer(Application(b), Application(t))
        BY <2>2, <2>6, <4>1 DEF UpdatesBoth
      <4>3. ~Newer(Application(t), Application(b))
        BY <2>1, <2>6, <3>1, <4>1, NothingNewer
      <4>. QED  BY <4>2, <4>3
    <3>4. ~Newer(Base(t).ver, Base(r).ver) /\ ~Newer(Base(r).ver, Base(t).ver)
      <4>1. r \in Family
        BY <2>3, <2>6 DEF Family
      <4>2. ~Newer(Base(r).ver, Base(t).ver)
        BY <2>6, <4>1 DEF UpdatesBoth
      <4>3. ~Newer(Base(t).ver, Base(r).ver)
        BY <2>1, <2>6, <3>1, NoNewerBase
      <4>. QED  BY <4>2, <4>3
    <3>5. SameVersion(Application(t), Application(b)) /\ SameVersion(Base(t).ver, Base(r).ver)
      <4>. HIDE DEF r, b
      <4>. QED  BY <2>2, <2>3, <2>6, <3>2, <3>3, <3>4, VersionOrder
    <3>6. Carries(t)
      BY <3>1, <3>5 DEF Carries
    <3>. QED  BY <2>1, <2>6, <3>1, <3>6, CombinedFacts
  <2>. QED  BY <2>5, <2>6 DEF CombinedUpdatesBoth
<1>. QED  BY <1>1, Invariance, PTL
=============================================================================
