----------------------------- MODULE Candidates ------------------------------
(***************************************************************************)
(* internal/version: what a tag says about the release it names, and       *)
(* AnalyzeCandidates, which walks the repository's tags in the order the   *)
(* registry lists them and keeps the newest candidate of each kind.  A tag *)
(* is the sequence of its dash-separated segments; which segments are      *)
(* version tokens or known base families is the data of the instance.      *)
(***************************************************************************)
EXTENDS Naturals, Sequences, FiniteSets

CONSTANTS
  Currents,  \* the running tags considered
  TagLists,  \* the lists ListTags can return
  NoTag      \* a nil *Candidate

\* SemVer: three numbers, absent ones zero, and how many the tag spelled out
\* (zero for a base family without a version).
Version == [n : Nat \X Nat \X Nat, precision : 0..3]

\* version: a token like 1.2.3; base: a known family, with or without a
\* version; other: anything else; empty: two dashes in a row.
Segment ==
  {s \in [kind : {"version", "base", "other", "empty"}, name : STRING, ver : Version] :
     s.kind = "version" => s.ver.precision # 0}

ASSUME CandidatesAssumption ==
  /\ Currents \subseteq Seq(Segment)
  /\ TagLists \subseteq Seq(Seq(Segment))
  /\ NoTag \notin Seq(Segment)

VARIABLES
  current,  \* the running tag
  tags,     \* the listed tags
  next,     \* the next tag the loop examines
  best      \* the best candidate of each kind so far

vars == <<current, tags, next, best>>

Kinds == {"patch", "minor", "major", "family", "base"}

-----------------------------------------------------------------------------

\* SemVer.Compare(v, w) > 0.
Newer(v, w) ==
  \/ v.n[1] > w.n[1]
  \/ v.n[1] = w.n[1] /\ v.n[2] > w.n[2]
  \/ v.n[1] = w.n[1] /\ v.n[2] = w.n[2] /\ v.n[3] > w.n[3]

SameVersion(v, w) == v.n = w.n

Earliest(I) == CHOOSE i \in I : \A j \in I : i <= j

\* ParseTag looks at segments of other kinds only in tags with a dash.
Of(t, kinds) == {i \in DOMAIN t : t[i].kind \in kinds}

HasApplication(t) == Of(t, {"version"}) # {}

\* Prefer higher precision; break ties by earliest position.
Application(t) ==
  t[CHOOSE i \in Of(t, {"version"}) :
      \A j \in Of(t, {"version"}) \ {i} :
        \/ t[i].ver.precision > t[j].ver.precision
        \/ t[i].ver.precision = t[j].ver.precision /\ i < j].ver

HasBase(t) == Len(t) >= 2 /\ Of(t, {"base"}) # {}

\* The first usable base component.
Base(t) == t[Earliest(Of(t, {"base"}))]

\* An unrecognised segment counts as a base component here, though not as a
\* usable one.
IsComposite(t) == Len(t) >= 2 /\ HasApplication(t) /\ Of(t, {"base", "other"}) # {}

-----------------------------------------------------------------------------

\* A bug to rule out: a newer minor release has no kind.
ClassifyNoMinor(v, cur) ==
  IF v.n[1] > cur.n[1] THEN "major"
  ELSE IF v.n[1] # cur.n[1] \/ ~Newer(v, cur) THEN "none"
  ELSE IF cur.precision = 3 THEN IF v.n[2] = cur.n[2] THEN "patch" ELSE "none"
  ELSE IF cur.precision = 2 THEN "patch"
  ELSE "family"

\* classifyApplicationCandidate.
Classify(v, cur) ==
  IF v.n[1] > cur.n[1] THEN "major"
  ELSE IF v.n[1] # cur.n[1] \/ ~Newer(v, cur) THEN "none"
  ELSE IF cur.precision = 3 THEN IF v.n[2] > cur.n[2] THEN "minor" ELSE "patch"
  ELSE IF cur.precision = 2 THEN "patch"
  ELSE "family"

\* A bug to rule out: bases of different families are compared.
EligibleAnyFamily(kind, t) ==
  /\ t # current
  /\ \/ /\ kind # "base"
        /\ HasApplication(t) /\ IsComposite(t) = IsComposite(current)
        /\ Classify(Application(t), Application(current)) = kind
     \/ /\ kind = "base"
        /\ HasBase(current) /\ Base(current).ver.precision # 0
        /\ HasBase(t)
        /\ Newer(Base(t).ver, Base(current).ver)

\* Tags of the same shape compete on the application axis; on the base axis
\* any tag with the same family does, if the running one has a version.
Eligible(kind, t) ==
  /\ t # current
  /\ \/ /\ kind # "base"
        /\ HasApplication(t) /\ IsComposite(t) = IsComposite(current)
        /\ Classify(Application(t), Application(current)) = kind
     \/ /\ kind = "base"
        /\ HasBase(current) /\ Base(current).ver.precision # 0
        /\ HasBase(t) /\ Base(t).name = Base(current).name
        /\ Newer(Base(t).ver, Base(current).ver)

\* The version a kind of candidate competes with.
VersionOn(kind, t) == IF kind = "base" THEN Base(t).ver ELSE Application(t)

\* An opaque running tag gets no candidates: the loop is not entered.
Init ==
  /\ current \in Currents
  /\ tags \in TagLists
  /\ next = IF HasApplication(current) THEN 1 ELSE Len(tags) + 1
  /\ best = [kind \in Kinds |-> NoTag]

\* A bug to rule out: the first candidate found is kept.
UpdateFirst(slot, kind, t) == IF slot = NoTag THEN t ELSE slot

update(slot, kind, t) ==
  IF slot = NoTag \/ Newer(VersionOn(kind, t), VersionOn(kind, slot)) THEN t ELSE slot

\* One turn of AnalyzeCandidates' loop.
Examine ==
  /\ next \in DOMAIN tags
  /\ best' = [kind \in Kinds |->
                IF Eligible(kind, tags[next])
                  THEN update(best[kind], kind, tags[next])
                  ELSE best[kind]]
  /\ next' = next + 1
  /\ UNCHANGED <<current, tags>>

Done == next \notin DOMAIN tags

\* The analysis has returned.
Return == Done /\ UNCHANGED vars

Next == Examine \/ Return

Spec == Init /\ [][Next]_vars

\* assignApplicationCandidates: composite tags have no family candidate.
Result(kind) == IF kind = "family" /\ IsComposite(current) THEN NoTag ELSE best[kind]

\* bestApplicationOverall: the first kind in this order that has one.
Ranking == <<"major", "minor", "family", "patch">>

BestApplication ==
  LET found == {i \in DOMAIN Ranking : Result(Ranking[i]) # NoTag}
  IN  IF found = {} THEN NoTag ELSE Result(Ranking[Earliest(found)])

\* A bug to rule out: any tag with the winning application version will do.
CarriesApplication(t) ==
  /\ t # current
  /\ HasApplication(t) /\ HasBase(t)
  /\ SameVersion(Application(t), Application(BestApplication))

\* findCombinedCandidate: the first tag with both winning versions.
Carries(t) ==
  /\ t # current
  /\ HasApplication(t) /\ HasBase(t)
  /\ SameVersion(Application(t), Application(BestApplication))
  /\ SameVersion(Base(t).ver, Base(Result("base")).ver)

Combined ==
  LET found == {i \in DOMAIN tags : Carries(tags[i])}
  IN  IF \/ ~IsComposite(current)
         \/ BestApplication = NoTag \/ Result("base") = NoTag
         \/ found = {}
        THEN NoTag
        ELSE tags[Earliest(found)]

-----------------------------------------------------------------------------

Listed == {tags[i] : i \in DOMAIN tags}

\* What each kind of application update is: v beside the running version cur.
\* README's event table; beside 1.2, "any same-major advancement is reported as
\* patch" (classifyApplicationCandidate).
IsUpdate(kind, v, cur) ==
  CASE kind = "major"  -> v.n[1] > cur.n[1]
    [] kind = "minor"  -> v.n[1] = cur.n[1] /\ cur.precision = 3 /\ v.n[2] > cur.n[2]
    [] kind = "patch"  -> /\ v.n[1] = cur.n[1] /\ cur.precision # 1 /\ Newer(v, cur)
                          /\ cur.precision = 3 => v.n[2] = cur.n[2]
    [] kind = "family" -> v.n[1] = cur.n[1] /\ cur.precision = 1 /\ Newer(v, cur)

Updates(kind) ==
  {t \in Listed \ {current} :
     /\ HasApplication(t) /\ IsComposite(t) = IsComposite(current)
     /\ IsUpdate(kind, Application(t), Application(current))}

\* AnalyzeCandidates misses no update and invents none, in whatever order the
\* registry lists the tags: a kind reports a tag exactly if a tag of the running
\* tag's shape is such an update, and it reports a newest one.  The running tag
\* 1-alpine is the exception: releases of its own major have nowhere to go.
NewestReported ==
  Done /\ HasApplication(current) =>
    \A kind \in Kinds \ {"base"} :
      IF Updates(kind) = {} \/ (kind = "family" /\ IsComposite(current))
        THEN Result(kind) = NoTag
        ELSE /\ Result(kind) \in Updates(kind)
             /\ \A t \in Updates(kind) : ~Newer(Application(t), Application(Result(kind)))

\* No candidate of a lower kind hides a release of a higher one: the best
\* application candidate is the newest application version listed, so the
\* combined candidate is built on it.
BestIsNewest ==
  Done /\ BestApplication # NoTag =>
    \A t \in Listed \ {current} :
      HasApplication(t) /\ IsComposite(t) = IsComposite(current)
      => ~Newer(Application(t), Application(BestApplication))

\* Of the running tag's family, with or without a newer base.
Family == {t \in Listed \ {current} : HasBase(t) /\ Base(t).name = Base(current).name}

\* The base candidate is a newest base of the running tag's family, whatever the
\* application version it comes with, and there is one exactly if some tag of the
\* family has a newer base than the running tag, which must have a version.
BaseNewest ==
  Done /\ HasApplication(current) =>
    LET newer == {t \in Family : Newer(Base(t).ver, Base(current).ver)}
    IN  IF ~HasBase(current) \/ Base(current).ver.precision = 0 \/ newer = {}
          THEN Result("base") = NoTag
          ELSE /\ Result("base") \in newer
               /\ \A t \in newer : ~Newer(Base(t).ver, Base(Result("base")).ver)

\* The tags of the running tag's family that are an update on both axes at once
\* and the newest on each.
UpdatesBoth ==
  {t \in Family :
     /\ HasApplication(t)
     /\ Newer(Application(t), Application(current)) /\ Newer(Base(t).ver, Base(current).ver)
     /\ \A u \in Listed \ {current} : IsComposite(u) => ~Newer(Application(u), Application(t))
     /\ \A u \in Family : ~Newer(Base(u).ver, Base(t).ver)}

\* The combined candidate is the newest of the running tag's family on both axes
\* at once, and whenever some tag is, one is reported: unless a tag of another
\* family carries both winners' numbers, which findCombinedCandidate, comparing
\* numbers only, takes for one (CombinedCarriesBoth).
CombinedUpdatesBoth ==
  Done /\ IsComposite(current) /\ HasBase(current) =>
    /\ Combined # NoTag /\ (\A t \in Listed : Carries(t) => t \in Family)
       => Combined \in UpdatesBoth
    /\ BestApplication # NoTag /\ Result("base") # NoTag /\ UpdatesBoth # {}
       => Combined # NoTag

\* "Combined is the actual tag carrying both application and base candidates"
\* (CandidateSet).
CombinedCarriesBoth ==
  Done /\ Combined # NoTag =>
    /\ SameVersion(Application(Combined), Application(BestApplication))
    /\ SameVersion(Base(Combined).ver, Base(Result("base")).ver)
    /\ Base(Combined).name = Base(Result("base")).name
=============================================================================
