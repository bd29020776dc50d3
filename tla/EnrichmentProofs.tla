-------------------------- MODULE EnrichmentProofs ---------------------------
(***************************************************************************)
(* The newest match wins, the tags are listed once and the requests are    *)
(* bounded, for any scans and candidates, any window size and any faults.  *)
(***************************************************************************)
EXTENDS Detection, FiniteSetTheorems, WellFoundedInduction, TLAPS

\* The mutex: at most one scan is listing, and only while the cache is held.
MutexHeld ==
  /\ \A s \in Scans : pc[s] = "listing" => cache = "held"
  /\ \A s, t \in Scans : pc[s] = "listing" /\ pc[t] = "listing" => s = t

\* The tags are asked for when the first scan takes the mutex.
FirstLists == lists \in 0..1 /\ (cache = "none" => lists = 0)

\* Requests are in flight only while a scan waits for its window.
OnlyWaiting == \A s \in Scans : inflight[s] # {} => pc[s] = "wait"

\* What lies before a scan's window has been tried without success.
Passed ==
  \A s \in Scans : pc[s] \in {"window", "wait"} => \A i \in Matches : i < start[s] => i \in failed[s]

\* A window is only started inside the list.
InList == \A s \in Scans : pc[s] = "wait" => start[s] <= NumTags

IInv ==
  /\ TypeOK /\ MutexHeld /\ FirstLists /\ OnlyWaiting /\ Passed /\ InList
  /\ NewestMatchWins
  /\ \A s \in Scans : pc[s] \in {"queued", "list", "listing"} => start[s] = 1

USE EnrichmentAssumption

\* A window is a part of the candidates, and the next one begins right after it.
LEMMA WindowFacts ==
  ASSUME TypeOK, NEW s \in Scans, start[s] <= NumTags
  PROVE  /\ Window(s) \subseteq Tags
         /\ start[s] + Min2(Workers, NumTags) \in 1..(NumTags + Workers)
         /\ \A i \in Tags : i < start[s] + Min2(Workers, NumTags) => i < start[s] \/ i \in Window(s)
<1>1. start[s] \in Nat /\ start[s] >= 1 /\ NumTags \in Nat /\ Workers \in Nat /\ Workers >= 1
  BY DEF TypeOK
<1>2. Min2(Workers, NumTags) \in Nat /\ Min2(Workers, NumTags) <= Workers
  BY <1>1 DEF Min2
<1>. QED  BY <1>1, <1>2 DEF Window, Min2, Tags

\* A non-empty set of candidates has a first one: 1..n is well ordered.
LEMMA SmallestElement ==
  ASSUME NEW S \in SUBSET Nat, S # {}
  PROVE  \E i \in S : \A j \in S : i <= j
<1>. DEFINE R == {ss \in Nat \X Nat : ss[1] < ss[2]}
<1>1. IsWellFoundedOn(R, Nat)
  BY NatLessThanWellFounded, Zenon DEF OpToRel
<1>2. PICK x \in S : \A y \in S : <<y, x>> \notin R
  <2>. HIDE DEF R
  <2>. QED  BY <1>1, WFMin
<1>3. ASSUME NEW j \in S PROVE x <= j
  <2>1. <<j, x>> \in Nat \X Nat /\ <<j, x>>[1] = j /\ <<j, x>>[2] = x
    OBVIOUS
  <2>2. ~(j < x)
    BY <1>2, <2>1, Zenon
  <2>. QED  BY <2>2
<1>. QED  BY <1>3

\* The first state: every scan waits for a slot.
LEMMA InitStep == ScanInit => IInv
<1>. SUFFICES ASSUME ScanInit PROVE IInv
  OBVIOUS
<1>1. TypeOK
  BY DEF ScanInit, TypeOK, Tags
<1>. QED
  BY <1>1 DEF ScanInit, IInv, MutexHeld, FirstLists, OnlyWaiting, Passed, InList, NewestMatchWins

\* A scan gets a slot.
LEMMA AdmitStep ==
  ASSUME IInv, NEW s \in Scans, Admit(s)
  PROVE  IInv'
<1>1. TypeOK'
  BY DEF IInv, Admit, TypeOK
<1>2. MutexHeld' /\ FirstLists'
  BY DEF IInv, Admit, TypeOK, MutexHeld, FirstLists
<1>3. OnlyWaiting' /\ Passed' /\ InList'
  BY DEF IInv, Admit, TypeOK, OnlyWaiting, Passed, InList
<1>4. NewestMatchWins'
  BY DEF IInv, Admit, TypeOK, NewestMatchWins
<1>5. (\A t \in Scans : pc[t] \in {"queued", "list", "listing"} => start[t] = 1)'
  BY DEF IInv, Admit, TypeOK
<1>. QED  BY <1>1, <1>2, <1>3, <1>4, <1>5 DEF IInv

\* groupCache.list: taking the mutex and asking the registry.
LEMMA ListStep ==
  ASSUME IInv, NEW s \in Scans, List(s)
  PROVE  IInv'
<1>1. TypeOK'
  BY DEF IInv, List, TypeOK
<1>2. MutexHeld' /\ FirstLists'
  BY DEF IInv, List, TypeOK, MutexHeld, FirstLists
<1>3. OnlyWaiting' /\ Passed' /\ InList'
  BY DEF IInv, List, TypeOK, OnlyWaiting, Passed, InList
<1>4. NewestMatchWins'
  BY DEF IInv, List, TypeOK, NewestMatchWins
<1>5. (\A t \in Scans : pc[t] \in {"queued", "list", "listing"} => start[t] = 1)'
  BY DEF IInv, List, TypeOK
<1>. QED  BY <1>1, <1>2, <1>3, <1>4, <1>5 DEF IInv

\* The list or an error arrives; an error stays in the cache from then on.
LEMMA ListDoneStep ==
  ASSUME IInv, NEW s \in Scans, ListDone(s)
  PROVE  IInv'
<1>1. pc' = [pc EXCEPT ![s] = "none"] \/ pc' = [pc EXCEPT ![s] = "window"]
  BY DEF ListDone, Proceed, GiveUp
<1>2. TypeOK'
  BY <1>1 DEF IInv, ListDone, TypeOK
<1>3. MutexHeld' /\ FirstLists'
  BY <1>1 DEF IInv, ListDone, TypeOK, MutexHeld, FirstLists
<1>4. OnlyWaiting' /\ InList'
  BY <1>1 DEF IInv, ListDone, TypeOK, OnlyWaiting, InList
<1>5. Passed'
  BY <1>1 DEF IInv, ListDone, TypeOK, Passed, Tags
<1>6. NewestMatchWins'
  <2>1. \A t \in Scans \ {s} : pc'[t] = pc[t]
    BY <1>1 DEF IInv, TypeOK
  <2>2. cache # "error"
    BY DEF IInv, MutexHeld, ListDone
  <2>3. pc'[s] = "none" => Matches = {} \/ cache' = "error"
    BY DEF IInv, ListDone, Proceed, GiveUp, TypeOK, Tags
  <2>4. pc'[s] # "found"
    BY <1>1 DEF IInv, TypeOK
  <2>. QED  BY <2>1, <2>2, <2>3, <2>4 DEF IInv, ListDone, NewestMatchWins
<1>7. (\A t \in Scans : pc[t] \in {"queued", "list", "listing"} => start[t] = 1)'
  BY <1>1 DEF IInv, ListDone, TypeOK
<1>. QED  BY <1>2, <1>3, <1>4, <1>5, <1>6, <1>7 DEF IInv

\* The other scans find the outcome.
LEMMA CacheHitStep ==
  ASSUME IInv, NEW s \in Scans, CacheHit(s)
  PROVE  IInv'
<1>1. pc' = [pc EXCEPT ![s] = "none"] \/ pc' = [pc EXCEPT ![s] = "window"]
  BY DEF CacheHit, Proceed, GiveUp
<1>2. TypeOK'
  BY <1>1 DEF IInv, CacheHit, TypeOK
<1>3. MutexHeld' /\ FirstLists'
  BY <1>1 DEF IInv, CacheHit, TypeOK, MutexHeld, FirstLists
<1>4. OnlyWaiting' /\ InList'
  BY <1>1 DEF IInv, CacheHit, TypeOK, OnlyWaiting, InList
<1>5. Passed'
  BY <1>1 DEF IInv, CacheHit, TypeOK, Passed, Tags
<1>6. NewestMatchWins'
  <2>1. \A t \in Scans \ {s} : pc'[t] = pc[t]
    BY <1>1 DEF IInv, TypeOK
  <2>2. pc'[s] = "none" => Matches = {} \/ cache' = "error"
    BY DEF IInv, CacheHit, Proceed, GiveUp, TypeOK, Tags
  <2>3. pc'[s] # "found"
    BY <1>1 DEF IInv, TypeOK
  <2>. QED  BY <2>1, <2>2, <2>3 DEF IInv, CacheHit, NewestMatchWins
<1>7. (\A t \in Scans : pc[t] \in {"queued", "list", "listing"} => start[t] = 1)'
  BY <1>1 DEF IInv, CacheHit, TypeOK
<1>. QED  BY <1>2, <1>3, <1>4, <1>5, <1>6, <1>7 DEF IInv

\* A window is started, or the scan gives up after the last or in time.
LEMMA StartWindowStep ==
  ASSUME IInv, NEW s \in Scans, StartWindow(s)
  PROVE  IInv'
<1>1. CASE /\ start[s] <= NumTags
           /\ inflight' = [inflight EXCEPT ![s] = Window(s)]
           /\ pc' = [pc EXCEPT ![s] = "wait"]
  <2>1. TypeOK'
    BY <1>1, WindowFacts DEF IInv, StartWindow, TypeOK
  <2>2. MutexHeld' /\ FirstLists' /\ OnlyWaiting' /\ Passed' /\ InList'
    BY <1>1 DEF IInv, StartWindow, TypeOK, MutexHeld, FirstLists, OnlyWaiting, Passed, InList
  <2>3. NewestMatchWins'
    BY <1>1 DEF IInv, StartWindow, TypeOK, NewestMatchWins
  <2>4. (\A t \in Scans : pc[t] \in {"queued", "list", "listing"} => start[t] = 1)'
    BY <1>1 DEF IInv, StartWindow, TypeOK
  <2>. QED  BY <2>1, <2>2, <2>3, <2>4 DEF IInv
<1>2. CASE /\ start[s] > NumTags \/ expired[s]
           /\ pc' = [pc EXCEPT ![s] = "none"] /\ UNCHANGED inflight
  <2>1. TypeOK'
    BY <1>2 DEF IInv, StartWindow, TypeOK
  <2>2. MutexHeld' /\ FirstLists' /\ OnlyWaiting' /\ Passed' /\ InList'
    BY <1>2 DEF IInv, StartWindow, TypeOK, MutexHeld, FirstLists, OnlyWaiting, Passed, InList
  <2>3. Matches \subseteq failed[s] \/ expired[s]
    <3>1. \A i \in Matches : i \in 1..NumTags
      BY DEF Tags
    <3>. QED  BY <1>2, <3>1 DEF IInv, StartWindow, TypeOK, Passed
  <2>4. NewestMatchWins'
    BY <1>2, <2>3 DEF IInv, StartWindow, TypeOK, NewestMatchWins
  <2>5. (\A t \in Scans : pc[t] \in {"queued", "list", "listing"} => start[t] = 1)'
    BY <1>2 DEF IInv, StartWindow, TypeOK
  <2>. QED  BY <2>1, <2>2, <2>4, <2>5 DEF IInv
<1>. QED  BY <1>1, <1>2 DEF StartWindow, GiveUp

\* An answer, or a failure, of a request in flight; the scan is waiting.
LEMMA ResolveStep ==
  ASSUME IInv, NEW s \in Scans, ResolveOK(s) \/ ResolveFail(s)
  PROVE  IInv'
<1>1. PICK i \in inflight[s] : inflight' = [inflight EXCEPT ![s] = @ \ {i}]
  BY DEF ResolveOK, ResolveFail
<1>2. UNCHANGED <<cache, lists, pc, start, expired, answer>>
  BY DEF ResolveOK, ResolveFail
<1>3. pc[s] = "wait"
  BY <1>1 DEF IInv, OnlyWaiting
<1>4. /\ failed' \in [Scans -> SUBSET Tags]
      /\ \A t \in Scans : failed[t] \subseteq failed'[t]
      /\ \A t \in Scans \ {s} : failed'[t] = failed[t]
  BY DEF IInv, TypeOK, ResolveOK, ResolveFail
<1>5. TypeOK'
  BY <1>1, <1>2, <1>4 DEF IInv, TypeOK
<1>6. OnlyWaiting'
  BY <1>1, <1>2, <1>3 DEF IInv, OnlyWaiting, TypeOK
<1>7. MutexHeld' /\ FirstLists' /\ Passed' /\ InList'
  BY <1>2, <1>4 DEF IInv, MutexHeld, FirstLists, Passed, InList
<1>8. NewestMatchWins'
  BY <1>2, <1>3, <1>4 DEF IInv, NewestMatchWins
<1>. QED  BY <1>2, <1>5, <1>6, <1>7, <1>8 DEF IInv

\* The window has been resolved: the first match in it, or the next window.
LEMMA EvaluateStep ==
  ASSUME IInv, NEW s \in Scans, Evaluate(s)
  PROVE  IInv'
<1>1. pc[s] = "wait" /\ start[s] \in Nat /\ start[s] <= NumTags /\ TypeOK
  BY DEF IInv, Evaluate, InList, TypeOK
<1>2. \A i \in Matches : i < start[s] => i \in failed[s]
  BY <1>1 DEF IInv, Passed
<1>3. CASE expired[s] /\ GiveUp(s) /\ UNCHANGED <<start, answer>>
  BY <1>1, <1>3 DEF IInv, Evaluate, GiveUp, TypeOK, MutexHeld, FirstLists, OnlyWaiting, Passed,
                    InList, NewestMatchWins
<1>4. CASE /\ Found(s) # {}
           /\ answer' = [answer EXCEPT ![s] = CHOOSE i \in Found(s) : \A j \in Found(s) : i <= j]
           /\ pc' = [pc EXCEPT ![s] = "found"]
           /\ UNCHANGED start
  <2>. DEFINE first == CHOOSE i \in Found(s) : \A j \in Found(s) : i <= j
  <2>1. Found(s) \subseteq Tags /\ Found(s) \subseteq Matches \ failed[s]
    BY <1>1, WindowFacts DEF Found
  <2>2. \E i \in Found(s) : \A j \in Found(s) : i <= j
    BY <1>4, <2>1, SmallestElement DEF Tags
  <2>3. first \in Found(s) /\ \A j \in Found(s) : first <= j
    BY <2>2
  <2>. HIDE DEF first
  <2>4. answer' = [answer EXCEPT ![s] = first]
    BY <1>4 DEF first
  <2>5. \A i \in Matches : i < first => i \in failed[s]
    <3>1. SUFFICES ASSUME NEW i \in Matches, i < first, i \notin failed[s] PROVE FALSE
      OBVIOUS
    <3>2. i \in Tags /\ first \in Window(s) /\ i \in Nat /\ first \in Nat /\ i >= start[s]
      BY <1>1, <1>2, <2>1, <2>3, <3>1 DEF Tags, Found
    <3>3. i \in Window(s)
      BY <1>1, <3>1, <3>2 DEF Window, Min2, Tags
    <3>4. i \in Found(s)
      BY <3>1, <3>3 DEF Found
    <3>. QED  BY <2>3, <3>1, <3>2, <3>4
  <2>6. TypeOK'
    BY <1>4, <2>1, <2>3, <2>4 DEF IInv, Evaluate, TypeOK, Tags
  <2>7. MutexHeld' /\ FirstLists' /\ OnlyWaiting' /\ Passed' /\ InList'
    BY <1>4 DEF IInv, Evaluate, TypeOK, MutexHeld, FirstLists, OnlyWaiting, Passed, InList
  <2>8. NewestMatchWins'
    BY <1>4, <2>1, <2>3, <2>4, <2>5 DEF IInv, Evaluate, TypeOK, NewestMatchWins
  <2>9. (\A t \in Scans : pc[t] \in {"queued", "list", "listing"} => start[t] = 1)'
    BY <1>4 DEF IInv, Evaluate, TypeOK
  <2>. QED  BY <2>6, <2>7, <2>8, <2>9 DEF IInv
<1>5. CASE /\ Found(s) = {}
           /\ start' = [start EXCEPT ![s] = @ + Min2(Workers, NumTags)]
           /\ pc' = [pc EXCEPT ![s] = "window"]
           /\ UNCHANGED answer
  <2>1. TypeOK'
    BY <1>1, <1>5, WindowFacts DEF Evaluate, TypeOK
  <2>2. \A i \in Matches : i < start'[s] => i \in failed[s]
    BY <1>1, <1>2, <1>5, WindowFacts DEF TypeOK, Found
  <2>3. Passed'
    BY <1>1, <1>5, <2>2 DEF IInv, Evaluate, TypeOK, Passed
  <2>4. MutexHeld' /\ FirstLists' /\ OnlyWaiting' /\ InList'
    BY <1>5 DEF IInv, Evaluate, TypeOK, MutexHeld, FirstLists, OnlyWaiting, InList
  <2>5. NewestMatchWins'
    BY <1>5 DEF IInv, Evaluate, TypeOK, NewestMatchWins
  <2>6. (\A t \in Scans : pc[t] \in {"queued", "list", "listing"} => start[t] = 1)'
    BY <1>5 DEF IInv, Evaluate, TypeOK
  <2>. QED  BY <2>1, <2>3, <2>4, <2>5, <2>6 DEF IInv
<1>. QED  BY <1>3, <1>4, <1>5 DEF Evaluate

\* Time runs out for a scan that has not returned.
LEMMA TimeoutStep ==
  ASSUME IInv, NEW s \in Scans, Timeout(s)
  PROVE  IInv'
<1>1. TypeOK'
  BY DEF IInv, Timeout, TypeOK
<1>2. MutexHeld' /\ FirstLists' /\ OnlyWaiting' /\ Passed' /\ InList'
  BY DEF IInv, Timeout, MutexHeld, FirstLists, OnlyWaiting, Passed, InList
<1>3. NewestMatchWins'
  BY DEF IInv, Timeout, TypeOK, NewestMatchWins
<1>. QED  BY <1>1, <1>2, <1>3 DEF IInv, Timeout

\* Every step keeps the invariant.
LEMMA NextStep ==
  ASSUME IInv, [ScanNext]_scanVars
  PROVE  IInv'
<1>1. CASE UNCHANGED scanVars
  BY <1>1 DEF scanVars, IInv, TypeOK, MutexHeld, FirstLists, OnlyWaiting, Passed, InList, NewestMatchWins
<1>2. CASE \E s \in Scans : Scan(s) \/ Timeout(s)
  BY <1>2, AdmitStep, ListStep, ListDoneStep, CacheHitStep, StartWindowStep, ResolveStep, EvaluateStep,
     TimeoutStep DEF Scan
<1>. QED  BY <1>1, <1>2 DEF ScanNext, Finish

\* attemptEnrichment names the newest candidate that serves the digest, except
\* for candidates it could not resolve, and gives up only when it must.
THEOREM EnrichmentNewest == ScanSpec => []NewestMatchWins
<1>1. IInv /\ [ScanNext]_scanVars => IInv'
  BY NextStep
<1>2. IInv => NewestMatchWins
  BY DEF IInv
<1>. QED  BY InitStep, <1>1, <1>2, PTL DEF ScanSpec

\* The scans of a group ask the registry for its tags once.
THEOREM EnrichmentListsOnce == ScanSpec => []ListedOnce
<1>1. IInv /\ [ScanNext]_scanVars => IInv'
  BY NextStep
<1>2. IInv => ListedOnce
  BY DEF IInv, FirstLists, ListedOnce
<1>. QED  BY InitStep, <1>1, <1>2, PTL DEF ScanSpec

\* The variables keep their types; no window runs past the end of the list.
THEOREM EnrichmentTyped == ScanSpec => []TypeOK
<1>1. IInv /\ [ScanNext]_scanVars => IInv'
  BY NextStep
<1>2. IInv => TypeOK
  BY DEF IInv
<1>. QED  BY InitStep, <1>1, <1>2, PTL DEF ScanSpec

-----------------------------------------------------------------------------

\* The requests in flight belong to the scan's present window.
InWindow == \A s \in Scans : inflight[s] \subseteq Window(s)

LEMMA InWindowStep ==
  ASSUME IInv, InWindow, [ScanNext]_scanVars
  PROVE  InWindow'
<1>. SUFFICES ASSUME NEW t \in Scans PROVE inflight'[t] \subseteq Window(t)'
  BY DEF InWindow
<1>0. TypeOK
  BY DEF IInv
<1>1. ASSUME inflight'[t] \subseteq inflight[t], start'[t] = start[t]
      PROVE  inflight'[t] \subseteq Window(t)'
  <2>1. Window(t)' = Window(t)
    BY <1>1 DEF Window
  <2>. QED  BY <1>1, <2>1 DEF InWindow
<1>2. ASSUME NEW s \in Scans, Admit(s) \/ List(s) \/ ListDone(s) \/ CacheHit(s) \/ Timeout(s)
      PROVE  inflight'[t] \subseteq Window(t)'
  BY <1>1, <1>2 DEF Admit, List, ListDone, CacheHit, Timeout
<1>3. ASSUME NEW s \in Scans, StartWindow(s)
      PROVE  inflight'[t] \subseteq Window(t)'
  <2>1. start' = start
    BY <1>3 DEF StartWindow
  <2>2. CASE inflight'[t] = inflight[t]
    BY <1>1, <2>1, <2>2
  <2>3. CASE inflight'[t] = Window(t)
    BY <2>1, <2>3 DEF Window
  <2>. QED  BY <1>0, <1>3, <2>2, <2>3 DEF StartWindow, TypeOK
<1>4. ASSUME NEW s \in Scans, ResolveOK(s) \/ ResolveFail(s)
      PROVE  inflight'[t] \subseteq Window(t)'
  <2>1. start' = start
    BY <1>4 DEF ResolveOK, ResolveFail
  <2>2. PICK i : inflight' = [inflight EXCEPT ![s] = @ \ {i}]
    BY <1>4 DEF ResolveOK, ResolveFail
  <2>3. inflight'[t] \subseteq inflight[t]
    BY <1>0, <2>2 DEF TypeOK
  <2>. QED  BY <1>1, <2>1, <2>3
<1>5. ASSUME NEW s \in Scans, Evaluate(s)
      PROVE  inflight'[t] \subseteq Window(t)'
  <2>1. inflight' = inflight /\ inflight[s] = {}
    BY <1>5 DEF Evaluate
  <2>2. CASE t = s
    BY <2>1, <2>2
  <2>3. CASE t # s
    <3>1. start'[t] = start[t]
      BY <1>0, <1>5, <2>3 DEF Evaluate, TypeOK
    <3>. QED  BY <1>1, <2>1, <3>1
  <2>. QED  BY <2>2, <2>3
<1>6. CASE UNCHANGED scanVars
  BY <1>1, <1>6 DEF scanVars
<1>. QED  BY <1>2, <1>3, <1>4, <1>5, <1>6 DEF ScanNext, Scan, Finish

LEMMA ProductBound ==
  ASSUME NEW a \in Nat, NEW b \in Nat, a <= b
  PROVE  a * b <= b * b
<1>1. b - a \in Nat
  OBVIOUS
<1>2. (b - a) * b \in Nat
  BY <1>1
<1>3. (b - a) * b = b * b - a * b
  OBVIOUS
<1>4. a * b \in Nat /\ b * b \in Nat
  OBVIOUS
<1>. QED  BY <1>2, <1>3, <1>4

\* The semaphore: no more scans hold a slot than there are workers.
SlotsHeld == IsFiniteSet(Admitted) /\ Cardinality(Admitted) <= Workers

LEMMA SlotsInit == ScanInit => SlotsHeld
<1>. SUFFICES ASSUME ScanInit PROVE SlotsHeld
  OBVIOUS
<1>1. Admitted = {}
  BY DEF ScanInit, Admitted
<1>. QED  BY <1>1, FS_EmptySet DEF SlotsHeld

\* Only Admit takes a slot, when one is free; a scan that returns gives its back.
LEMMA SlotsStep ==
  ASSUME IInv, SlotsHeld, [ScanNext]_scanVars
  PROVE  SlotsHeld'
<1>0. pc \in [Scans -> {"queued", "list", "listing", "window", "wait", "found", "none"}]
  BY DEF IInv, TypeOK
<1>1. ASSUME Admitted' \subseteq Admitted PROVE SlotsHeld'
  <2>. DEFINE A == Admitted
              B == Admitted'
  <2>1. IsFiniteSet(A) /\ Cardinality(A) <= Workers /\ B \in SUBSET A
    BY <1>1 DEF SlotsHeld
  <2>. HIDE DEF A, B
  <2>2. IsFiniteSet(B) /\ Cardinality(B) <= Cardinality(A) /\ Cardinality(A) \in Nat /\ Cardinality(B) \in Nat
    BY <2>1, FS_Subset, FS_CardinalityType
  <2>3. IsFiniteSet(B) /\ Cardinality(B) <= Workers
    BY <2>1, <2>2
  <2>. QED  BY <2>3 DEF SlotsHeld, B
<1>2. ASSUME NEW s \in Scans, Admit(s) PROVE SlotsHeld'
  <2>. DEFINE A == Admitted
  <2>1. Admitted' = A \cup {s}
    BY <1>0, <1>2 DEF Admit, Admitted
  <2>2. IsFiniteSet(A) /\ Cardinality(A) < Workers /\ Cardinality(A) \in Nat
    BY <1>2, FS_CardinalityType DEF SlotsHeld, Admit
  <2>. HIDE DEF A
  <2>3. IsFiniteSet(A \cup {s}) /\ Cardinality(A \cup {s}) <= Workers
    <3>1. IsFiniteSet(A \cup {s}) /\ Cardinality(A \cup {s}) \in {Cardinality(A), Cardinality(A) + 1}
      BY <2>2, FS_AddElement
    <3>2. Workers \in Nat
      OBVIOUS
    <3>. QED  BY <2>2, <3>1, <3>2
  <2>. QED  BY <2>1, <2>3 DEF SlotsHeld
<1>3. ASSUME NEW s \in Scans, List(s) \/ ListDone(s) \/ CacheHit(s) \/ StartWindow(s) \/ Evaluate(s)
      PROVE  SlotsHeld'
  <2>1. /\ pc[s] \in {"list", "listing", "window", "wait"}
        /\ \E x : pc' = [pc EXCEPT ![s] = x]
    BY <1>3 DEF List, ListDone, CacheHit, StartWindow, Evaluate, GiveUp, Proceed
  <2>2. Admitted' \subseteq Admitted
    BY <1>0, <2>1 DEF Admitted
  <2>. QED  BY <1>1, <2>2
<1>4. ASSUME NEW s \in Scans, ResolveOK(s) \/ ResolveFail(s) \/ Timeout(s) PROVE SlotsHeld'
  <2>1. pc' = pc
    BY <1>4 DEF ResolveOK, ResolveFail, Timeout
  <2>2. Admitted' = Admitted
    BY <2>1 DEF Admitted
  <2>. QED  BY <1>1, <2>2
<1>5. CASE UNCHANGED scanVars
  <2>1. Admitted' = Admitted
    BY <1>5 DEF scanVars, Admitted
  <2>. QED  BY <1>1, <2>1
<1>. QED  BY <1>2, <1>3, <1>4, <1>5 DEF ScanNext, Scan, Finish

\* At most a window of requests for each scan that holds a slot: numbering the
\* requests of a scan from the start of its window maps them into
\* Admitted \X 0..(Workers - 1).
LEMMA CountRequests ==
  ASSUME IInv, InWindow, SlotsHeld
  PROVE  Cardinality({r \in Scans \X Tags : r[2] \in inflight[r[1]]}) <= Workers * Workers
<1>. DEFINE R == {r \in Scans \X Tags : r[2] \in inflight[r[1]]}
            Slots == 0..(Workers - 1)
            f == [r \in R |-> <<r[1], r[2] - start[r[1]]>>]
<1>1. ASSUME NEW r \in R
      PROVE  /\ r = <<r[1], r[2]>> /\ r[1] \in Admitted
             /\ r[2] \in Int /\ start[r[1]] \in Int /\ r[2] - start[r[1]] \in Slots
  <2>1. r = <<r[1], r[2]>> /\ r[1] \in Scans /\ r[2] \in Tags /\ r[2] \in Window(r[1])
    BY <1>1 DEF InWindow
  <2>0. r[1] \in Admitted
    <3>1. pc[r[1]] = "wait"
      BY <1>1, <2>1 DEF IInv, OnlyWaiting
    <3>. QED  BY <2>1, <3>1 DEF Admitted
  <2>2. start[r[1]] \in Nat /\ NumTags \in Nat /\ Workers \in Nat /\ Workers # 0
    BY <2>1 DEF IInv, TypeOK
  <2>3. r[2] \in Int /\ start[r[1]] <= r[2] /\ r[2] <= start[r[1]] + Workers - 1
    BY <2>1, <2>2 DEF Window, Min2, Tags
  <2>. QED  BY <2>0, <2>1, <2>2, <2>3
<1>2. f \in [R -> Admitted \X Slots]
  <2>. HIDE DEF R, Slots
  <2>. QED  BY <1>1
<1>3. ASSUME NEW a \in R, NEW b \in R, f[a] = f[b] PROVE a = b
  <2>1. f[a] = <<a[1], a[2] - start[a[1]]>> /\ f[b] = <<b[1], b[2] - start[b[1]]>>
    <3>. HIDE DEF R
    <3>. QED  OBVIOUS
  <2>. HIDE DEF R, f
  <2>. DEFINE x == a[2] - start[a[1]]
              y == b[2] - start[b[1]]
  <2>2. a[1] = b[1] /\ x = y
    <3>1. <<a[1], x>> = <<b[1], y>>
      BY <1>3, <2>1
    <3>. HIDE DEF x, y
    <3>. QED  BY <3>1
  <2>3. a[2] = b[2]
    BY <1>1, <2>2
  <2>. QED  BY <1>1, <2>2, <2>3
<1>4. f \in Injection(R, Admitted \X Slots)
  <2>. HIDE DEF R, Slots, f
  <2>. QED  BY <1>2, <1>3 DEF Injection, IsInjective
<1>5. IsFiniteSet(Slots) /\ Cardinality(Slots) = Workers
  <2>1. IsFiniteSet(Slots) /\ Cardinality(Slots) = (Workers - 1) - 0 + 1
    BY FS_Interval
  <2>. QED  BY <2>1
<1>6. IsFiniteSet(Admitted \X Slots) /\ Cardinality(Admitted \X Slots) = Cardinality(Admitted) * Workers
  <2>. HIDE DEF Slots
  <2>. QED  BY <1>5, FS_Product DEF SlotsHeld
<1>7. Cardinality(R) <= Cardinality(Admitted \X Slots)
  <2>. HIDE DEF R, Slots, f
  <2>. QED  BY <1>4, <1>6, FS_Injection
<1>8. Cardinality(Admitted) * Workers <= Workers * Workers
  <2>1. Cardinality(Admitted) \in Nat /\ Workers \in Nat /\ Cardinality(Admitted) <= Workers
    BY FS_CardinalityType DEF SlotsHeld
  <2>. QED  BY <2>1, ProductBound
<1>. QED
  <2>1. IsFiniteSet(R) /\ Cardinality(R) \in Nat
    <3>. HIDE DEF R, Slots, f
    <3>. QED  BY <1>4, <1>6, FS_Injection, FS_CardinalityType
  <2>2. Cardinality(Admitted) \in Nat /\ Workers \in Nat
    BY FS_CardinalityType DEF SlotsHeld
  <2>. HIDE DEF R, Slots
  <2>. QED  BY <1>6, <1>7, <1>8, <2>1, <2>2 DEF R

\* However many digests have drifted, a group never has more requests in flight
\* than the square of concurrency.workers, whatever the order of answers, failures
\* and timeouts, and a scan that has returned has left none behind.
THEOREM EnrichmentBounded == ScanSpec => []RequestsBounded
<1>1. ScanInit => IInv /\ InWindow /\ SlotsHeld
  BY InitStep, SlotsInit DEF ScanInit, InWindow
<1>2. IInv /\ InWindow /\ SlotsHeld /\ [ScanNext]_scanVars => (IInv /\ InWindow /\ SlotsHeld)'
  BY NextStep, InWindowStep, SlotsStep
<1>3. IInv /\ InWindow /\ SlotsHeld => RequestsBounded
  BY CountRequests DEF RequestsBounded, IInv, OnlyWaiting
<1>. QED  BY <1>1, <1>2, <1>3, PTL DEF ScanSpec

-----------------------------------------------------------------------------

\* The detection of a group is a candidate analysis and a run of its scans: what
\* is proved of either holds of detection.
THEOREM DetectionComposes == DetectSpec => Spec /\ ScanSpec
<1>1. DetectInit => Init /\ ScanInit
  BY DEF DetectInit
<1>2. [DetectNext]_detectVars => [Next]_vars /\ [ScanNext]_scanVars
  BY DEF DetectNext, detectVars, Enrich, ScanNext
<1>. QED  BY <1>1, <1>2, PTL DEF DetectSpec, Spec, ScanSpec
=============================================================================
