--------------------------- MODULE RegistryProofs ----------------------------
(***************************************************************************)
(* The registry client's answers are about one content and the machine     *)
(* asked for, and its listings have no holes, for any contents, any number *)
(* of tags and pages of any size, whatever changes between two requests.   *)
(* At the end, the same for the bearer tokens its requests carry.          *)
(***************************************************************************)
EXTENDS RegistryClient, TokenCache, FiniteSetTheorems, WellFoundedInduction, TLAPS

\* A resolve call works on what the tag pointed to during the call.
ResolveInv ==
  call.op = "resolve" /\ call.at # "failed" =>
    /\ DOMAIN call = {"op", "at", "want", "body", "answer", "shown"}
    /\ call.at \in {"manifest", "config", "done"}
    /\ call.want \in Platforms
    /\ call.body \in call.shown /\ call.shown \subseteq Contents
    /\ call.at # "done" => tag \in call.shown
    /\ call.at = "config" => call.body.kind = "single"
    /\ call.at = "done" =>
         call.answer = IF call.body.kind = "index" THEN ResolveIndex(call.body, call.want)
                                                   ELSE ResolveSingle(call.body, call.want)

\* A listing has everything that was there all along up to its cursor, and
\* nothing beyond it.
ListInv ==
  call.op = "list" /\ call.at # "failed" =>
    /\ DOMAIN call = {"op", "at", "page", "next", "allTags", "stable", "honest"}
    /\ call.at \in {"page", "done"}
    /\ call.next \in 0..NoLink
    /\ call.allTags \in Seq(Tags)
    /\ call.stable \subseteq Tags
    /\ call.at = "page" => call.stable \subseteq tags
    /\ call.honest \in BOOLEAN
    /\ call.honest =>
         /\ \A i \in DOMAIN call.allTags : call.allTags[i] <= call.next
         /\ \A t \in call.stable : t <= call.next => \E i \in DOMAIN call.allTags : call.allTags[i] = t
         /\ Increasing(call.allTags)

IInv ==
  /\ tag \in Contents /\ tags \subseteq Tags
  /\ "op" \in DOMAIN call /\ "at" \in DOMAIN call
  /\ call.op \in {"none", "resolve", "list"}
  /\ call.op = "none" => call.at \in {"done", "failed"}
  /\ ResolveInv /\ ListInv

USE RegistryClientAssumption

-----------------------------------------------------------------------------

\* The comparison the client makes is the one that defines a machine.
LEMMA MatchesMachine ==
  ASSUME NEW p \in Platforms, NEW w \in Platforms
  PROVE  platformMatches(p, w) <=> SameMachine(p, w)
<1>1. p = [os |-> p.os, arch |-> p.arch, variant |-> p.variant]
      /\ w = [os |-> w.os, arch |-> w.arch, variant |-> w.variant]
  OBVIOUS
<1>2. ({w.variant, p.variant} = {"", "v8"}) <=>
      (w.variant # p.variant /\ w.variant \in {"", "v8"} /\ p.variant \in {"", "v8"})
  BY Zenon
<1>3. p = w <=> p.os = w.os /\ p.arch = w.arch /\ p.variant = w.variant
  BY <1>1
<1>. QED  BY <1>2, <1>3 DEF platformMatches, SameMachine, variantCompatible

\* Two spellings of one machine fit the same platforms.
LEMMA SameMachineMatches ==
  ASSUME NEW p \in Platforms, NEW v \in Platforms, NEW w \in Platforms, SameMachine(v, w)
  PROVE  platformMatches(p, v) <=> platformMatches(p, w)
<1>1. platformMatches(p, v) <=> SameMachine(p, v)
  BY MatchesMachine
<1>2. platformMatches(p, w) <=> SameMachine(p, w)
  BY MatchesMachine
<1>. QED  BY <1>1, <1>2 DEF SameMachine

\* So resolving them gives one answer.
LEMMA SameMachineSameAnswer ==
  ASSUME NEW c \in Contents, NEW v \in Platforms, NEW w \in Platforms, SameMachine(v, w)
  PROVE  /\ c.kind = "index" => ResolveIndex(c, v) = ResolveIndex(c, w)
         /\ c.kind # "index" => ResolveSingle(c, v) = ResolveSingle(c, w)
<1>1. CASE c.kind = "index"
  <2>1. Matching(c, v) = Matching(c, w)
    BY <1>1, SameMachineMatches DEF Matching
  <2>. QED  BY <1>1, <2>1 DEF ResolveIndex
<1>2. CASE c.kind # "index"
  <2>1. c.config \in Platforms
    BY <1>2
  <2>. QED  BY <1>2, <2>1, SameMachineMatches DEF ResolveSingle
<1>. QED  BY <1>1, <1>2

\* A non-empty set of numbers has a smallest one.
LEMMA SmallestElement ==
  ASSUME NEW S \in SUBSET Nat, S # {}
  PROVE  \E i \in S : \A j \in S : i <= j
<1>. DEFINE R == {ss \in Nat \X Nat : ss[1] < ss[2]}
<1>1. IsWellFoundedOn(R, Nat)
  BY NatLessThanWellFounded, Zenon DEF OpToRel
<1>2. PICK x \in S : \A y \in S : <<y, x>> \notin R
  <2>. HIDE DEF R
  <2>. QED  BY <1>1, WFMin
<1>3. ASSUME NEW j \in S PROVE x <= j
  <2>1. <<j, x>> \in Nat \X Nat /\ <<j, x>>[1] = j /\ <<j, x>>[2] = x
    OBVIOUS
  <2>2. ~(j < x)
    BY <1>2, <2>1, Zenon
  <2>. QED  BY <2>2
<1>. QED  BY <1>2, <1>3

\* A bounded one has a largest one.
LEMMA LargestElement ==
  ASSUME NEW n \in Nat, NEW S \in SUBSET (0..n), S # {}
  PROVE  \E i \in S : \A j \in S : j <= i
<1>. DEFINE D == {n - i : i \in S}
<1>1. D \in SUBSET Nat /\ D # {}
  OBVIOUS
<1>2. PICK d \in D : \A e \in D : d <= e
  <2>. HIDE DEF D
  <2>. QED  BY <1>1, SmallestElement
<1>3. PICK i \in S : d = n - i
  OBVIOUS
<1>4. ASSUME NEW j \in S PROVE j <= i
  <2>1. n - j \in D
    OBVIOUS
  <2>2. n - i <= n - j
    BY <1>2, <1>3, <2>1
  <2>. QED  BY <2>2
<1>. QED  BY <1>4

\* The answer names a manifest for the machine asked for, if there is one.
LEMMA AnswerFits ==
  ASSUME NEW c \in Contents, NEW w \in Platforms
  PROVE  LET fitting == ManifestsFor(c, w)
             answer  == IF c.kind = "index" THEN ResolveIndex(c, w) ELSE ResolveSingle(c, w)
         IN  /\ answer.manifest \in IF fitting = {} THEN {""} ELSE fitting
             /\ answer.index = IF c.kind = "index" THEN c.digest ELSE ""
<1>1. CASE c.kind = "index"
  <2>. DEFINE fit == {j \in DOMAIN c.entries : SameMachine(c.entries[j].platform, w)}
  <2>1. Matching(c, w) = fit
    BY <1>1, MatchesMachine DEF Matching
  <2>2. ManifestsFor(c, w) = {c.entries[i].digest : i \in fit}
    BY <1>1 DEF ManifestsFor
  <2>3. fit \in SUBSET Nat
    BY <1>1
  <2>4. CASE fit = {}
    BY <1>1, <2>1, <2>2, <2>4 DEF ResolveIndex
  <2>5. CASE fit # {}
    <3>. HIDE DEF fit
    <3>1. \E i \in fit : \A j \in fit : i <= j
      BY <2>3, <2>5, SmallestElement
    <3>2. (CHOOSE i \in fit : \A j \in fit : i <= j) \in fit
      BY <3>1
    <3>. DEFINE first == CHOOSE i \in fit : \A j \in fit : i <= j
    <3>3. ResolveIndex(c, w) = [index |-> c.digest, manifest |-> c.entries[first].digest]
      BY <2>1, <2>5 DEF ResolveIndex
    <3>4. c.entries[first].digest \in ManifestsFor(c, w)
      BY <2>2, <3>2
    <3>. HIDE DEF first
    <3>5. ManifestsFor(c, w) # {}
      BY <3>4
    <3>6. ResolveIndex(c, w).manifest \in ManifestsFor(c, w) /\ ResolveIndex(c, w).index = c.digest
      BY <3>3, <3>4
    <3>. QED  BY <1>1, <3>5, <3>6, Zenon
  <2>. QED  BY <2>4, <2>5
<1>2. CASE c.kind # "index"
  <2>1. c.kind = "single" /\ c.config \in Platforms
    BY <1>2
  <2>. QED  BY <1>2, <2>1, MatchesMachine DEF ResolveSingle, ManifestsFor, Blank
<1>. QED  BY <1>1, <1>2

-----------------------------------------------------------------------------

LEMMA InitIInv == Init => IInv
  BY DEF Init, IInv, ResolveInv, ListInv

\* The steps of a resolve call.
LEMMA ResolveStep ==
  ASSUME IInv, NEW w \in Platforms, ResolveForPlatform(w)
  PROVE  IInv'
  BY DEF IInv, ResolveInv, ListInv, ResolveForPlatform, Resolving, Blank

LEMMA ManifestStep ==
  ASSUME IInv, ManifestOK
  PROVE  IInv'
<1>1. call.op = "resolve" /\ call.at # "failed" /\ call.at # "done"
  BY DEF IInv, ListInv, ManifestOK, ResolveInv
<1>2. /\ DOMAIN call = {"op", "at", "want", "body", "answer", "shown"}
      /\ call.want \in Platforms /\ call.shown \subseteq Contents /\ tag \in call.shown
  BY <1>1 DEF IInv, ResolveInv
<1>3. CASE tag.kind = "index"
  <2>1. call' = [call EXCEPT !.at = "done", !.body = tag, !.answer = ResolveIndex(tag, call.want)]
        /\ UNCHANGED <<tag, tags>>
    BY <1>3 DEF ManifestOK
  <2>2. /\ DOMAIN call' = DOMAIN call
        /\ call'.op = call.op /\ call'.at = "done" /\ call'.want = call.want /\ call'.shown = call.shown
        /\ call'.body = tag /\ call'.answer = ResolveIndex(tag, call.want)
    BY <1>2, <2>1
  <2>. QED  BY <1>1, <1>2, <1>3, <2>1, <2>2 DEF IInv, ResolveInv, ListInv
<1>4. CASE tag.kind # "index"
  <2>1. call' = [call EXCEPT !.at = "config", !.body = tag] /\ tag.kind = "single"
        /\ UNCHANGED <<tag, tags>>
    BY <1>4 DEF ManifestOK
  <2>2. /\ DOMAIN call' = DOMAIN call
        /\ call'.op = call.op /\ call'.at = "config" /\ call'.want = call.want /\ call'.shown = call.shown
        /\ call'.body = tag
    BY <1>2, <2>1
  <2>. QED  BY <1>1, <1>2, <2>1, <2>2 DEF IInv, ResolveInv, ListInv
<1>. QED  BY <1>3, <1>4

LEMMA ConfigStep ==
  ASSUME IInv, ConfigOK
  PROVE  IInv'
<1>1. call.op = "resolve" /\ call.at = "config"
  BY DEF IInv, ListInv, ConfigOK, ResolveInv
<1>2. /\ DOMAIN call = {"op", "at", "want", "body", "answer", "shown"}
      /\ call.want \in Platforms /\ call.body \in call.shown /\ call.shown \subseteq Contents
      /\ call.body.kind = "single"
  BY <1>1 DEF IInv, ResolveInv
<1>3. call' = [call EXCEPT !.at = "done", !.answer = ResolveSingle(call.body, call.want)]
      /\ UNCHANGED <<tag, tags>>
  BY DEF ConfigOK
<1>4. /\ DOMAIN call' = DOMAIN call
      /\ call'.op = call.op /\ call'.at = "done" /\ call'.want = call.want /\ call'.shown = call.shown
      /\ call'.body = call.body /\ call'.answer = ResolveSingle(call.body, call.want)
  BY <1>2, <1>3
<1>. QED  BY <1>1, <1>2, <1>3, <1>4 DEF IInv, ResolveInv, ListInv

\* A failed call is not a call any more.
LEMMA FailStep ==
  ASSUME IInv, Fail
  PROVE  IInv'
<1>1. call' = [op |-> call.op, at |-> "failed"] /\ UNCHANGED <<tag, tags>>
  BY DEF Fail
<1>. QED  BY <1>1 DEF IInv, ResolveInv, ListInv

\* The registry changes under a call.
LEMMA PushStep ==
  ASSUME IInv, NEW c \in Contents, Push(c)
  PROVE  IInv'
<1>1. CASE call.op = "resolve" /\ ~Ended
  <2>1. call' = [call EXCEPT !.shown = @ \union {c}] /\ tag' = c /\ tags' = tags
    BY <1>1 DEF Push
  <2>2. DOMAIN call = {"op", "at", "want", "body", "answer", "shown"} /\ call.at # "failed" /\ call.at # "done"
    BY <1>1 DEF IInv, ResolveInv, Ended
  <2>3. /\ DOMAIN call' = DOMAIN call /\ call'.shown = call.shown \union {c}
        /\ call'.op = call.op /\ call'.at = call.at /\ call'.want = call.want
        /\ call'.body = call.body /\ call'.answer = call.answer
    BY <2>1, <2>2
  <2>. QED  BY <1>1, <2>1, <2>2, <2>3 DEF IInv, ResolveInv, ListInv
<1>2. CASE ~(call.op = "resolve" /\ ~Ended)
  <2>1. call' = call /\ tag' = c /\ tags' = tags
    BY <1>2 DEF Push
  <2>. QED  BY <1>2, <2>1 DEF IInv, ResolveInv, ListInv, Ended
<1>. QED  BY <1>1, <1>2

LEMMA PushTagStep ==
  ASSUME IInv, NEW t \in Tags, PushTag(t)
  PROVE  IInv'
<1>1. call' = call /\ tag' = tag /\ tags' = tags \union {t}
  BY DEF PushTag
<1>. QED  BY <1>1 DEF IInv, ResolveInv, ListInv

LEMMA DeleteTagStep ==
  ASSUME IInv, NEW t \in Tags, DeleteTag(t)
  PROVE  IInv'
<1>1. CASE call.op = "list" /\ ~Ended
  <2>1. call' = [call EXCEPT !.stable = @ \ {t}] /\ tag' = tag /\ tags' = tags \ {t}
    BY <1>1 DEF DeleteTag
  <2>2. DOMAIN call = {"op", "at", "page", "next", "allTags", "stable", "honest"}
        /\ call.at # "failed" /\ call.at # "done"
    BY <1>1 DEF IInv, ListInv, Ended
  <2>3. /\ DOMAIN call' = DOMAIN call /\ call'.stable = call.stable \ {t}
        /\ call'.op = call.op /\ call'.at = call.at /\ call'.next = call.next
        /\ call'.allTags = call.allTags /\ call'.honest = call.honest
    BY <2>1, <2>2
  <2>. QED  BY <1>1, <2>1, <2>2, <2>3 DEF IInv, ResolveInv, ListInv
<1>2. CASE ~(call.op = "list" /\ ~Ended)
  <2>1. call' = call /\ tag' = tag /\ tags' = tags \ {t}
    BY <1>2 DEF DeleteTag
  <2>. QED  BY <1>2, <2>1 DEF IInv, ResolveInv, ListInv, Ended
<1>. QED  BY <1>1, <1>2

-----------------------------------------------------------------------------

\* Sets of tags are finite.
LEMMA TagSetsFinite ==
  ASSUME NEW T \in SUBSET Tags
  PROVE  IsFiniteSet(T) /\ Cardinality(T) \in Nat
<1>1. IsFiniteSet(Tags)
  BY FS_Interval DEF Tags
<1>. QED  BY <1>1, FS_Subset, FS_CardinalityType

\* One more tag can be appended to an increasing enumeration of smaller ones.
LEMMA ExtendOrder ==
  ASSUME NEW T \in SUBSET Tags, NEW m \in T, \A t \in T : t <= m,
         NEW n \in Nat, NEW s \in [1..n -> T \ {m}], Increasing(s)
  PROVE  \E r \in [1..(n + 1) -> T] : Increasing(r)
<1>. DEFINE r == [i \in 1..(n + 1) |-> IF i = n + 1 THEN m ELSE s[i]]
<1>1. r \in [1..(n + 1) -> T]
  OBVIOUS
<1>2. ASSUME NEW i \in 1..(n + 1), NEW j \in 1..(n + 1), i < j
      PROVE  r[i] < r[j]
  <2>1. i \in 1..n /\ r[i] = s[i] /\ s[i] \in T /\ s[i] # m
    BY <1>2
  <2>2. CASE j = n + 1
    <3>1. s[i] <= m /\ s[i] \in Nat /\ m \in Nat
      BY <2>1 DEF Tags
    <3>. QED  BY <2>1, <2>2, <3>1
  <2>3. CASE j # n + 1
    <3>1. j \in 1..n /\ r[j] = s[j]
      BY <2>3
    <3>2. i \in DOMAIN s /\ j \in DOMAIN s
      BY <2>1, <3>1
    <3>. QED  BY <1>2, <2>1, <3>1, <3>2 DEF Increasing
  <2>. QED  BY <2>2, <2>3
<1>3. Increasing(r)
  <2>. HIDE DEF r
  <2>1. DOMAIN r = 1..(n + 1)
    BY <1>1
  <2>. QED  BY <1>2, <2>1 DEF Increasing
<1>. QED  BY <1>1, <1>3

\* Every set of tags can be put in order: the smallest one that cannot would
\* be its largest tag and a smaller set that can.
LEMMA OrderExists ==
  ASSUME NEW T \in SUBSET Tags
  PROVE  \E s \in [1..Cardinality(T) -> T] : Increasing(s)
<1>. DEFINE CanOrder(U) == \E s \in [1..Cardinality(U) -> U] : Increasing(s)
            Bad == {n \in Nat : \E U \in SUBSET Tags : Cardinality(U) = n /\ ~CanOrder(U)}
<1>1. SUFFICES ASSUME ~CanOrder(T) PROVE FALSE
  OBVIOUS
<1>2. Cardinality(T) \in Bad
  BY <1>1, TagSetsFinite
<1>3. PICK n \in Bad : \A k \in Bad : n <= k
  <2>1. Bad \in SUBSET Nat /\ Bad # {}
    BY <1>2
  <2>. HIDE DEF Bad
  <2>. QED  BY <2>1, SmallestElement
<1>4. PICK U \in SUBSET Tags : Cardinality(U) = n /\ ~CanOrder(U)
  OBVIOUS
<1>5. IsFiniteSet(U) /\ n \in Nat
  BY TagSetsFinite
<1>6. CASE U = {}
  <2>1. n = 0 /\ 1..n = {}
    BY <1>4, <1>6, FS_EmptySet
  <2>2. [i \in 1..n |-> i] \in [1..n -> U] /\ Increasing([i \in 1..n |-> i])
    BY <2>1 DEF Increasing
  <2>. QED  BY <1>4, <2>2
<1>7. CASE U # {}
  <2>1. PICK m \in U : \A t \in U : t <= m
    <3>1. U \in SUBSET (0..NumTags)
      BY DEF Tags
    <3>. QED  BY <1>7, <3>1, LargestElement
  <2>2. Cardinality(U \ {m}) = n - 1 /\ n - 1 \in Nat
    <3>1. Cardinality(U \ {m}) = n - 1
      BY <1>4, <1>5, FS_RemoveElement
    <3>2. Cardinality(U \ {m}) \in Nat
      BY TagSetsFinite
    <3>. QED  BY <3>1, <3>2
  <2>3. n - 1 \notin Bad
    <3>. HIDE DEF Bad
    <3>. QED  BY <1>3, <1>5, <2>2
  <2>4. CanOrder(U \ {m})
    BY <2>2, <2>3
  <2>5. PICK s \in [1..(n - 1) -> U \ {m}] : Increasing(s)
    BY <2>2, <2>4
  <2>6. \E r \in [1..((n - 1) + 1) -> U] : Increasing(r)
    BY <2>1, <2>2, <2>5, ExtendOrder
  <2>7. (n - 1) + 1 = n
    BY <1>5
  <2>. QED  BY <1>4, <2>6, <2>7
<1>. QED  BY <1>6, <1>7

\* So a page is listed in order, with all its tags.
LEMMA InOrderFacts ==
  ASSUME NEW T \in SUBSET Tags
  PROVE  /\ InOrder(T) \in Seq(T) /\ Increasing(InOrder(T))
         /\ \A t \in T : \E i \in DOMAIN InOrder(T) : InOrder(T)[i] = t
<1>. DEFINE s == InOrder(T)
            n == Cardinality(T)
<1>1. n \in Nat /\ IsFiniteSet(T)
  BY TagSetsFinite
<1>2. s \in [1..n -> T] /\ Increasing(s)
  BY OrderExists DEF InOrder
<1>. HIDE DEF s, n
<1>3. s \in Seq(T)
  BY <1>1, <1>2
<1>4. s \in Injection(1..n, T)
  <2>1. ASSUME NEW i \in 1..n, NEW j \in 1..n, s[i] = s[j], i < j PROVE FALSE
    <3>1. s[i] < s[j]
      BY <1>2, <2>1 DEF Increasing
    <3>2. s[i] \in Nat
      BY <1>2 DEF Tags
    <3>. QED  BY <2>1, <3>1, <3>2
  <2>2. ASSUME NEW i \in 1..n, NEW j \in 1..n, s[i] = s[j] PROVE i = j
    <3>1. i < j \/ j < i \/ i = j
      BY <1>1
    <3>. QED  BY <2>1, <2>2, <3>1
  <2>. QED  BY <1>2, <2>2 DEF Injection, IsInjective
<1>5. IsFiniteSet(1..n) /\ Cardinality(1..n) = n
  <2>1. IsFiniteSet(1..n) /\ Cardinality(1..n) = IF 1 > n THEN 0 ELSE n - 1 + 1
    BY <1>1, FS_Interval, 1 \in Int, n \in Int
  <2>. QED  BY <1>1, <2>1
<1>6. s \in Surjection(1..n, T)
  <2>1. n = Cardinality(T)
    BY DEF n
  <2>. QED  BY <1>1, <1>4, <1>5, <2>1, FS_Injection
<1>. QED  BY <1>2, <1>3, <1>6 DEF Surjection, s

\* A page has the next tags after the cursor: everything up to its link, or
\* everything if there is no link.
LEMMA PageFacts ==
  ASSUME tags \subseteq Tags, NEW c \in 0..NoLink
  PROVE  /\ PageAt(c) \subseteq Tags
         /\ \A t \in PageAt(c) : c < t /\ t <= ProperLink(c)
         /\ ProperLink(c) \in c..NoLink
         /\ \A t \in tags : c < t /\ t <= ProperLink(c) => t \in PageAt(c)
<1>. DEFINE R == Remaining(c)
            P == PageAt(c)
            L == ProperLink(c)
<1>1. /\ R \subseteq tags /\ P \subseteq R /\ \A t \in R : c < t
      /\ \A t \in tags : c < t => t \in R
  BY DEF Remaining, PageAt
<1>2. tags \in SUBSET Tags /\ NoLink = NumTags + 1 /\ NumTags \in Nat /\ c \in Nat
  BY DEF NoLink
<1>3. CASE P = R
  <2>1. L = NoLink
    BY <1>3 DEF ProperLink
  <2>. HIDE DEF R, P, L
  <2>. QED  BY <1>1, <1>2, <1>3, <2>1 DEF Tags, P, L
<1>4. CASE P # R
  <2>1. P # {}
    <3>1. R \in SUBSET Nat /\ R # {}
      <4>. HIDE DEF R, P
      <4>. QED  BY <1>1, <1>2, <1>4 DEF Tags
    <3>2. PICK m \in R : \A u \in R : m <= u
      <4>. HIDE DEF R
      <4>. QED  BY <3>1, SmallestElement
    <3>3. {u \in R : u <= m} = {m}
      <4>. HIDE DEF R
      <4>. QED  BY <3>1, <3>2
    <3>4. Cardinality({u \in R : u <= m}) <= PageSize
      <4>1. Cardinality({m}) = 1
        BY FS_Singleton, Zenon
      <4>2. Cardinality({u \in R : u <= m}) = 1
        <5>. HIDE DEF R
        <5>. QED  BY <3>3, <4>1, Zenon
      <4>3. 1 <= PageSize
        OBVIOUS
      <4>. HIDE DEF R
      <4>. QED  BY <4>2, <4>3, Zenon
    <3>. QED  BY <3>2, <3>4 DEF PageAt
  <2>2. \E t \in P : \A u \in P : u <= t
    <3>1. P \in SUBSET (0..NumTags)
      BY <1>1, <1>2 DEF Tags
    <3>. HIDE DEF P
    <3>. QED  BY <1>2, <2>1, <3>1, LargestElement
  <2>3. L = CHOOSE t \in P : \A u \in P : u <= t
    BY <1>4 DEF ProperLink
  <2>4. L \in P /\ \A u \in P : u <= L
    <3>. HIDE DEF P, L
    <3>. QED  BY <2>2, <2>3
  <2>5. ASSUME NEW t \in tags, c < t, t <= L PROVE t \in P
    <3>1. t \in R /\ L \in R
      BY <1>1, <2>4, <2>5
    <3>2. {u \in R : u <= t} \in SUBSET {u \in R : u <= L}
      <4>1. t \in Nat /\ L \in Nat /\ R \subseteq Nat
        BY <1>1, <1>2, <2>4 DEF Tags
      <4>. HIDE DEF R, L
      <4>. QED  BY <2>5, <4>1
    <3>3. {u \in R : u <= L} \in SUBSET Tags
      BY <1>1, <1>2
    <3>4. Cardinality({u \in R : u <= L}) <= PageSize
      BY <2>4 DEF PageAt
    <3>5. /\ Cardinality({u \in R : u <= t}) <= Cardinality({u \in R : u <= L})
          /\ Cardinality({u \in R : u <= t}) \in Nat /\ Cardinality({u \in R : u <= L}) \in Nat
      BY <3>2, <3>3, TagSetsFinite, FS_Subset
    <3>6. Cardinality({u \in R : u <= t}) <= PageSize
      BY <3>4, <3>5
    <3>. QED  BY <3>1, <3>6 DEF PageAt
  <2>. HIDE DEF R, P, L
  <2>. QED  BY <1>1, <1>2, <2>4, <2>5 DEF Tags, P, L
<1>. QED  BY <1>3, <1>4

\* Appending an increasing sequence of larger tags keeps the listing in order.
LEMMA AppendPage ==
  ASSUME NEW a \in Seq(Tags), NEW b \in Seq(Tags), NEW c \in Nat,
         Increasing(a), Increasing(b),
         \A i \in DOMAIN a : a[i] <= c, \A i \in DOMAIN b : c < b[i]
  PROVE  Increasing(a \o b)
<1>1. SUFFICES ASSUME NEW i \in DOMAIN (a \o b), NEW j \in DOMAIN (a \o b), i < j
               PROVE  (a \o b)[i] < (a \o b)[j]
  BY DEF Increasing
<1>2. i \in 1..(Len(a) + Len(b)) /\ j \in 1..(Len(a) + Len(b))
  OBVIOUS
<1>3. CASE j <= Len(a)
  <2>1. i \in DOMAIN a /\ j \in DOMAIN a /\ (a \o b)[i] = a[i] /\ (a \o b)[j] = a[j]
    BY <1>1, <1>2, <1>3
  <2>. QED  BY <1>1, <2>1 DEF Increasing
<1>4. CASE i > Len(a)
  <2>1. /\ i - Len(a) \in DOMAIN b /\ j - Len(a) \in DOMAIN b
        /\ (a \o b)[i] = b[i - Len(a)] /\ (a \o b)[j] = b[j - Len(a)] /\ i - Len(a) < j - Len(a)
    BY <1>1, <1>2, <1>4
  <2>. QED  BY <2>1 DEF Increasing
<1>5. CASE i <= Len(a) /\ j > Len(a)
  <2>1. /\ i \in DOMAIN a /\ j - Len(a) \in DOMAIN b
        /\ (a \o b)[i] = a[i] /\ (a \o b)[j] = b[j - Len(a)]
    BY <1>2, <1>5
  <2>2. a[i] \in Nat /\ b[j - Len(a)] \in Nat
    BY <2>1 DEF Tags
  <2>. QED  BY <2>1, <2>2
<1>. QED  BY <1>2, <1>3, <1>4, <1>5

\* What a concatenation holds is what its parts hold.
LEMMA ConcatEntries ==
  ASSUME NEW a \in Seq(Tags), NEW b \in Seq(Tags)
  PROVE  /\ a \o b \in Seq(Tags)
         /\ \A i \in DOMAIN a : \E k \in DOMAIN (a \o b) : (a \o b)[k] = a[i]
         /\ \A i \in DOMAIN b : \E k \in DOMAIN (a \o b) : (a \o b)[k] = b[i]
         /\ \A k \in DOMAIN (a \o b) :
              (\E i \in DOMAIN a : (a \o b)[k] = a[i]) \/ (\E i \in DOMAIN b : (a \o b)[k] = b[i])
<1>1. a \o b \in Seq(Tags) /\ DOMAIN (a \o b) = 1..(Len(a) + Len(b))
      /\ DOMAIN a = 1..Len(a) /\ DOMAIN b = 1..Len(b) /\ Len(a) \in Nat /\ Len(b) \in Nat
  OBVIOUS
<1>2. ASSUME NEW i \in DOMAIN a PROVE i \in DOMAIN (a \o b) /\ (a \o b)[i] = a[i]
  BY <1>1
<1>3. ASSUME NEW i \in DOMAIN b PROVE i + Len(a) \in DOMAIN (a \o b) /\ (a \o b)[i + Len(a)] = b[i]
  BY <1>1
<1>4. ASSUME NEW k \in DOMAIN (a \o b)
      PROVE  (\E i \in DOMAIN a : (a \o b)[k] = a[i]) \/ (\E i \in DOMAIN b : (a \o b)[k] = b[i])
  <2>1. CASE k <= Len(a)
    BY <1>1, <2>1
  <2>2. CASE k > Len(a)
    <3>1. k - Len(a) \in DOMAIN b /\ (a \o b)[k] = b[k - Len(a)]
      BY <1>1, <2>2
    <3>. QED  BY <3>1
  <2>. QED  BY <1>1, <2>1, <2>2
<1>. QED  BY <1>1, <1>2, <1>3, <1>4

\* The steps of a listing.
LEMMA ListStep ==
  ASSUME IInv, ListTags
  PROVE  IInv'
<1>1. call' = Listing /\ tag' = tag /\ tags' = tags
  BY DEF ListTags
<1>2. /\ DOMAIN call' = {"op", "at", "page", "next", "allTags", "stable", "honest"}
      /\ call'.op = "list" /\ call'.at = "page" /\ call'.next = 0 /\ call'.allTags = <<>>
      /\ call'.stable = tags /\ call'.honest = TRUE
  BY <1>1 DEF Listing
<1>3. Increasing(<<>>) /\ <<>> \in Seq(Tags) /\ DOMAIN <<>> = {} /\ 0 \in 0..NoLink
  BY DEF Increasing, NoLink
<1>4. \A t \in tags : ~(t <= 0)
  BY DEF IInv, Tags
<1>5. ListInv'
  BY <1>1, <1>2, <1>3, <1>4 DEF IInv, ListInv
<1>. QED  BY <1>1, <1>2, <1>5 DEF IInv, ResolveInv

LEMMA FetchStep ==
  ASSUME IInv, FetchPage
  PROVE  IInv'
<1>1. PICK link \in Links(call.next) : call' = WithPage(link)
  BY DEF FetchPage
<1>2. tag' = tag /\ tags' = tags /\ call.at = "page"
  BY DEF FetchPage
<1>3. call.op = "list"
  BY <1>2 DEF IInv, ResolveInv
<1>4. /\ DOMAIN call = {"op", "at", "page", "next", "allTags", "stable", "honest"}
      /\ call.next \in 0..NoLink /\ call.allTags \in Seq(Tags)
      /\ call.stable \subseteq tags /\ call.honest \in BOOLEAN /\ tags \subseteq Tags
  BY <1>2, <1>3 DEF IInv, ListInv
<1>. DEFINE c == call.next
            a == call.allTags
            b == InOrder(PageAt(c))
<1>5. /\ DOMAIN call' = DOMAIN call
      /\ call'.op = "list" /\ call'.at = "page" /\ call'.stable = call.stable
      /\ call'.next = link /\ call'.allTags = a \o b
      /\ call'.honest = (call.honest /\ link = ProperLink(c))
  BY <1>1, <1>2, <1>3, <1>4 DEF WithPage
<1>6. /\ PageAt(c) \subseteq Tags
      /\ \A t \in PageAt(c) : c < t /\ t <= ProperLink(c)
      /\ ProperLink(c) \in c..NoLink
      /\ \A t \in tags : c < t /\ t <= ProperLink(c) => t \in PageAt(c)
  <2>. HIDE DEF c
  <2>. QED  BY <1>4, PageFacts DEF c
<1>7. /\ b \in Seq(PageAt(c)) /\ Increasing(b)
      /\ \A t \in PageAt(c) : \E i \in DOMAIN b : b[i] = t
  BY <1>6, InOrderFacts
<1>8. b \in Seq(Tags) /\ \A i \in DOMAIN b : b[i] \in PageAt(c)
  <2>. HIDE DEF b, c
  <2>. QED  BY <1>6, <1>7
<1>9. link \in 0..NoLink
  <2>1. ProperLink(c) \in 0..NoLink
    <3>. HIDE DEF c
    <3>. QED  BY <1>4, <1>6 DEF c, NoLink
  <2>. QED  BY <2>1 DEF Links
<1>. HIDE DEF b
<1>10. /\ a \o b \in Seq(Tags)
       /\ \A i \in DOMAIN a : \E k \in DOMAIN (a \o b) : (a \o b)[k] = a[i]
       /\ \A i \in DOMAIN b : \E k \in DOMAIN (a \o b) : (a \o b)[k] = b[i]
       /\ \A k \in DOMAIN (a \o b) :
            (\E i \in DOMAIN a : (a \o b)[k] = a[i]) \/ (\E i \in DOMAIN b : (a \o b)[k] = b[i])
  BY <1>4, <1>8, ConcatEntries
<1>11. ASSUME call.honest, link = ProperLink(c)
       PROVE  /\ \A k \in DOMAIN (a \o b) : (a \o b)[k] <= link
              /\ \A t \in call.stable : t <= link => \E k \in DOMAIN (a \o b) : (a \o b)[k] = t
              /\ Increasing(a \o b)
  <2>1. /\ \A i \in DOMAIN a : a[i] <= c
        /\ \A t \in call.stable : t <= c => \E i \in DOMAIN a : a[i] = t
        /\ Increasing(a)
    BY <1>2, <1>3, <1>11 DEF IInv, ListInv
  <2>2. c \in Nat /\ link \in Nat /\ c <= link /\ Tags \subseteq Nat
    BY <1>4, <1>6, <1>11 DEF NoLink, Tags
  <2>. HIDE DEF a, c
  <2>3. \A i \in DOMAIN b : c < b[i] /\ b[i] <= link
    BY <1>6, <1>8, <1>11
  <2>4. Increasing(a \o b)
    BY <1>4, <1>7, <1>8, <2>1, <2>2, <2>3, AppendPage DEF a
  <2>5. ASSUME NEW k \in DOMAIN (a \o b) PROVE (a \o b)[k] <= link
    <3>1. CASE \E i \in DOMAIN a : (a \o b)[k] = a[i]
      <4>1. PICK i \in DOMAIN a : (a \o b)[k] = a[i]
        BY <3>1
      <4>2. a[i] \in Nat /\ a[i] <= c
        BY <1>4, <2>1, <2>2 DEF a
      <4>. QED  BY <2>2, <4>1, <4>2
    <3>2. CASE \E i \in DOMAIN b : (a \o b)[k] = b[i]
      BY <2>3, <3>2
    <3>. QED  BY <1>10, <3>1, <3>2
  <2>6. ASSUME NEW t \in call.stable, t <= link
        PROVE  \E k \in DOMAIN (a \o b) : (a \o b)[k] = t
    <3>1. CASE t <= c
      <4>1. PICK i \in DOMAIN a : a[i] = t
        BY <2>1, <3>1
      <4>. QED  BY <1>10, <4>1
    <3>2. CASE c < t
      <4>1. t \in PageAt(c)
        BY <1>4, <1>6, <1>11, <2>6, <3>2
      <4>2. PICK i \in DOMAIN b : b[i] = t
        BY <1>7, <4>1
      <4>. QED  BY <1>10, <4>2
    <3>3. t \in Nat
      BY <1>4, <2>2
    <3>. QED  BY <2>2, <3>1, <3>2, <3>3
  <2>. QED  BY <2>4, <2>5, <2>6
<1>12. ListInv'
  <2>. HIDE DEF a, c
  <2>1. call'.honest \in BOOLEAN /\ (call'.honest => call.honest /\ link = ProperLink(c))
    BY <1>4, <1>5
  <2>2. call'.stable \subseteq Tags /\ call'.stable \subseteq tags'
    BY <1>2, <1>4, <1>5
  <2>3. call'.honest =>
          /\ \A i \in DOMAIN call'.allTags : call'.allTags[i] <= call'.next
          /\ \A t \in call'.stable : t <= call'.next => \E i \in DOMAIN call'.allTags : call'.allTags[i] = t
          /\ Increasing(call'.allTags)
    BY <1>5, <1>11, <2>1
  <2>. QED  BY <1>4, <1>5, <1>9, <1>10, <2>1, <2>2, <2>3 DEF ListInv
<1>. QED  BY <1>2, <1>4, <1>5, <1>12 DEF IInv, ResolveInv

LEMMA ReturnStep ==
  ASSUME IInv, Return
  PROVE  IInv'
<1>1. call' = [call EXCEPT !.at = "done"] /\ tag' = tag /\ tags' = tags /\ call.at = "page"
  BY DEF Return
<1>2. call.op = "list"
  BY <1>1 DEF IInv, ResolveInv
<1>3. DOMAIN call = {"op", "at", "page", "next", "allTags", "stable", "honest"}
  BY <1>1, <1>2 DEF IInv, ListInv
<1>4. /\ DOMAIN call' = DOMAIN call
      /\ call'.op = "list" /\ call'.at = "done" /\ call'.next = call.next
      /\ call'.stable = call.stable /\ call'.allTags = call.allTags /\ call'.honest = call.honest
  BY <1>1, <1>2, <1>3
<1>. QED  BY <1>1, <1>2, <1>3, <1>4 DEF IInv, ResolveInv, ListInv

-----------------------------------------------------------------------------

\* The client's calls work on what the registry showed them.
LEMMA Invariance == Spec => []IInv
<1>1. IInv /\ [Next]_vars => IInv'
  <2>1. SUFFICES ASSUME IInv, [Next]_vars PROVE IInv'
    OBVIOUS
  <2>2. CASE UNCHANGED vars
    BY <2>1, <2>2 DEF vars, IInv, ResolveInv, ListInv
  <2>3. CASE Respond
    BY <2>1, <2>3, ManifestStep, ConfigStep, FetchStep, ReturnStep, FailStep DEF Respond
  <2>. QED
    BY <2>1, <2>2, <2>3, ResolveStep, ListStep, PushStep, PushTagStep, DeleteTagStep DEF Next
<1>. QED  BY InitIInv, <1>1, PTL DEF Spec

\* ResolveForPlatform answers from one content the tag pointed to during the
\* call, and the manifest it names is for the machine asked for.
THEOREM AnswerCorrect == Spec => []AnswerIsPlatformVerified
<1>1. IInv => AnswerIsPlatformVerified
  <2>1. SUFFICES ASSUME IInv, Answered("resolve")
                 PROVE  \E c \in call.shown :
                          LET fitting == ManifestsFor(c, call.want)
                          IN  /\ call.answer.manifest \in IF fitting = {} THEN {""} ELSE fitting
                              /\ call.answer.index = IF c.kind = "index" THEN c.digest ELSE ""
    BY DEF AnswerIsPlatformVerified
  <2>2. /\ call.want \in Platforms /\ call.body \in call.shown /\ call.body \in Contents
        /\ call.answer = IF call.body.kind = "index" THEN ResolveIndex(call.body, call.want)
                                                     ELSE ResolveSingle(call.body, call.want)
    BY <2>1 DEF IInv, ResolveInv, Answered
  <2>. QED  BY <2>2, AnswerFits
<1>. QED  BY <1>1, Invariance, PTL

\* However the variant of a platform is spelled, the answer is the same.
THEOREM SpellingCorrect == Spec => []SpellingDoesNotMatter
<1>1. IInv => SpellingDoesNotMatter
  <2>1. SUFFICES ASSUME IInv, Answered("resolve"), NEW w \in Platforms, SameMachine(w, call.want)
                 PROVE  call.answer = IF call.body.kind = "index" THEN ResolveIndex(call.body, w)
                                                                  ELSE ResolveSingle(call.body, w)
    BY DEF SpellingDoesNotMatter
  <2>2. /\ call.want \in Platforms /\ call.body \in Contents
        /\ call.answer = IF call.body.kind = "index" THEN ResolveIndex(call.body, call.want)
                                                     ELSE ResolveSingle(call.body, call.want)
    BY <2>1 DEF IInv, ResolveInv, Answered
  <2>. QED  BY <2>1, <2>2, SameMachineSameAnswer
<1>. QED  BY <1>1, Invariance, PTL

\* A listing from a well-behaved registry has no holes and no duplicates.
THEOREM ListingCorrect == Spec => []ListingComplete
<1>1. IInv => ListingComplete
  BY DEF IInv, ListInv, ListingComplete, Answered
<1>. QED  BY <1>1, Invariance, PTL

-----------------------------------------------------------------------------

\* From here on, the bearer tokens.
HIDE RegistryClientAssumption

USE TokenAssumption

\* A worker carries a token from the moment it has one until it returns, and
\* none before.
Carries ==
  \A w \in Workers :
    IF pc[w] \in {"store", "retry", "refused"}
      THEN held[w] \in Tokens \union {Anonymous}
      ELSE held[w] = NoToken

\* No secret is used before the operator has set it.
Known == \A w \in Workers : pair[w] \in (0..account) \X (0..account)

TokenInv == TypeOK /\ Carries /\ Known

\* The first answer that is not none is one of the answers.
LEMMA FirstIsFound ==
  ASSUME NEW T, NEW none \in T, NEW n \in Nat, NEW s \in [1..n -> T]
  PROVE  FirstFound(s, none) \in T
<1>. DEFINE found == {i \in 1..n : s[i] # none}
            i == CHOOSE i \in found : \A j \in found : i <= j
<1>1. FirstFound(s, none) = IF found = {} THEN none ELSE s[i]
  BY DEF FirstFound
<1>2. ASSUME found # {} PROVE i \in found
  <2>1. found \in SUBSET Nat /\ found # {}
    BY <1>2
  <2>. HIDE DEF found
  <2>2. \E k \in found : \A j \in found : k <= j
    BY <2>1, SmallestElement
  <2>. QED  BY <2>2
<1>. QED  BY <1>1, <1>2

\* Looking credentials up yields secrets the operator has set.
LEMMA LookupType ==
  ASSUME NEW n \in Nat, NEW u \in 0..n, NEW p \in 0..n,
         NEW h \in 0..n, NEW s \in 0..n, NEW a \in 0..n
  PROVE  Chain(<<FileSource(u, p), lookup(h, s, a)>>) \in (0..n) \X (0..n)
<1>1. FileSource(u, p) \in (0..n) \X (0..n)
  BY DEF FileSource, NoPair, Nothing
<1>2. FirstFound(<<h, s, a>>, 0) \in 0..n
  <2>1. <<h, s, a>> \in [1..3 -> 0..n] /\ 0 \in 0..n
    OBVIOUS
  <2>. QED  BY <2>1, FirstIsFound
<1>3. lookup(h, s, a) \in (0..n) \X (0..n)
  BY <1>2 DEF lookup, Pair, Nothing
<1>4. PICK x \in (0..n) \X (0..n) : x = FileSource(u, p)
  BY <1>1
<1>5. PICK y \in (0..n) \X (0..n) : y = lookup(h, s, a)
  BY <1>3
<1>6. <<x, y>> \in [1..2 -> (0..n) \X (0..n)] /\ <<0, 0>> \in (0..n) \X (0..n)
  OBVIOUS
<1>7. FirstFound(<<x, y>>, <<0, 0>>) \in (0..n) \X (0..n)
  BY <1>6, FirstIsFound
<1>. QED  BY <1>4, <1>5, <1>7 DEF Chain, NoPair, Nothing

LEMMA InitTokenInv ==
  ASSUME TokenInit
  PROVE  TokenInv
<1>1. PICK S \in Dockers :
        docker = [k \in {"helper", "store", "auth"} |-> IF k \in S THEN 1 ELSE 0]
  BY DEF TokenInit, Nothing
<1>2. docker \in [helper : 0..1, store : 0..1, auth : 0..1]
  BY <1>1
<1>3. files \in (0..1) \X (0..1)
  BY DEF TokenInit, Nothing, NoPair, Pair
<1>4. account = 1
  BY DEF TokenInit
<1>. QED  BY <1>2, <1>3, <1>4
          DEF TokenInit, TokenInv, TypeOK, Carries, Known, NoPair, Nothing

\* The steps of a request that leave the credentials it has read alone.
LEMMA RequestStep ==
  ASSUME TokenInv, NEW w \in Workers,
         Request(w) \/ Lookup(w) \/ Store(w) \/ RetryRefused(w)
  PROVE  TokenInv'
<1>. USE DEF TokenInv, TypeOK, Carries, Known, creds
<1>1. CASE Request(w)
  BY <1>1 DEF Request, Returned
<1>2. CASE Lookup(w)
  <2>1. CASE tokens # NoToken
    <3>1. PICK t \in Tokens \union {Anonymous} : t = tokens
      BY <2>1
    <3>2. /\ pc[w] = "challenged"
          /\ held' = [held EXCEPT ![w] = t]
          /\ pc' = [pc EXCEPT ![w] = "retry"]
          /\ UNCHANGED <<tokens, valid, expiries, pair, account, files, docker>>
      BY <1>2, <2>1, <3>1 DEF Lookup
    <3>3. TypeOK' /\ Known'
      BY <3>2
    <3>4. Carries'
      BY <3>2
    <3>. QED  BY <3>3, <3>4
  <2>2. CASE tokens = NoToken
    BY <1>2, <2>2 DEF Lookup
  <2>. QED  BY <2>1, <2>2
<1>3. CASE Store(w)
  BY <1>3 DEF Store
<1>4. CASE RetryRefused(w)
  BY <1>4 DEF RetryRefused
<1>. QED  BY <1>1, <1>2, <1>3, <1>4

\* The request returns.
LEMMA EndStep ==
  ASSUME TokenInv, NEW w \in Workers,
         \/ RequestFail(w) \/ ExchangeFail(w) \/ RetryFail(w)
         \/ Retry(w) \/ RetryDenied(w) \/ Invalidate(w)
  PROVE  TokenInv'
<1>1. PICK how \in {"idle", "ok", "denied", "rejected"} : End(w, how)
  BY DEF RequestFail, ExchangeFail, RetryFail, Retry, RetryDenied, Invalidate
<1>2. /\ UNCHANGED <<valid, expiries, account, files, docker>>
      /\ tokens' \in {tokens, NoToken}
  BY DEF RequestFail, ExchangeFail, RetryFail, Retry, RetryDenied, Invalidate, creds
<1>3. TypeOK' /\ Known'
  BY <1>1, <1>2 DEF End, TokenInv, TypeOK, Known, NoPair, Nothing
<1>4. Carries'
  BY <1>1, <1>2 DEF End, TokenInv, TypeOK, Carries
<1>. QED  BY <1>3, <1>4 DEF TokenInv

LEMMA ReadUsernameStep ==
  ASSUME TokenInv, NEW w \in Workers, ReadUsername(w)
  PROVE  TokenInv'
  BY DEF ReadUsername, TokenInv, TypeOK, Carries, Known, creds,
         Nothing

\* Reading the password, whatever the helpers answer.
LEMMA ResolvedStep ==
  ASSUME TokenInv, NEW w \in Workers,
         NEW h \in {docker.helper, 0}, NEW s \in {docker.store, 0}, Resolve(w, h, s)
  PROVE  TokenInv'
<1>1. PICK c : c = Chain(<<FileSource(pair[w][1], files[2]), lookup(h, s, docker.auth)>>)
  OBVIOUS
<1>2. account \in Nat /\ pair[w][1] \in 0..account /\ files[2] \in 0..account
      /\ h \in 0..account /\ s \in 0..account /\ docker.auth \in 0..account
  BY DEF TokenInv, TypeOK, Known
<1>3. c \in (0..account) \X (0..account)
  BY <1>1, <1>2, LookupType
<1>4. /\ pc[w] = "username"
      /\ pc' = [pc EXCEPT ![w] = "ask"]
      /\ pair' = [pair EXCEPT ![w] = c]
      /\ UNCHANGED <<tokens, valid, expiries, held, account, files, docker>>
  BY <1>1 DEF Resolve, creds
<1>5. c \in (0..MaxRotation) \X (0..MaxRotation)
  BY <1>3 DEF TokenInv, TypeOK
<1>6. TypeOK'
  BY <1>4, <1>5 DEF TokenInv, TypeOK
<1>7. Carries'
  BY <1>4 DEF TokenInv, TypeOK, Carries
<1>8. Known'
  BY <1>3, <1>4 DEF TokenInv, TypeOK, Known
<1>. QED  BY <1>6, <1>7, <1>8 DEF TokenInv

LEMMA ReadPasswordStep ==
  ASSUME TokenInv, NEW w \in Workers, ReadPassword(w) \/ HelperFail(w)
  PROVE  TokenInv'
<1>1. PICK h \in {docker.helper, 0}, s \in {docker.store, 0} : Resolve(w, h, s)
  BY Zenon DEF ReadPassword, HelperFail, Nothing
<1>. QED  BY <1>1, ResolvedStep

\* An exchange: the worker gets a token, for its credentials or without.
LEMMA ExchangeStep ==
  ASSUME TokenInv, NEW w \in Workers, Exchange(w) \/ ExchangeAnonymous(w)
  PROVE  TokenInv'
<1>. USE DEF TokenInv, TypeOK, Carries, Known, creds, NoPair, Nothing
<1>1. CASE Exchange(w)
  <2>1. PICK t \in Tokens :
          /\ held' = [held EXCEPT ![w] = t]
          /\ valid' \subseteq valid \union {t}
          /\ pc' = [pc EXCEPT ![w] = "store"]
          /\ pair' = [pair EXCEPT ![w] = <<0, 0>>]
          /\ UNCHANGED <<tokens, expiries, account, files, docker>>
    BY <1>1 DEF Exchange
  <2>. QED  BY <2>1
<1>2. CASE ExchangeAnonymous(w)
  BY <1>2 DEF ExchangeAnonymous
<1>. QED  BY <1>1, <1>2

\* What the registry and the operator do meanwhile.
LEMMA OutsideStep ==
  ASSUME TokenInv, Expire \/ Rotate \/ Renew
  PROVE  TokenInv'
<1>. USE DEF TokenInv, TypeOK, Carries, Known, creds, NoPair, Nothing
<1>1. CASE Expire
  BY <1>1 DEF Expire
<1>2. CASE Rotate
  BY <1>2 DEF Rotate
<1>3. CASE Renew
  <2>1. files' \in (0..account) \X (0..account)
    BY <1>3 DEF Renew
  <2>2. docker' \in [helper : 0..account, store : 0..account, auth : 0..account]
    BY <1>3 DEF Renew
  <2>3. UNCHANGED <<tokens, valid, expiries, pc, held, pair, account>>
    BY <1>3 DEF Renew
  <2>. QED  BY <2>1, <2>2, <2>3
<1>. QED  BY <1>1, <1>2, <1>3

LEMMA TokenInvariance == TokenSpec => []TokenInv
<1>1. TokenInit => TokenInv
  BY InitTokenInv
<1>2. TokenInv /\ [TokenNext]_tokenVars => TokenInv'
  <2>. SUFFICES ASSUME TokenInv, [TokenNext]_tokenVars PROVE TokenInv'
    OBVIOUS
  <2>1. CASE UNCHANGED tokenVars
    BY <2>1 DEF tokenVars, TokenInv, TypeOK, Carries, Known
  <2>2. CASE Expire \/ Rotate \/ Renew
    BY <2>2, OutsideStep
  <2>3. ASSUME NEW w \in Workers, Get(w) PROVE TokenInv'
    BY <2>3, RequestStep, EndStep, ReadUsernameStep, ReadPasswordStep, ExchangeStep DEF Get
  <2>. QED  BY <2>1, <2>2, <2>3 DEF TokenNext
<1>. QED  BY <1>1, <1>2, PTL DEF TokenSpec

\* For any workers, tokens and rotations, the cache, the requests and the
\* credentials read for them keep their types: an empty answer of the realm is
\* never cached or sent as a token.
THEOREM TokensTyped == TokenSpec => []TypeOK
<1>1. TokenInv => TypeOK
  BY DEF TokenInv
<1>. QED  BY <1>1, TokenInvariance, PTL

\* A request doAuthenticatedGETInner repeats, and one it drops a cache entry
\* for, carried a token; credentials are only those the operator has set, even
\* when username and password come from different rotations.
THEOREM RetriesCarryTokens == TokenSpec => [](Carries /\ Known)
<1>1. TokenInv => Carries /\ Known
  BY DEF TokenInv
<1>. QED  BY <1>1, TokenInvariance, PTL
=============================================================================
