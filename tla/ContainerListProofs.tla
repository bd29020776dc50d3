------------------------- MODULE ContainerListProofs -------------------------
(***************************************************************************)
(* Which containers ListContainers reports, and with which platform and    *)
(* digest, for any containers, spellings of their references and images,   *)
(* whichever inspections fail.                                             *)
(***************************************************************************)
EXTENDS ContainerList, SequenceTheorems, WellFoundedInduction, TLAPS

-----------------------------------------------------------------------------

\* A non-empty set of numbers has a smallest one.
LEMMA SmallestElement ==
  ASSUME NEW S \in SUBSET Nat, S # {}
  PROVE  \E i \in S : \A j \in S : i <= j
<1>. DEFINE R == {ss \in Nat \X Nat : ss[1] < ss[2]}
<1>1. IsWellFoundedOn(R, Nat)
  BY NatLessThanWellFounded, Zenon DEF OpToRel
<1>2. PICK x \in S : \A y \in S : <<y, x>> \notin R
  <2>. HIDE DEF R
  <2>. QED  BY <1>1, WFMin
<1>3. ASSUME NEW j \in S PROVE x <= j
  <2>1. <<j, x>> \in Nat \X Nat /\ <<j, x>>[1] = j /\ <<j, x>>[2] = x
    OBVIOUS
  <2>2. ~(j < x)
    BY <1>2, <2>1, Zenon
  <2>. QED  BY <2>2
<1>. QED  BY <1>2, <1>3

\* A bounded one has a largest one.
LEMMA LargestElement ==
  ASSUME NEW n \in Nat, NEW S \in SUBSET (1..n), S # {}
  PROVE  \E i \in S : \A j \in S : j <= i
<1>. DEFINE D == {n - i : i \in S}
<1>1. D \in SUBSET Nat /\ D # {}
  <2>1. \A i \in S : n - i \in Nat
    OBVIOUS
  <2>. QED  BY <2>1
<1>2. PICK d \in D : \A e \in D : d <= e
  <2>. HIDE DEF D
  <2>. QED  BY <1>1, SmallestElement
<1>3. PICK i \in S : d = n - i
  OBVIOUS
<1>4. ASSUME NEW j \in S PROVE j <= i
  <2>1. n - j \in D
    OBVIOUS
  <2>2. n - i <= n - j
    BY <1>2, <1>3, <2>1
  <2>. QED  BY <2>2
<1>. QED  BY <1>4

-----------------------------------------------------------------------------
\* Names and their suffixes.

\* What names are made of, the components that image.Parse adds included.
Components == STRING \union {DefaultRegistry, "library"}

LEMMA ConsProperties ==
  ASSUME NEW S, NEW a \in S, NEW s \in Seq(S)
  PROVE  /\ <<a>> \o s \in Seq(S) /\ Len(<<a>> \o s) = Len(s) + 1
         /\ (<<a>> \o s)[1] = a
         /\ \A i \in 1..Len(s) : (<<a>> \o s)[i + 1] = s[i]
<1>1. <<a>> \in Seq(S) /\ Len(<<a>>) = 1 /\ <<a>>[1] = a /\ Len(s) \in Nat
  OBVIOUS
<1>. PICK t : t = <<a>>
  OBVIOUS
<1>2. t \in Seq(S) /\ Len(t) = 1 /\ t[1] = a
  BY <1>1
<1>3. /\ t \o s \in Seq(S) /\ Len(t \o s) = Len(t) + Len(s)
      /\ \A i \in 1..(Len(t) + Len(s)) : (t \o s)[i] = IF i <= Len(t) THEN t[i] ELSE s[i - Len(t)]
  BY <1>2, ConcatProperties
<1>4. (t \o s)[1] = a
  BY <1>1, <1>2, <1>3
<1>5. ASSUME NEW i \in 1..Len(s) PROVE (t \o s)[i + 1] = s[i]
  <2>1. i + 1 \in 1..(Len(t) + Len(s)) /\ ~(i + 1 <= Len(t)) /\ (i + 1) - Len(t) = i
    BY <1>1, <1>2
  <2>. QED  BY <1>3, <2>1
<1>. QED  BY <1>1, <1>2, <1>3, <1>4, <1>5

LEMMA ConsEqual ==
  ASSUME NEW S, NEW a \in S, NEW b \in S, NEW s \in Seq(S), NEW t \in Seq(S), <<a>> \o s = <<b>> \o t
  PROVE  a = b /\ s = t
<1>1. a = b /\ Len(s) = Len(t)
  <2>1. Len(s) \in Nat /\ Len(t) \in Nat
    OBVIOUS
  <2>. QED  BY <2>1, ConsProperties
<1>2. \A i \in 1..Len(s) : s[i] = t[i]
  BY <1>1, ConsProperties
<1>. QED  BY <1>1, <1>2, SeqEqual

LEMMA ReverseProperties ==
  ASSUME NEW S, NEW s \in Seq(S)
  PROVE  /\ Reverse(s) \in Seq(S) /\ Len(Reverse(s)) = Len(s)
         /\ \A i \in 1..Len(s) : Reverse(s)[i] = s[(Len(s) - i) + 1]
<1>1. Len(s) \in Nat /\ \A i \in 1..Len(s) : (Len(s) - i) + 1 \in 1..Len(s)
  OBVIOUS
<1>2. \A i \in 1..Len(s) : s[(Len(s) - i) + 1] \in S
  BY <1>1
<1>3. Reverse(s) \in [1..Len(s) -> S]
  BY <1>2 DEF Reverse
<1>4. Reverse(s) \in Seq(S) /\ Len(Reverse(s)) = Len(s)
  BY <1>1, <1>3
<1>. QED  BY <1>4 DEF Reverse

\* A suffix agrees with the sequence from the end on.
LEMMA SuffixIff ==
  ASSUME NEW S, NEW s \in Seq(S), NEW t \in Seq(S)
  PROVE  IsSuffix(s, t) <=>
           Len(s) <= Len(t) /\ \A i \in 1..Len(s) : s[(Len(s) - i) + 1] = t[(Len(t) - i) + 1]
<1>. PICK u, v : u = Reverse(s) /\ v = Reverse(t)
  OBVIOUS
<1>. DEFINE n == Len(s)
<1>1. /\ u \in Seq(S) /\ v \in Seq(S) /\ Len(u) = n /\ Len(v) = Len(t)
      /\ \A i \in 1..n : u[i] = s[(n - i) + 1]
      /\ \A i \in 1..Len(t) : v[i] = t[(Len(t) - i) + 1]
  BY ReverseProperties
<1>2. n \in Nat /\ Len(t) \in Nat
  OBVIOUS
<1>3. IsSuffix(s, t) <=> n <= Len(t) /\ SubSeq(u, 1, n) = SubSeq(v, 1, n)
  BY <1>1 DEF IsSuffix, IsPrefix
<1>. HIDE DEF n
<1>4. ASSUME n <= Len(t)
      PROVE  SubSeq(u, 1, n) = SubSeq(v, 1, n) <=> \A i \in 1..n : u[i] = v[i]
  <2>1. \A i \in 1..n : u[i] \in S /\ v[i] \in S /\ i \in 1..Len(t)
    BY <1>1, <1>2, <1>4
  <2>2. /\ SubSeq(u, 1, n) \in Seq(S) /\ Len(SubSeq(u, 1, n)) = n
        /\ \A i \in 1..n : SubSeq(u, 1, n)[i] = u[i]
    BY <1>2, <2>1, SubSeqProperties
  <2>3. /\ SubSeq(v, 1, n) \in Seq(S) /\ Len(SubSeq(v, 1, n)) = n
        /\ \A i \in 1..n : SubSeq(v, 1, n)[i] = v[i]
    BY <1>2, <2>1, SubSeqProperties
  <2>. PICK x, y : x = SubSeq(u, 1, n) /\ y = SubSeq(v, 1, n)
    OBVIOUS
  <2>4. ASSUME \A i \in 1..n : u[i] = v[i] PROVE x = y
    BY <2>2, <2>3, <2>4, SeqEqual
  <2>. QED  BY <2>2, <2>3, <2>4
<1>5. ASSUME n <= Len(t), NEW i \in 1..n
      PROVE  u[i] = v[i] <=> s[(n - i) + 1] = t[(Len(t) - i) + 1]
  BY <1>1, <1>2, <1>5
<1>. QED  BY <1>3, <1>4, <1>5 DEF n

\* A name is a suffix of itself and of itself behind one more component.
LEMMA SuffixOfCons ==
  ASSUME NEW S, NEW a \in S, NEW s \in Seq(S)
  PROVE  IsSuffix(s, s) /\ IsSuffix(s, <<a>> \o s)
<1>1. IsSuffix(s, s)
  BY SuffixIff
<1>2. PICK t : t = <<a>> \o s
  OBVIOUS
<1>3. t \in Seq(S) /\ Len(t) = Len(s) + 1 /\ \A i \in 1..Len(s) : t[i + 1] = s[i]
  BY <1>2, ConsProperties
<1>4. ASSUME NEW i \in 1..Len(s) PROVE s[(Len(s) - i) + 1] = t[(Len(t) - i) + 1]
  <2>1. (Len(s) - i) + 1 \in 1..Len(s) /\ (Len(t) - i) + 1 = ((Len(s) - i) + 1) + 1
    BY <1>3
  <2>. QED  BY <1>3, <2>1
<1>5. Len(s) <= Len(t)
  BY <1>3
<1>. QED  BY <1>1, <1>2, <1>3, <1>4, <1>5, SuffixIff

\* Names of which one ends in the other have the same last component.
LEMMA SuffixLast ==
  ASSUME NEW S, NEW s \in Seq(S), NEW t \in Seq(S), s # <<>>, IsSuffix(s, t)
  PROVE  Last(s) = Last(t)
<1>1. Len(s) \in Nat \ {0} /\ Len(t) \in Nat
  BY EmptySeq
<1>2. s[(Len(s) - 1) + 1] = t[(Len(t) - 1) + 1]
  BY <1>1, SuffixIff
<1>3. (Len(s) - 1) + 1 = Len(s) /\ (Len(t) - 1) + 1 = Len(t)
  BY <1>1
<1>. QED  BY <1>2, <1>3 DEF Last

-----------------------------------------------------------------------------
\* References, in the code's reading and in Docker's.

LEMMA ConsTail ==
  ASSUME NEW S, NEW s \in Seq(S), s # <<>>
  PROVE  /\ Tail(s) \in Seq(S) /\ Len(Tail(s)) = Len(s) - 1 /\ s[1] \in S
         /\ \A i \in 1..(Len(s) - 1) : Tail(s)[i] = s[i + 1]
         /\ s = <<s[1]>> \o Tail(s)
<1>1. Len(s) \in Nat \ {0}
  BY EmptySeq
<1>2. /\ Tail(s) \in Seq(S) /\ Len(Tail(s)) = Len(s) - 1 /\ s[1] \in S
      /\ \A i \in 1..(Len(s) - 1) : Tail(s)[i] = s[i + 1]
  BY <1>1, HeadTailProperties
<1>. PICK a, t, u : a = s[1] /\ t = Tail(s) /\ u = <<a>> \o t
  OBVIOUS
<1>3. u \in Seq(S) /\ Len(u) = Len(t) + 1 /\ u[1] = a /\ \A i \in 1..Len(t) : u[i + 1] = t[i]
  BY <1>2, ConsProperties
<1>4. ASSUME NEW i \in 1..Len(s) PROVE s[i] = u[i]
  <2>1. CASE i = 1
    BY <1>3, <2>1
  <2>2. CASE i # 1
    <3>1. i - 1 \in 1..(Len(s) - 1) /\ (i - 1) + 1 = i
      BY <1>1, <2>2
    <3>2. u[i] = t[i - 1]
      BY <1>2, <1>3, <3>1
    <3>3. t[i - 1] = s[i]
      BY <1>2, <3>1
    <3>. QED  BY <3>2, <3>3
  <2>. QED  BY <2>1, <2>2
<1>5. Len(s) = Len(u)
  BY <1>1, <1>2, <1>3
<1>6. s = u
  BY <1>3, <1>4, <1>5, SeqEqual
<1>. QED  BY <1>2, <1>6

LEMMA Single ==
  ASSUME NEW S, NEW s \in Seq(S), Len(s) = 1
  PROVE  s = <<s[1]>>
<1>1. PICK t : t = <<s[1]>>
  OBVIOUS
<1>2. s[1] \in S
  OBVIOUS
<1>3. t \in Seq(S) /\ Len(t) = 1 /\ t[1] = s[1]
  BY <1>1, <1>2
<1>4. \A i \in 1..Len(s) : s[i] = t[i]
  BY <1>3
<1>. QED  BY <1>1, <1>3, <1>4, SeqEqual

LEMMA Triple ==
  ASSUME NEW S, NEW a \in S, NEW b \in S, NEW c \in S
  PROVE  <<a>> \o (<<b>> \o <<c>>) = <<a, b, c>>
<1>. PICK s, t, u, v : s = <<c>> /\ t = <<b>> \o s /\ u = <<a>> \o t /\ v = <<a, b, c>>
  OBVIOUS
<1>1. s \in Seq(S) /\ Len(s) = 1 /\ s[1] = c
  OBVIOUS
<1>2. t \in Seq(S) /\ Len(t) = 2 /\ t[1] = b /\ t[2] = c
  <2>1. /\ t \in Seq(S) /\ Len(t) = Len(s) + 1 /\ t[1] = b
        /\ \A i \in 1..Len(s) : t[i + 1] = s[i]
    BY <1>1, ConsProperties
  <2>. QED  BY <1>1, <2>1
<1>3. u \in Seq(S) /\ Len(u) = 3 /\ u[1] = a /\ u[2] = b /\ u[3] = c
  <2>1. /\ u \in Seq(S) /\ Len(u) = Len(t) + 1 /\ u[1] = a
        /\ \A i \in 1..Len(t) : u[i + 1] = t[i]
    BY <1>2, ConsProperties
  <2>. QED  BY <1>2, <2>1
<1>4. v \in Seq(S) /\ Len(v) = 3 /\ v[1] = a /\ v[2] = b /\ v[3] = c
  OBVIOUS
<1>5. ASSUME NEW i \in 1..3 PROVE u[i] = v[i]
  <2>1. i = 1 \/ i = 2 \/ i = 3
    OBVIOUS
  <2>. QED  BY <1>3, <1>4, <2>1, Zenon
<1>6. u = v
  BY <1>3, <1>4, <1>5, SeqEqual
<1>. QED  BY <1>6

\* A component in front changes nothing at the end.
LEMMA ConsLast ==
  ASSUME NEW S, NEW a \in S, NEW s \in Seq(S), s # <<>>
  PROVE  <<a>> \o s # <<>> /\ Last(<<a>> \o s) = Last(s)
<1>1. Len(s) \in Nat \ {0} /\ Len(s) \in 1..Len(s)
  BY EmptySeq
<1>2. PICK t : t = <<a>> \o s
  OBVIOUS
<1>3. t \in Seq(S) /\ Len(t) = Len(s) + 1 /\ t[Len(s) + 1] = s[Len(s)]
  BY <1>1, <1>2, ConsProperties
<1>4. t # <<>>
  BY <1>1, <1>3
<1>. QED  BY <1>2, <1>3, <1>4 DEF Last

\* The two readings agree: a name spelled out is its registry and its
\* qualified path; and one that an image may be known under and that path end
\* in one another.
LEMMA QualifiedProperties ==
  ASSUME NEW r, r.name \in Seq(STRING), r.name # <<>>
  PROVE  /\ Qualified(r) \in Seq(Components) /\ Qualified(r) # <<>>
         /\ Registry(r) \in Components
         /\ Last(Qualified(r)) = Last(r.name)
         /\ SpelledOut(r.name) = <<Registry(r)>> \o Qualified(r)
         /\ RepoName(r.name) => repoNamesEquivalent(r.name, Qualified(r))
<1>. DEFINE U == Components
<1>. PICK s, q, host : s = r.name /\ q = Qualified(r) /\ host = Registry(r)
  OBVIOUS
<1>. DEFINE D == DefaultRegistry
<1>. DEFINE Goal == /\ q \in Seq(U) /\ q # <<>> /\ host \in U /\ Last(q) = Last(s)
                    /\ SpelledOut(s) = <<host>> \o q
                    /\ RepoName(s) => repoNamesEquivalent(s, q)
<1>. SUFFICES Goal
  OBVIOUS
<1>1. s \in Seq(U) /\ s # <<>> /\ Len(s) \in Nat \ {0} /\ DefaultRegistry \in U /\ "library" \in U
  <2>1. s \in Seq(U)
    BY SeqMonotonic DEF Components
  <2>. QED  BY <2>1, EmptySeq DEF Components
<1>. HIDE DEF U
<1>2. CASE ~(Len(s) > 1 /\ s[1] \in HostLike) /\ Len(s) = 1
  <2>1. host = D /\ q = <<"library">> \o s
    BY <1>2 DEF Registry, Qualified
  <2>2. PICK full : full = <<D>> \o s
    OBVIOUS
  <2>3. Len(full) = 2 /\ full[1] = D /\ full[2] = s[1]
    BY <1>1, <1>2, <2>2, ConsProperties
  <2>4. SpelledOut(s) = <<D, "library", s[1]>>
    BY <1>2, <2>2, <2>3 DEF SpelledOut
  <2>5. s[1] \in U /\ s = <<s[1]>>
    BY <1>1, <1>2, Single
  <2>6. SpelledOut(s) = <<host>> \o q
    BY <1>1, <2>1, <2>4, <2>5, Triple
  <2>7. q \in Seq(U) /\ q # <<>> /\ Last(q) = Last(s) /\ IsSuffix(s, q)
    BY <1>1, <2>1, ConsProperties, ConsLast, SuffixOfCons
  <2>. QED  BY <1>1, <2>1, <2>6, <2>7 DEF repoNamesEquivalent
<1>3. CASE ~(Len(s) > 1 /\ s[1] \in HostLike) /\ Len(s) # 1
  <2>1. host = D /\ q = s
    BY <1>3 DEF Registry, Qualified
  <2>2. PICK full : full = <<D>> \o s
    OBVIOUS
  <2>3. Len(full) # 2
    BY <1>1, <1>3, <2>2, ConsProperties
  <2>4. SpelledOut(s) = full
    BY <1>3, <2>2, <2>3 DEF SpelledOut
  <2>5. IsSuffix(s, q)
    BY <1>1, <2>1, SuffixOfCons
  <2>. QED  BY <1>1, <2>1, <2>2, <2>4, <2>5 DEF repoNamesEquivalent
<1>4. CASE Len(s) > 1 /\ s[1] \in HostLike /\ ~(s[1] = DefaultRegistry /\ Len(s) = 2)
  <2>1. host = s[1] /\ q = Tail(s)
    BY <1>4 DEF Registry, Qualified
  <2>2. /\ q \in Seq(U) /\ Len(q) = Len(s) - 1 /\ host \in U /\ s = <<host>> \o q
    BY <1>1, <2>1, ConsTail
  <2>3. q # <<>>
    BY <1>1, <1>4, <2>2
  <2>4. SpelledOut(s) = s
    BY <1>1, <1>4, ConcatEmptySeq DEF SpelledOut
  <2>5. IsSuffix(q, s) /\ Last(q) = Last(s)
    BY <2>2, <2>3, SuffixOfCons, ConsLast
  <2>. QED  BY <2>2, <2>3, <2>4, <2>5 DEF repoNamesEquivalent
<1>5. CASE s[1] \in HostLike /\ s[1] = DefaultRegistry /\ Len(s) = 2
  <2>1. host = DefaultRegistry /\ q = <<"library">> \o Tail(s)
    BY <1>5 DEF Registry, Qualified
  <2>2. PICK t : t = Tail(s)
    OBVIOUS
  <2>3. t \in Seq(U) /\ Len(t) = 1 /\ t[1] = s[2] /\ s = <<D>> \o t
    BY <1>1, <1>5, <2>2, ConsTail
  <2>4. t # <<>> /\ t[1] \in U /\ t = <<t[1]>>
    BY <2>3, Single
  <2>5. SpelledOut(s) = <<D, "library", s[2]>>
    <3>1. <<>> \o s = s
      BY <1>1, ConcatEmptySeq
    <3>2. SpelledOut(s) = LET full == <<>> \o s
                          IN  IF full[1] = D /\ Len(full) = 2 THEN <<D, "library", full[2]>> ELSE full
      BY <1>5 DEF SpelledOut
    <3>. QED  BY <1>5, <3>1, <3>2
  <2>6. SpelledOut(s) = <<host>> \o q
    <3>1. PICK c : c = s[2]
      OBVIOUS
    <3>2. c \in U /\ t = <<c>>
      BY <2>3, <2>4, <3>1
    <3>3. <<D>> \o (<<"library">> \o <<c>>) = <<D, "library", c>>
      BY <1>1, <3>2, Triple
    <3>. QED  BY <2>1, <2>2, <2>5, <3>1, <3>2, <3>3
  <2>7. q \in Seq(U) /\ q # <<>> /\ Last(q) = Last(t)
    <3>1. q = <<"library">> \o t
      BY <2>1, <2>2
    <3>. QED  BY <1>1, <2>3, <2>4, <3>1, ConsProperties, ConsLast
  <2>8. Last(s) = Last(t)
    BY <1>1, <2>3, <2>4, ConsLast
  <2>9. ~RepoName(s)
    BY <1>5 DEF RepoName
  <2>. QED  BY <1>1, <2>1, <2>6, <2>7, <2>8, <2>9
<1>. QED  BY <1>1, <1>2, <1>3, <1>4, <1>5

\* No string that does not parse has the key of one that does.
LEMMA KeyParses ==
  ASSUME NEW i, NEW j, Parseable(raw(i)), refKey(i) = refKey(j)
  PROVE  Parseable(raw(j))
<1>. SUFFICES ASSUME ~Parseable(raw(j)) PROVE FALSE
  OBVIOUS
<1>1. refKey(j)[1] = ""
  BY DEF refKey
<1>2. refKey(i)[1] = Registry(raw(i))
  BY DEF refKey, ParseReference
<1>3. Registry(raw(i)) \in HostLike
  BY HostAssumption DEF Registry
<1>. QED  BY <1>1, <1>2, <1>3, HostAssumption

\* Containers of the same image have the same key, however they spell it;
\* and, unless they are pinned, the other way round.
LEMMA SameKey ==
  ASSUME NEW i, NEW j, SameImage(i, j),
         raw(i).name \in Seq(STRING), raw(j).name \in Seq(STRING)
  PROVE  refKey(i) = refKey(j)
<1>. PICK r, t : r = raw(i) /\ t = raw(j)
  OBVIOUS
<1>1. /\ Parseable(r) /\ Parseable(t) /\ r.digest = "" /\ t.digest = ""
      /\ SpelledOut(r.name) = SpelledOut(t.name)
      /\ r.tag = t.tag \/ {r.tag, t.tag} = {"", "latest"}
  BY DEF SameImage
<1>2. /\ Qualified(r) \in Seq(Components) /\ Registry(r) \in Components
      /\ SpelledOut(r.name) = <<Registry(r)>> \o Qualified(r)
  BY <1>1, QualifiedProperties DEF Parseable
<1>3. /\ Qualified(t) \in Seq(Components) /\ Registry(t) \in Components
      /\ SpelledOut(t.name) = <<Registry(t)>> \o Qualified(t)
  BY <1>1, QualifiedProperties DEF Parseable
<1>4. Registry(r) = Registry(t) /\ Qualified(r) = Qualified(t)
  <2>1. <<Registry(r)>> \o Qualified(r) = <<Registry(t)>> \o Qualified(t)
    BY <1>1, <1>2, <1>3
  <2>2. PICK a, b, u, v : a = Registry(r) /\ b = Registry(t) /\ u = Qualified(r) /\ v = Qualified(t)
    OBVIOUS
  <2>3. /\ a \in Components /\ b \in Components /\ u \in Seq(Components) /\ v \in Seq(Components)
        /\ <<a>> \o u = <<b>> \o v
    BY <1>2, <1>3, <2>1, <2>2, Zenon
  <2>4. a = b /\ u = v
    BY <2>3, ConsEqual
  <2>. QED  BY <2>2, <2>4
<1>5. (IF r.tag = "" THEN "latest" ELSE r.tag) = (IF t.tag = "" THEN "latest" ELSE t.tag)
  BY <1>1
<1>6. ParseReference(r) = ParseReference(t)
  BY <1>1, <1>4, <1>5 DEF ParseReference
<1>. QED  BY <1>1, <1>6 DEF refKey

LEMMA KeySame ==
  ASSUME NEW i, NEW j, refKey(i) = refKey(j),
         Parseable(raw(i)), Parseable(raw(j)), raw(j).digest = "",
         raw(i).name \in Seq(STRING), raw(j).name \in Seq(STRING)
  PROVE  SameImage(i, j)
<1>. PICK r, t : r = raw(i) /\ t = raw(j)
  OBVIOUS
<1>1. Parseable(r) /\ Parseable(t) /\ t.digest = ""
  OBVIOUS
<1>2. PICK p, q : p = ParseReference(r) /\ q = ParseReference(t)
  OBVIOUS
<1>3. p.registry = q.registry /\ p.repository = q.repository /\ p.tag = q.tag
  BY <1>1, <1>2 DEF refKey
<1>4. /\ p.registry = Registry(r) /\ p.repository.path = Qualified(r)
      /\ p.tag = IF r.digest # "" THEN "" ELSE IF r.tag = "" THEN "latest" ELSE r.tag
  BY <1>2 DEF ParseReference
<1>5. /\ q.registry = Registry(t) /\ q.repository.path = Qualified(t)
      /\ q.tag = IF t.tag = "" THEN "latest" ELSE t.tag
  BY <1>1, <1>2 DEF ParseReference
<1>6. SpelledOut(r.name) = SpelledOut(t.name)
  <2>1. SpelledOut(r.name) = <<Registry(r)>> \o Qualified(r)
    BY <1>1, QualifiedProperties DEF Parseable
  <2>2. SpelledOut(t.name) = <<Registry(t)>> \o Qualified(t)
    BY <1>1, QualifiedProperties DEF Parseable
  <2>. QED  BY <1>3, <1>4, <1>5, <2>1, <2>2
<1>7. r.digest = ""
  <2>1. q.tag # ""
    BY <1>5
  <2>. QED  BY <1>3, <1>4, <2>1
<1>8. r.tag = t.tag \/ {r.tag, t.tag} = {"", "latest"}
  BY <1>3, <1>4, <1>5, <1>7
<1>. QED  BY <1>1, <1>6, <1>7, <1>8 DEF SameImage

LEMMA IntervalNat == \A n \in Nat : 1..n \subseteq Nat
  OBVIOUS

\* An entry is matched that is known by the reference's repository; what is
\* matched has a digest and a name that ends like the repository.
LEMMA Matched ==
  ASSUME NEW entries, NEW repository,
         Len(entries) \in Nat, DOMAIN entries = 1..Len(entries),
         NEW k \in DOMAIN entries, entries[k].digest # "", repository.colon = "",
         repoNamesEquivalent(entries[k].name, repository.path)
  PROVE  \E m \in DOMAIN entries :
           /\ matchRepoDigest(entries, repository) = entries[m].digest
           /\ entries[m].digest # "" /\ repoNamesEquivalent(entries[m].name, repository.path)
<1>. DEFINE match == {n \in DOMAIN entries :
                        /\ entries[n].digest # "" /\ repository.colon = ""
                        /\ repoNamesEquivalent(entries[n].name, repository.path)}
            m == CHOOSE n \in match : \A o \in match : n <= o
<1>1. match \in SUBSET Nat /\ match # {}
  <2>1. k \in match
    BY Zenon
  <2>2. match \subseteq DOMAIN entries
    BY Zenon
  <2>. HIDE DEF match
  <2>3. DOMAIN entries \subseteq Nat
    <3>1. PICK len : len = Len(entries)
      OBVIOUS
    <3>. QED  BY <3>1, IntervalNat, Zenon
  <2>. QED  BY <2>1, <2>2, <2>3
<1>2. matchRepoDigest(entries, repository) = entries[m].digest
  BY <1>1, Zenon DEF matchRepoDigest
<1>3. m \in match
  <2>. HIDE DEF match
  <2>1. \E n \in match : \A o \in match : n <= o
    BY <1>1, SmallestElement
  <2>. QED  BY <2>1, Zenon
<1>. HIDE DEF m
<1>4. /\ m \in DOMAIN entries /\ entries[m].digest # ""
      /\ repoNamesEquivalent(entries[m].name, repository.path)
  BY <1>3, Zenon
<1>. QED  BY <1>2, <1>4

-----------------------------------------------------------------------------
\* The inductive invariant, in parts.

ImageOf(i) == containers[i].image

\* The first loop has been through the containers before next.
LoopShape ==
  /\ containers \in Seq(Container)
  /\ next \in 1..(Len(containers) + 1)
  /\ filled \in 0..Len(observations)
  /\ filled > 0 => AllSeen

\* An observation is of a container the loop has seen.  It has no platform, or
\* it has what inspecting the image of a parseable reference yields.
Truthful(o) ==
  /\ DOMAIN o = {"at", "platform", "digest"}
  /\ o.at \in 1..(next - 1)
  /\ o.platform # NoPlatform =>
       /\ Parseable(raw(o.at))
       /\ o.platform = PlatformOf[ImageOf(o.at)]
       /\ o.digest = matchRepoDigest(RepoDigests[ImageOf(o.at)], ParseReference(raw(o.at)).repository)

Observed ==
  /\ Len(observations) \in Nat /\ DOMAIN observations = 1..Len(observations)
  /\ \A j \in DOMAIN observations : Truthful(observations[j])
  /\ \A j, k \in DOMAIN observations : j < k => observations[j].at < observations[k].at
  /\ \A i \in 1..(next - 1) :
       Parseable(raw(i)) => \E j \in DOMAIN observations : observations[j].at = i

\* What backfillPlatforms makes of an observation.
Platform(o) == IF o.platform # NoPlatform THEN o.platform ELSE Known(o)

Kept(o) == [o EXCEPT !.platform = Platform(o)]

\* The second loop has kept exactly the observations with a platform of their
\* own or from a sibling, in order.
Backfilled ==
  /\ Len(result) \in Nat /\ DOMAIN result = 1..Len(result)
  /\ \A n \in DOMAIN result :
       \E j \in 1..filled : result[n] = Kept(observations[j]) /\ Platform(observations[j]) # NoPlatform
  /\ \A m, n \in DOMAIN result : m < n => result[m].at < result[n].at
  /\ \A j \in 1..filled :
       Platform(observations[j]) # NoPlatform =>
         \E n \in DOMAIN result : result[n].at = observations[j].at

ListInv == LoopShape /\ Observed /\ Backfilled

-----------------------------------------------------------------------------
\* The invariant is kept.

LEMMA InitInv == Init => ListInv
<1>. SUFFICES ASSUME Init PROVE ListInv
  OBVIOUS
<1>1. containers \in Seq(Container) /\ Len(containers) \in Nat
  <2>1. PICK n \in 0..MaxLen : containers \in [1..n -> Container]
    BY DEF Init, Lists
  <2>2. n \in Nat
    BY ContainerListAssumption
  <2>3. containers \in Seq(Container)
    BY <2>1, <2>2, IsASeq
  <2>. QED  BY <2>3
<1>2. LoopShape
  BY <1>1 DEF Init, LoopShape
<1>3. Observed
  BY <1>1 DEF Init, Observed
<1>4. Backfilled
  BY <1>1 DEF Init, Backfilled
<1>. QED  BY <1>2, <1>3, <1>4 DEF ListInv

\* What stays true of an observation and of a container when the loop goes on.
LEMMA StillTrue ==
  ASSUME NEW o, Truthful(o), containers' = containers, next \in Nat, next' \in {next, next + 1}
  PROVE  Truthful(o)'
  BY DEF Truthful, raw, ImageOf

\* The container at next: one observation that is true of it, or none of a
\* reference that does not parse.
LEMMA SeenStep ==
  ASSUME ListInv, SummaryOnly \/ SummaryAndImage
  PROVE  /\ next \in DOMAIN containers /\ next' = next + 1 /\ UNCHANGED <<containers, filled, result>>
         /\ \/ \E o : /\ observations' = Append(observations, o)
                      /\ o.at = next /\ Truthful(o)'
            \/ observations' = observations /\ ~Parseable(raw(next))
<1>1. next \in DOMAIN containers /\ next' = next + 1 /\ UNCHANGED <<containers, filled, result>>
  BY DEF SummaryOnly, SummaryAndImage
<1>2. next \in Nat \ {0}
  BY DEF ListInv, LoopShape
<1>3. CASE SummaryOnly
  <2>1. PICK o : o = [at |-> next, platform |-> NoPlatform, digest |-> ""]
    OBVIOUS
  <2>2. observations' = Append(observations, o)
    BY <1>3, <2>1 DEF SummaryOnly, Observe
  <2>3. o.at = next /\ o.platform = NoPlatform /\ DOMAIN o = {"at", "platform", "digest"}
    BY <2>1
  <2>4. Truthful(o)'
    BY <1>1, <1>2, <2>3 DEF Truthful
  <2>. QED  BY <1>1, <2>2, <2>3, <2>4
<1>4. CASE SummaryAndImage
  <2>1. CASE ~Parseable(raw(next))
    BY <1>1, <1>4, <2>1 DEF SummaryAndImage
  <2>2. CASE Parseable(raw(next))
    <3>. DEFINE d == matchRepoDigest(RepoDigests[ImageOf(next)], ParseReference(raw(next)).repository)
                p == PlatformOf[ImageOf(next)]
    <3>1. PICK o : o = [at |-> next, platform |-> p, digest |-> d]
      OBVIOUS
    <3>2. observations' = Append(observations, o)
      BY <1>4, <2>2, <3>1 DEF SummaryAndImage, Observe, ImageOf
    <3>3. o.at = next /\ o.platform = p /\ o.digest = d /\ DOMAIN o = {"at", "platform", "digest"}
      BY <3>1
    <3>4. Truthful(o)'
      <4>2. Truthful(o)' <=> /\ o.at \in 1..(next' - 1)
                             /\ o.platform # NoPlatform =>
                                  /\ Parseable(raw(o.at))
                                  /\ o.platform = PlatformOf[ImageOf(o.at)]
                                  /\ o.digest = matchRepoDigest(RepoDigests[ImageOf(o.at)],
                                                                ParseReference(raw(o.at)).repository)
        BY <1>1, <3>3 DEF Truthful, raw, ImageOf
      <4>3. o.at \in 1..(next' - 1)
        BY <1>1, <1>2, <3>3
      <4>. QED  BY <2>2, <3>3, <4>2, <4>3
    <3>. QED  BY <1>1, <3>2, <3>3, <3>4
  <2>. QED  BY <2>1, <2>2
<1>. QED  BY <1>3, <1>4

LEMMA SeenKeeps ==
  ASSUME ListInv, SummaryOnly \/ SummaryAndImage
  PROVE  ListInv'
<1>1. /\ next \in DOMAIN containers /\ next' = next + 1 /\ UNCHANGED <<containers, filled, result>>
      /\ \/ \E o : /\ observations' = Append(observations, o)
                   /\ o.at = next /\ Truthful(o)'
         \/ observations' = observations /\ ~Parseable(raw(next))
  BY SeenStep
<1>2. containers \in Seq(Container) /\ Len(containers) \in Nat /\ next \in 1..Len(containers)
  BY <1>1 DEF ListInv, LoopShape
<1>3. filled = 0 /\ filled' = 0
  BY <1>1, <1>2 DEF ListInv, LoopShape, AllSeen, Observed
<1>4. Len(observations) \in Nat /\ DOMAIN observations = 1..Len(observations)
  BY DEF ListInv, Observed
<1>5. Backfilled'
  <2>1. DOMAIN result = {} /\ Len(result) \in Nat /\ DOMAIN result = 1..Len(result)
    BY <1>3 DEF ListInv, Backfilled
  <2>2. result' = result
    BY <1>1
  <2>. QED  BY <1>3, <2>1, <2>2 DEF Backfilled
<1>6. ASSUME NEW o, Truthful(o) PROVE Truthful(o)' /\ o.at < next /\ o.at \in Nat
  <2>1. Truthful(o)'
    BY <1>1, <1>2, <1>6, StillTrue
  <2>. QED  BY <1>2, <1>6, <2>1 DEF Truthful
<1>7. CASE \E o : observations' = Append(observations, o) /\ o.at = next /\ Truthful(o)'
  <2>1. PICK o : observations' = Append(observations, o) /\ o.at = next /\ Truthful(o)'
    BY <1>7
  <2>. DEFINE len == Len(observations)
  <2>2. /\ Len(observations') = len + 1 /\ DOMAIN observations' = 1..(len + 1)
        /\ observations'[len + 1] = o
        /\ \A j \in 1..len : observations'[j] = observations[j]
    BY <1>4, <2>1
  <2>3. \A j \in 1..len : Truthful(observations[j])
    BY <1>4 DEF ListInv, Observed
  <2>4. \A j \in 1..(len + 1) : \E x : x = observations'[j] /\ Truthful(x)' /\ x.at \in Nat /\ (j <= len => x.at < next)
    <3>. SUFFICES ASSUME NEW j \in 1..(len + 1)
                  PROVE  \E x : x = observations'[j] /\ Truthful(x)' /\ x.at \in Nat /\ (j <= len => x.at < next)
      OBVIOUS
    <3>1. CASE j \in 1..len
      <4>1. PICK x : x = observations[j]
        OBVIOUS
      <4>2. Truthful(x)
        BY <2>3, <3>1, <4>1
      <4>3. Truthful(x)' /\ x.at < next /\ x.at \in Nat
        BY <1>6, <4>2
      <4>. QED  BY <2>2, <3>1, <4>1, <4>3
    <3>2. CASE j = len + 1
      <4>1. o.at \in Nat /\ ~(j <= len)
        BY <1>2, <1>4, <2>1, <3>2
      <4>. QED  BY <2>1, <2>2, <3>2, <4>1
    <3>. QED  BY <1>4, <3>1, <3>2
  <2>. HIDE DEF len
  <2>5. len \in Nat
    BY <1>4 DEF len
  <2>6. (\A j \in DOMAIN observations : Truthful(observations[j]))'
    <3>1. \A j \in 1..(len + 1) : Truthful(observations[j])'
      BY <2>4
    <3>. QED  BY <2>2, <3>1
  <2>7. \A j, k \in 1..(len + 1) : j < k => observations'[j].at < observations'[k].at
    <3>. SUFFICES ASSUME NEW j \in 1..(len + 1), NEW k \in 1..(len + 1), j < k
                  PROVE  observations'[j].at < observations'[k].at
      OBVIOUS
    <3>1. j \in 1..len
      BY <2>5
    <3>2. CASE k \in 1..len
      BY <2>2, <3>1, <3>2 DEF ListInv, Observed, len
    <3>3. CASE k = len + 1
      BY <2>1, <2>2, <2>4, <2>5, <3>1, <3>3
    <3>. QED  BY <2>5, <3>2, <3>3
  <2>8. ASSUME NEW i \in 1..(next' - 1), Parseable(raw(i)')
        PROVE  \E j \in 1..(len + 1) : observations'[j].at = i
    <3>1. raw(i)' = raw(i)
      BY <1>1 DEF raw
    <3>2. CASE i = next
      BY <2>1, <2>2, <2>5, <3>2
    <3>3. CASE i \in 1..(next - 1)
      <4>1. PICK j \in 1..len : observations[j].at = i
        BY <1>4, <2>8, <3>1, <3>3 DEF ListInv, Observed, len
      <4>. QED  BY <2>2, <2>5, <4>1
    <3>. QED  BY <1>1, <1>2, <3>2, <3>3
  <2>9. Observed'
    <3>1. (\A i \in 1..(next - 1) :
             Parseable(raw(i)) => \E j \in DOMAIN observations : observations[j].at = i)'
      BY <2>2, <2>8
    <3>2. Len(observations') \in Nat /\ DOMAIN observations' = 1..Len(observations')
      BY <2>2, <2>5
    <3>3. (\A j, k \in DOMAIN observations : j < k => observations[j].at < observations[k].at)'
      BY <2>2, <2>7
    <3>. QED  BY <2>6, <3>1, <3>2, <3>3 DEF Observed
  <2>10. LoopShape'
    BY <1>1, <1>2, <1>3, <2>2, <2>5 DEF LoopShape
  <2>. QED  BY <1>5, <2>9, <2>10 DEF ListInv
<1>8. CASE observations' = observations /\ ~Parseable(raw(next))
  <2>1. (\A j \in DOMAIN observations : Truthful(observations[j]))'
    <3>1. ASSUME NEW j \in DOMAIN observations PROVE Truthful(observations[j])'
      <4>1. PICK x : x = observations[j]
        OBVIOUS
      <4>2. Truthful(x)
        BY <4>1 DEF ListInv, Observed
      <4>3. Truthful(x)' /\ x = observations'[j]
        BY <1>6, <1>8, <4>1, <4>2
      <4>. QED  BY <4>3
    <3>2. DOMAIN observations' = DOMAIN observations
      BY <1>8
    <3>3. \A j \in DOMAIN observations : Truthful(observations[j])'
      BY <3>1
    <3>. QED  BY <3>2, <3>3
  <2>2. (\A i \in 1..(next - 1) :
           Parseable(raw(i)) => \E j \in DOMAIN observations : observations[j].at = i)'
    <3>1. ASSUME NEW i \in 1..(next' - 1), Parseable(raw(i)')
          PROVE  \E j \in DOMAIN observations : observations[j].at = i
      <4>1. raw(i)' = raw(i)
        BY <1>1 DEF raw
      <4>2. i \in 1..(next - 1)
        BY <1>1, <1>2, <1>8, <3>1, <4>1
      <4>. QED  BY <3>1, <4>1, <4>2 DEF ListInv, Observed
    <3>. QED  BY <1>8, <3>1
  <2>3. (\A j, k \in DOMAIN observations : j < k => observations[j].at < observations[k].at)'
    BY <1>8 DEF ListInv, Observed
  <2>4. Observed'
    BY <1>4, <1>8, <2>1, <2>2, <2>3 DEF Observed
  <2>5. LoopShape'
    <3>1. Len(observations') \in Nat
      BY <1>4, <1>8
    <3>2. next' \in 1..(Len(containers') + 1) /\ containers' \in Seq(Container)
      BY <1>1, <1>2
    <3>. QED  BY <1>3, <3>1, <3>2 DEF LoopShape
  <2>. QED  BY <1>5, <2>4, <2>5 DEF ListInv
<1>. QED  BY <1>1, <1>7, <1>8

\* Completing an observation changes its platform only.
LEMMA KeptAt ==
  ASSUME NEW o, Truthful(o)
  PROVE  /\ Kept(o).at = o.at /\ Kept(o).digest = o.digest /\ Kept(o).platform = Platform(o)
<1>1. PICK p : p = Platform(o)
  OBVIOUS
<1>2. DOMAIN o = {"at", "platform", "digest"}
  BY DEF Truthful
<1>3. Kept(o) = [o EXCEPT !.platform = p]
  BY <1>1 DEF Kept
<1>. QED  BY <1>1, <1>2, <1>3

LEMMA FillKeeps ==
  ASSUME ListInv, backfillPlatforms
  PROVE  ListInv'
<1>1. /\ AllSeen /\ filled < Len(observations) /\ filled' = filled + 1
      /\ UNCHANGED <<containers, next, imageCache, observations>>
  BY DEF backfillPlatforms
<1>2. /\ filled \in Nat /\ filled + 1 \in DOMAIN observations
      /\ Len(observations) \in Nat /\ DOMAIN observations = 1..Len(observations)
  BY <1>1 DEF ListInv, LoopShape, Observed
<1>3. LoopShape'
  BY <1>1, <1>2 DEF ListInv, LoopShape, AllSeen
<1>4. Observed'
  BY <1>1 DEF ListInv, Observed, Truthful, raw, ImageOf
<1>. PICK o : o = observations[filled + 1]
  OBVIOUS
<1>5. result' = IF Platform(o) # NoPlatform THEN Append(result, Kept(o)) ELSE result
  BY DEF backfillPlatforms, Platform, Kept
<1>6. ASSUME NEW j
      PROVE  /\ Platform(observations[j])' = Platform(observations[j])
             /\ Kept(observations[j])' = Kept(observations[j])
  BY <1>1 DEF Platform, Kept, Known, Siblings, refKey, raw
<1>7. Len(result) \in Nat /\ DOMAIN result = 1..Len(result)
  BY DEF ListInv, Backfilled
<1>8. ASSUME NEW n \in DOMAIN result
      PROVE  /\ \E j \in 1..filled : result[n] = Kept(observations[j]) /\ Platform(observations[j]) # NoPlatform
             /\ result[n].at < o.at
  <2>1. PICK j \in 1..filled : result[n] = Kept(observations[j]) /\ Platform(observations[j]) # NoPlatform
    BY DEF ListInv, Backfilled
  <2>2. j \in DOMAIN observations /\ j < filled + 1
    BY <1>2
  <2>3. observations[j].at < o.at
    BY <1>2, <2>2 DEF ListInv, Observed
  <2>4. result[n].at = observations[j].at
    BY <2>1, <2>2, KeptAt DEF ListInv, Observed
  <2>. QED  BY <2>1, <2>3, <2>4
<1>9. ASSUME NEW j \in 1..filled PROVE observations'[j] = observations[j] /\ j \in DOMAIN observations
  BY <1>1, <1>2
<1>10. CASE Platform(o) # NoPlatform
  <2>. DEFINE len == Len(result)
  <2>1. /\ Len(result') = len + 1 /\ DOMAIN result' = 1..(len + 1)
        /\ result'[len + 1] = Kept(o) /\ \A n \in 1..len : result'[n] = result[n]
    BY <1>5, <1>7, <1>10
  <2>2. Kept(o).at = o.at
    BY <1>2, KeptAt DEF ListInv, Observed
  <2>. HIDE DEF len
  <2>3. len \in Nat /\ 1..len = DOMAIN result
    BY <1>7 DEF len
  <2>4. ASSUME NEW n \in 1..(len + 1)
        PROVE  \E j \in 1..(filled + 1) :
                 result'[n] = Kept(observations[j]) /\ Platform(observations[j]) # NoPlatform
    <3>1. CASE n \in 1..len
      <4>1. PICK j \in 1..filled : result[n] = Kept(observations[j]) /\ Platform(observations[j]) # NoPlatform
        BY <1>8, <2>3, <3>1
      <4>2. j \in 1..(filled + 1)
        BY <1>2
      <4>. QED  BY <2>1, <3>1, <4>1, <4>2
    <3>2. CASE n = len + 1
      BY <1>2, <1>10, <2>1, <3>2
    <3>. QED  BY <2>3, <3>1, <3>2
  <2>5. ASSUME NEW m \in 1..(len + 1), NEW n \in 1..(len + 1), m < n
        PROVE  result'[m].at < result'[n].at
    <3>1. m \in 1..len
      BY <2>3, <2>5
    <3>2. CASE n \in 1..len
      BY <2>1, <2>3, <2>5, <3>1, <3>2 DEF ListInv, Backfilled
    <3>3. CASE n = len + 1
      BY <1>8, <2>1, <2>2, <2>3, <3>1, <3>3
    <3>. QED  BY <2>3, <3>2, <3>3
  <2>6. ASSUME NEW j \in 1..(filled + 1), Platform(observations[j]) # NoPlatform
        PROVE  \E n \in 1..(len + 1) : result'[n].at = observations[j].at
    <3>1. CASE j \in 1..filled
      <4>1. PICK n \in DOMAIN result : result[n].at = observations[j].at
        BY <2>6, <3>1 DEF ListInv, Backfilled
      <4>. QED  BY <2>1, <2>3, <4>1
    <3>2. CASE j = filled + 1
      BY <2>1, <2>2, <2>3, <3>2
    <3>. QED  BY <1>2, <3>1, <3>2
  <2>7. (\A n \in DOMAIN result :
           \E j \in 1..filled : result[n] = Kept(observations[j]) /\ Platform(observations[j]) # NoPlatform)'
    BY <1>1, <1>6, <2>1, <2>4
  <2>8. (\A j \in 1..filled :
           Platform(observations[j]) # NoPlatform => \E n \in DOMAIN result : result[n].at = observations[j].at)'
    BY <1>1, <1>6, <2>1, <2>6
  <2>9. (\A m, n \in DOMAIN result : m < n => result[m].at < result[n].at)'
    BY <2>1, <2>5
  <2>10. Len(result') \in Nat /\ DOMAIN result' = 1..Len(result')
    BY <2>1, <2>3
  <2>11. Backfilled'
    BY <2>7, <2>8, <2>9, <2>10 DEF Backfilled
  <2>. QED  BY <1>3, <1>4, <2>11 DEF ListInv
<1>11. CASE Platform(o) = NoPlatform
  <2>1. result' = result
    BY <1>5, <1>11
  <2>2. \A j \in 1..(filled + 1) : Platform(observations[j]) # NoPlatform => j \in 1..filled
    BY <1>2, <1>11
  <2>3. \A j \in 1..filled : j \in 1..(filled + 1)
    BY <1>2
  <2>4. (\A n \in DOMAIN result :
           \E j \in 1..filled : result[n] = Kept(observations[j]) /\ Platform(observations[j]) # NoPlatform)'
    <3>1. ASSUME NEW n \in DOMAIN result
          PROVE  \E j \in 1..(filled + 1) :
                   result[n] = Kept(observations[j]) /\ Platform(observations[j]) # NoPlatform
      BY <1>8, <2>3
    <3>. QED  BY <1>1, <1>6, <2>1, <3>1
  <2>5. (\A j \in 1..filled :
           Platform(observations[j]) # NoPlatform => \E n \in DOMAIN result : result[n].at = observations[j].at)'
    <3>1. ASSUME NEW j \in 1..(filled + 1), Platform(observations[j]) # NoPlatform
          PROVE  \E n \in DOMAIN result : result[n].at = observations[j].at
      BY <2>2, <3>1 DEF ListInv, Backfilled
    <3>. QED  BY <1>1, <1>6, <2>1, <3>1
  <2>6. (\A m, n \in DOMAIN result : m < n => result[m].at < result[n].at)'
    BY <2>1 DEF ListInv, Backfilled
  <2>7. Len(result') \in Nat /\ DOMAIN result' = 1..Len(result')
    BY <1>7, <2>1
  <2>8. Backfilled'
    BY <2>4, <2>5, <2>6, <2>7 DEF Backfilled
  <2>. QED  BY <1>3, <1>4, <2>8 DEF ListInv
<1>. QED  BY <1>10, <1>11

LEMMA AgainKeeps ==
  ASSUME ListInv, ListAgain
  PROVE  ListInv'
<1>1. /\ next' = 1 /\ observations' = <<>> /\ filled' = 0 /\ result' = <<>>
      /\ containers' = containers /\ containers \in Seq(Container)
  BY DEF ListAgain, ListInv, LoopShape
<1>2. LoopShape'
  BY <1>1 DEF LoopShape
<1>3. Observed'
  BY <1>1 DEF Observed
<1>4. Backfilled'
  BY <1>1 DEF Backfilled
<1>. QED  BY <1>2, <1>3, <1>4 DEF ListInv

LEMMA StutterKeeps ==
  ASSUME ListInv, UNCHANGED vars
  PROVE  ListInv'
<1>1. LoopShape'
  BY DEF ListInv, vars, LoopShape, AllSeen
<1>2. Observed'
  BY DEF ListInv, vars, Observed, Truthful, raw, ImageOf
<1>3. Backfilled'
  <2>1. ASSUME NEW j
        PROVE  /\ Platform(observations[j])' = Platform(observations[j])
               /\ Kept(observations[j])' = Kept(observations[j])
    BY DEF vars, Platform, Kept, Known, Siblings, refKey, raw
  <2>. QED  BY <2>1 DEF ListInv, vars, Backfilled
<1>. QED  BY <1>1, <1>2, <1>3 DEF ListInv

LEMMA NextKeeps ==
  ListInv /\ [Next]_vars => ListInv'
  BY SeenKeeps, FillKeeps, AgainKeeps, StutterKeeps DEF Next

\* The invariant of the two loops holds in every behaviour of ListContainers.
THEOREM ListingInvariant == Spec => []ListInv
  BY InitInv, NextKeeps, PTL DEF Spec

-----------------------------------------------------------------------------
\* What a finished listing says.

\* A container takes a platform from another one with its key, one that was
\* inspected, or there is none.
LEMMA KnownCases ==
  ASSUME ListInv, NEW o
  PROVE  /\ Siblings(refKey(o.at)) = {} => Known(o) = NoPlatform
         /\ Siblings(refKey(o.at)) # {} =>
              \E k \in DOMAIN observations :
                /\ refKey(observations[k].at) = refKey(o.at)
                /\ observations[k].platform # NoPlatform /\ Known(o) = observations[k].platform
<1>. DEFINE S == Siblings(refKey(o.at))
            k == CHOOSE n \in S : \A m \in S : m <= n
<1>1. Known(o) = IF S = {} THEN NoPlatform ELSE observations[k].platform
  BY DEF Known
<1>2. S \subseteq DOMAIN observations
  BY Zenon DEF Siblings
<1>. HIDE DEF S
<1>3. ASSUME S # {} PROVE k \in S
  <2>1. Len(observations) \in Nat /\ S \in SUBSET (1..Len(observations))
    BY <1>2 DEF ListInv, Observed
  <2>2. \E n \in S : \A m \in S : m <= n
    BY <1>3, <2>1, LargestElement
  <2>. QED  BY <2>2, Zenon
<1>. HIDE DEF k
<1>4. ASSUME S # {} PROVE refKey(observations[k].at) = refKey(o.at) /\ observations[k].platform # NoPlatform
  BY <1>3, <1>4, Zenon DEF S, Siblings
<1>. QED  BY <1>1, <1>2, <1>3, <1>4 DEF S

\* Where a reported container has its platform from.
LEMMA ReportedSource ==
  ASSUME ListInv, NEW n \in DOMAIN result
  PROVE  \E j \in DOMAIN observations, k \in DOMAIN observations :
           /\ result[n].at = observations[j].at /\ result[n].digest = observations[j].digest
           /\ refKey(observations[k].at) = refKey(observations[j].at)
           /\ observations[k].platform # NoPlatform /\ result[n].platform = observations[k].platform
<1>1. PICK j \in 1..filled : result[n] = Kept(observations[j]) /\ Platform(observations[j]) # NoPlatform
  BY DEF ListInv, Backfilled
<1>2. j \in DOMAIN observations
  BY DEF ListInv, LoopShape, Observed
<1>. PICK o : o = observations[j]
  OBVIOUS
<1>3. /\ result[n].at = o.at /\ result[n].digest = o.digest /\ result[n].platform = Platform(o)
  BY <1>1, <1>2, KeptAt DEF ListInv, Observed
<1>4. CASE o.platform # NoPlatform
  BY <1>2, <1>3, <1>4 DEF Platform
<1>5. CASE o.platform = NoPlatform
  <2>1. Known(o) # NoPlatform /\ Platform(o) = Known(o)
    BY <1>1, <1>5 DEF Platform
  <2>2. \E k \in DOMAIN observations :
          /\ refKey(observations[k].at) = refKey(o.at)
          /\ observations[k].platform # NoPlatform /\ Known(o) = observations[k].platform
    BY <2>1, KnownCases
  <2>. QED  BY <1>2, <1>3, <2>1, <2>2
<1>. QED  BY <1>4, <1>5

\* A container whose inspection succeeded has a reference that parses, its
\* image's platform and the digest that is matched.
LEMMA ObservedSource ==
  ASSUME ListInv, NEW k \in DOMAIN observations
  PROVE  LET i == observations[k].at
         IN  /\ i \in DOMAIN containers /\ ImageOf(i) \in Images /\ raw(i).name \in Seq(STRING)
             /\ observations[k].platform # NoPlatform =>
                  /\ Parseable(raw(i)) /\ observations[k].platform = PlatformOf[ImageOf(i)]
                  /\ observations[k].digest =
                       matchRepoDigest(RepoDigests[ImageOf(i)], ParseReference(raw(i)).repository)
<1>. PICK i : i = observations[k].at
  OBVIOUS
<1>1. Truthful(observations[k])
  BY DEF ListInv, Observed
<1>2. i \in DOMAIN containers
  <2>1. i \in 1..(next - 1)
    BY <1>1 DEF Truthful
  <2>. QED  BY <2>1 DEF ListInv, LoopShape
<1>3. containers[i] \in Container
  BY <1>2 DEF ListInv, LoopShape
<1>4. ImageOf(i) \in Images /\ raw(i).name \in Seq(STRING)
  BY <1>3, ContainerListAssumption DEF Container, ImageOf, raw
<1>. QED  BY <1>1, <1>2, <1>4 DEF Truthful

\* A container is observed once.
LEMMA OnceObserved ==
  ASSUME ListInv, NEW j \in DOMAIN observations, NEW k \in DOMAIN observations,
         observations[j].at = observations[k].at
  PROVE  j = k
<1>1. Truthful(observations[k])
  BY DEF ListInv, Observed
<1>2. ~(observations[k].at < observations[k].at)
  BY <1>1 DEF Truthful, ListInv, LoopShape
<1>3. j \in Nat /\ k \in Nat
  BY DEF ListInv, Observed
<1>4. ~(j < k) /\ ~(k < j)
  BY <1>2 DEF ListInv, Observed
<1>. QED  BY <1>3, <1>4

LEMMA ContainerNames ==
  ASSUME ListInv, NEW i \in DOMAIN containers
  PROVE  raw(i).name \in Seq(STRING)
<1>1. containers[i] \in Container
  BY DEF ListInv, LoopShape
<1>. QED  BY <1>1, ContainerListAssumption DEF Container, raw

LEMMA NoneLost == ListInv => LostOnlyAlone
<1>. SUFFICES ASSUME ListInv, Done, NEW i \in DOMAIN containers
              PROVE  /\ ~Parseable(raw(i)) => i \notin Reported
                     /\ i \notin Reported =>
                          \A j \in DOMAIN containers : SameImage(i, j) => ~Inspected(j) /\ j \notin Reported
  BY DEF LostOnlyAlone
<1>1. ASSUME NEW j \in Reported
      PROVE  \E k \in DOMAIN observations :
               /\ refKey(observations[k].at) = refKey(j) /\ observations[k].platform # NoPlatform
               /\ Parseable(raw(observations[k].at))
  <2>1. PICK n \in DOMAIN result : j = result[n].at
    BY DEF Reported
  <2>. QED  BY <2>1, ReportedSource, ObservedSource
<1>2. ASSUME ~Parseable(raw(i)), i \in Reported PROVE FALSE
  <2>1. PICK k \in DOMAIN observations :
          refKey(observations[k].at) = refKey(i) /\ Parseable(raw(observations[k].at))
    BY <1>1, <1>2
  <2>. QED  BY <1>2, <2>1, KeyParses
<1>3. ASSUME i \notin Reported, NEW j \in DOMAIN containers, SameImage(i, j)
      PROVE  ~Inspected(j) /\ j \notin Reported
  <2>1. Parseable(raw(i)) /\ refKey(i) = refKey(j)
    BY <1>3, SameKey, ContainerNames DEF SameImage
  <2>2. PICK a \in DOMAIN observations : observations[a].at = i
    <3>1. i \in 1..(next - 1)
      BY DEF ListInv, LoopShape, Done, AllSeen
    <3>. QED  BY <2>1, <3>1 DEF ListInv, Observed
  <2>. PICK o : o = observations[a]
    OBVIOUS
  <2>3. Platform(o) = NoPlatform
    <3>1. a \in 1..filled
      BY <2>2 DEF ListInv, Observed, Done
    <3>2. ASSUME Platform(o) # NoPlatform PROVE i \in Reported
      <4>1. PICK n \in DOMAIN result : result[n].at = i
        BY <2>2, <3>1, <3>2 DEF ListInv, Backfilled
      <4>. QED  BY <4>1 DEF Reported
    <3>. QED  BY <1>3, <3>2
  <2>4. o.platform = NoPlatform /\ Known(o) = NoPlatform
    BY <2>3 DEF Platform
  <2>5. Siblings(refKey(j)) = {}
    BY <2>1, <2>2, <2>4, KnownCases
  <2>6. \A k \in DOMAIN observations :
          refKey(observations[k].at) = refKey(j) => observations[k].platform = NoPlatform
    BY <2>5, Zenon DEF Siblings
  <2>7. ~Inspected(j)
    BY <2>6 DEF Inspected
  <2>8. j \notin Reported
    BY <1>1, <2>6
  <2>. QED  BY <2>7, <2>8
<1>. QED  BY <1>2, <1>3

LEMMA PlatformsRight == ListInv => PlatformRecovered
<1>. SUFFICES ASSUME ListInv, NEW n \in DOMAIN result
              PROVE  /\ \A k \in DOMAIN result : n < k => result[n].at < result[k].at
                     /\ (\A i \in DOMAIN containers :
                           SameImage(i, result[n].at) =>
                             PlatformOf[containers[i].image] = PlatformOf[containers[result[n].at].image])
                        /\ raw(result[n].at).digest = ""
                        => result[n].platform = PlatformOf[containers[result[n].at].image]
  BY DEF PlatformRecovered
<1>1. \A k \in DOMAIN result : n < k => result[n].at < result[k].at
  BY DEF ListInv, Backfilled
<1>2. PICK j \in DOMAIN observations, k \in DOMAIN observations :
        /\ result[n].at = observations[j].at
        /\ refKey(observations[k].at) = refKey(observations[j].at)
        /\ observations[k].platform # NoPlatform /\ result[n].platform = observations[k].platform
  BY ReportedSource
<1>. PICK a, b : a = observations[j].at /\ b = observations[k].at
  OBVIOUS
<1>3. /\ a \in DOMAIN containers /\ raw(a).name \in Seq(STRING)
      /\ b \in DOMAIN containers /\ raw(b).name \in Seq(STRING)
      /\ Parseable(raw(b)) /\ result[n].platform = PlatformOf[ImageOf(b)]
  BY <1>2, ObservedSource
<1>4. Parseable(raw(a))
  BY <1>2, <1>3, KeyParses
<1>5. ASSUME raw(a).digest = "" PROVE SameImage(b, a)
  BY <1>2, <1>3, <1>4, <1>5, KeySame
<1>. QED  BY <1>1, <1>2, <1>3, <1>5 DEF ImageOf

LEMMA DigestsRight == ListInv => DigestFound
<1>. SUFFICES ASSUME ListInv, NEW n \in DOMAIN result
              PROVE  LET i     == result[n].at
                         known == ToSet(RepoDigests[containers[i].image])
                         own   == {e \in known : e.digest # "" /\ SpelledOut(e.name) = SpelledOut(raw(i).name)}
                     IN  Inspected(i) /\ own # {} /\ raw(i).digest = "" =>
                           /\ result[n].digest # ""
                           /\ (\A e \in known : Last(e.name) = Last(raw(i).name) => e \in own)
                              => result[n].digest \in {e.digest : e \in own}
  BY DEF DigestFound
<1>. DEFINE i     == result[n].at
            known == ToSet(RepoDigests[containers[i].image])
            own   == {e \in known : e.digest # "" /\ SpelledOut(e.name) = SpelledOut(raw(i).name)}
<1>. SUFFICES ASSUME Inspected(i), own # {}, raw(i).digest = ""
              PROVE  /\ result[n].digest # ""
                     /\ (\A e \in known : Last(e.name) = Last(raw(i).name) => e \in own)
                        => result[n].digest \in {e.digest : e \in own}
  OBVIOUS
<1>. PICK r, entries : r = raw(i) /\ entries = RepoDigests[ImageOf(i)]
  OBVIOUS
<1>1. /\ i \in DOMAIN containers /\ ImageOf(i) \in Images /\ r.name \in Seq(STRING) /\ Parseable(r)
      /\ result[n].digest = matchRepoDigest(entries, ParseReference(r).repository)
  <2>. HIDE DEF i
  <2>1. PICK j \in DOMAIN observations : i = observations[j].at /\ result[n].digest = observations[j].digest
    BY ReportedSource DEF i
  <2>2. PICK k \in DOMAIN observations : observations[k].at = i /\ observations[k].platform # NoPlatform
    BY DEF Inspected
  <2>3. j = k
    BY <2>1, <2>2, OnceObserved, Zenon
  <2>4. /\ observations[k].at \in DOMAIN containers /\ ImageOf(observations[k].at) \in Images
        /\ raw(observations[k].at).name \in Seq(STRING) /\ Parseable(raw(observations[k].at))
        /\ observations[k].digest =
             matchRepoDigest(RepoDigests[ImageOf(observations[k].at)],
                             ParseReference(raw(observations[k].at)).repository)
    BY <2>2, ObservedSource
  <2>. QED  BY <2>1, <2>2, <2>3, <2>4
<1>. HIDE DEF i
<1>2. /\ Len(entries) \in Nat /\ DOMAIN entries = 1..Len(entries)
      /\ known = {entries[k] : k \in DOMAIN entries}
      /\ \A k \in DOMAIN entries : entries[k] \in known /\ RepoName(entries[k].name)
  <2>1. known = {entries[k] : k \in DOMAIN entries}
    BY DEF ToSet, ImageOf
  <2>2. \A e \in ToSet(entries) : RepoName(e.name)
    BY <1>1, ContainerListAssumption
  <2>3. \A k \in DOMAIN entries : RepoName(entries[k].name)
    BY <2>2 DEF ToSet
  <2>4. Len(entries) \in Nat /\ DOMAIN entries = 1..Len(entries)
    BY <1>1, ContainerListAssumption
  <2>. QED  BY <2>1, <2>3, <2>4
<1>3. /\ Qualified(r) \in Seq(Components) /\ Qualified(r) # <<>> /\ Registry(r) \in Components
      /\ Last(Qualified(r)) = Last(r.name) /\ SpelledOut(r.name) = <<Registry(r)>> \o Qualified(r)
  BY <1>1, QualifiedProperties DEF Parseable
<1>. PICK repository : repository = ParseReference(r).repository
  OBVIOUS
<1>4. repository.path = Qualified(r) /\ repository.colon = ""
  BY DEF ParseReference
<1>5. PICK k \in DOMAIN entries : entries[k] \in own
  BY <1>2
<1>6. entries[k].digest # "" /\ SpelledOut(entries[k].name) = SpelledOut(r.name)
  BY <1>5, Zenon
<1>7. repoNamesEquivalent(entries[k].name, repository.path)
  <2>1. PICK e : e = entries[k]
    OBVIOUS
  <2>2. RepoName(e.name) /\ e.name \in Seq(STRING) /\ e.name # <<>>
    BY <1>2, <2>1 DEF RepoName
  <2>3. /\ Qualified(e) \in Seq(Components) /\ Registry(e) \in Components
        /\ SpelledOut(e.name) = <<Registry(e)>> \o Qualified(e)
        /\ repoNamesEquivalent(e.name, Qualified(e))
    BY <2>2, QualifiedProperties
  <2>4. Qualified(e) = Qualified(r)
    <3>1. <<Registry(e)>> \o Qualified(e) = <<Registry(r)>> \o Qualified(r)
      BY <1>3, <1>6, <2>1, <2>3
    <3>2. PICK a, b, u, v : a = Registry(e) /\ b = Registry(r) /\ u = Qualified(e) /\ v = Qualified(r)
      OBVIOUS
    <3>3. /\ a \in Components /\ b \in Components /\ u \in Seq(Components) /\ v \in Seq(Components)
          /\ <<a>> \o u = <<b>> \o v
      BY <1>3, <2>3, <3>1, <3>2, Zenon
    <3>4. u = v
      BY <3>3, ConsEqual
    <3>. QED  BY <3>2, <3>4
  <2>. QED  BY <1>4, <2>1, <2>3, <2>4
<1>8. PICK m \in DOMAIN entries :
        /\ matchRepoDigest(entries, repository) = entries[m].digest
        /\ entries[m].digest # "" /\ repoNamesEquivalent(entries[m].name, repository.path)
  BY <1>2, <1>4, <1>6, <1>7, Matched
<1>9. result[n].digest = entries[m].digest /\ result[n].digest # ""
  BY <1>1, <1>8
<1>10. Last(entries[m].name) = Last(r.name)
  <2>1. PICK s, q : s = entries[m].name /\ q = Qualified(r)
    OBVIOUS
  <2>2. s \in Seq(STRING) /\ s # <<>>
    BY <1>2, <2>1 DEF RepoName
  <2>3. s \in Seq(Components)
    BY <2>2, SeqMonotonic DEF Components
  <2>4. IsSuffix(s, q) \/ IsSuffix(q, s)
    BY <1>4, <1>8, <2>1 DEF repoNamesEquivalent
  <2>5. q \in Seq(Components) /\ q # <<>>
    BY <1>3, <2>1
  <2>6. Last(s) = Last(q)
    BY <2>2, <2>3, <2>4, <2>5, SuffixLast
  <2>. QED  BY <1>3, <2>1, <2>6
<1>11. ASSUME \A e \in known : Last(e.name) = Last(raw(i).name) => e \in own
       PROVE  result[n].digest \in {e.digest : e \in own}
  <2>1. entries[m] \in known
    BY <1>2
  <2>2. entries[m] \in own
    BY <1>10, <1>11, <2>1, Zenon
  <2>. HIDE DEF own
  <2>. QED  BY <1>9, <2>2
<1>. QED  BY <1>9, <1>11

\* LostOnlyAlone holds in every behaviour: whichever inspections fail, a
\* container is left out only if no container of its image could be inspected,
\* and one whose reference does not parse always is.
THEOREM ListingLosesNone == Spec => []LostOnlyAlone
  BY ListingInvariant, NoneLost, PTL

\* PlatformRecovered holds in every behaviour: a container that has to borrow
\* its platform is reported with the right one, if there is one, and the list
\* keeps its order.
THEOREM ListingPlatforms == Spec => []PlatformRecovered
  BY ListingInvariant, PlatformsRight, PTL

\* DigestFound holds in every behaviour: the digest of an inspected container
\* is found in whichever spelling the image is known under its repository.
THEOREM ListingDigests == Spec => []DigestFound
  BY ListingInvariant, DigestsRight, PTL
=============================================================================
