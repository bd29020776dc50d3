--------------------------- MODULE RegistryClient ----------------------------
(***************************************************************************)
(* The calls of the registry client that take several requests.            *)
(* ResolveForPlatform fetches the manifest a tag points to and, when it is *)
(* not an index, the config blob that says which platform it is for.       *)
(* ListTags follows the Link headers of a paginated listing.  The registry *)
(* is external and changes between two requests of a call; it serves tags  *)
(* in order from a cursor on, and one that misbehaves may send any link.   *)
(***************************************************************************)
EXTENDS Naturals, Sequences, FiniteSets

CONSTANTS
  Platforms,        \* os/architecture/variant triples that occur
  Contents,         \* what the tag may point to: an index with its entries, or
                    \* a manifest with the platform its config blob gives
  NumTags,          \* the repository's tags, numbered in the registry's order
  PageSize,         \* tags on a page
  maxTagListPages,  \* 50 in the code
  Faults            \* subset of {"request", "link"}

ASSUME RegistryClientAssumption ==
  /\ \A p \in Platforms : p = [os |-> p.os, arch |-> p.arch, variant |-> p.variant]
  /\ \A c \in Contents :
       \/ c.kind = "single" /\ c.config \in Platforms
       \/ /\ c.kind = "index"
          /\ Len(c.entries) \in Nat /\ DOMAIN c.entries = 1..Len(c.entries)
          /\ \A i \in DOMAIN c.entries : c.entries[i].platform \in Platforms
  /\ NumTags \in Nat
  /\ PageSize \in Nat \ {0} /\ maxTagListPages \in Nat \ {0}

Tags == 1..NumTags

NoLink == NumTags + 1  \* no next page; other links name the last tag seen

\* registry.ManifestObservation; an absent digest is the empty string.  What
\* AvailablePlatforms and MediaType say, no caller reads.
Blank == [index |-> "", manifest |-> ""]

VARIABLES
  tag,   \* what the registry serves under the tag
  tags,  \* the tags the repository has
  call   \* the call under way, or the last one

vars == <<tag, tags, call>>

\* The frame of ResolveForPlatform: the request under way or how the call
\* ended, the platform wanted, the manifest fetched, the observation returned
\* and, as history, what the tag pointed to at some point of the call.
Resolving(w) ==
  [op |-> "resolve", at |-> "manifest", want |-> w, body |-> tag, answer |-> Blank,
   shown |-> {tag}]

\* The frame of ListTags: its loop counter, where the next page starts, the
\* tags collected and, as history, the tags the repository had all through
\* the call and whether every link was a proper one.
Listing ==
  [op |-> "list", at |-> "page", page |-> 0, next |-> 0, allTags |-> <<>>,
   stable |-> tags, honest |-> TRUE]

Init ==
  /\ tag \in Contents /\ tags \in SUBSET Tags
  /\ call = [op |-> "none", at |-> "done"]

-----------------------------------------------------------------------------

\* A bug to rule out: variants have to be spelled alike.
variantEqual(arch, requested, entry) == requested = entry

\* On arm64, no variant and v8 are the same machine.
variantCompatible(arch, requested, entry) ==
  requested = entry \/ (arch = "arm64" /\ {requested, entry} = {"", "v8"})

platformMatches(candidate, w) ==
  /\ candidate.os = w.os /\ candidate.arch = w.arch
  /\ variantCompatible(candidate.arch, w.variant, candidate.variant)

\* The entries of an index that fit; the first one is taken.
Matching(c, w) == {i \in DOMAIN c.entries : platformMatches(c.entries[i].platform, w)}

ResolveIndex(c, w) ==
  [index    |-> c.digest,
   manifest |-> IF Matching(c, w) = {} THEN ""
                ELSE c.entries[CHOOSE i \in Matching(c, w) :
                                 \A j \in Matching(c, w) : i <= j].digest]

ResolveSingle(c, w) ==
  IF platformMatches(c.config, w) THEN [Blank EXCEPT !.manifest = c.digest] ELSE Blank

Ended == call.at \in {"done", "failed"}

\* A new call; the client has no state of its own between two calls.
ResolveForPlatform(w) == Ended /\ call' = Resolving(w) /\ UNCHANGED <<tag, tags>>

ListTags == Ended /\ call' = Listing /\ UNCHANGED <<tag, tags>>

\* resolveRaw: the manifest and its digest come from one response.
ManifestOK ==
  /\ call.at = "manifest"
  /\ \/ /\ tag.kind = "index"
        /\ call' = [call EXCEPT !.at = "done", !.body = tag, !.answer = ResolveIndex(tag, call.want)]
     \/ /\ tag.kind = "single"
        /\ call' = [call EXCEPT !.at = "config", !.body = tag]
  /\ UNCHANGED <<tag, tags>>

\* A bug to rule out: the platform is read from what the tag points to by
\* now, not from the blob the fetched manifest names.
ConfigOfTag ==
  /\ call.at = "config"
  /\ LET mixed == [call.body EXCEPT !.config = IF tag.kind = "single" THEN tag.config ELSE @]
     IN  call' = [call EXCEPT !.at = "done", !.answer = ResolveSingle(mixed, call.want)]
  /\ UNCHANGED <<tag, tags>>

\* fetchConfigPlatform: the blob is addressed by digest, so it is the one
\* that belongs to the fetched manifest.
ConfigOK ==
  /\ call.at = "config"
  /\ call' = [call EXCEPT !.at = "done", !.answer = ResolveSingle(call.body, call.want)]
  /\ UNCHANGED <<tag, tags>>

-----------------------------------------------------------------------------

\* External: the tags after the cursor, as many as fit on a page.
Remaining(cursor) == {t \in tags : t > cursor}

PageAt(cursor) ==
  {t \in Remaining(cursor) : Cardinality({u \in Remaining(cursor) : u <= t}) <= PageSize}

\* External: a page lists its tags in the registry's order.
Increasing(s) == \A i, j \in DOMAIN s : i < j => s[i] < s[j]

InOrder(T) == CHOOSE s \in [1..Cardinality(T) -> T] : Increasing(s)

\* External: the link of a page, if more tags follow it.
ProperLink(cursor) ==
  IF PageAt(cursor) = Remaining(cursor) THEN NoLink
  ELSE CHOOSE t \in PageAt(cursor) : \A u \in PageAt(cursor) : u <= t

\* parseNextLink: the link of the page, the proper one or any at all.
Links(cursor) == {ProperLink(cursor)} \union (IF "link" \in Faults THEN 0..NoLink ELSE {})

MorePages == call.page < maxTagListPages /\ call.next # NoLink

\* The call after a page and its link have come in.
WithPage(link) ==
  [call EXCEPT !.page = @ + 1, !.next = link,
               !.allTags = @ \o InOrder(PageAt(call.next)),
               !.honest = @ /\ link = ProperLink(call.next)]

\* A bug to rule out: pages without tags are not counted.
FetchEmptyUncounted ==
  /\ call.at = "page" /\ MorePages
  /\ \E link \in Links(call.next) :
       call' = IF PageAt(call.next) = {} THEN [WithPage(link) EXCEPT !.page = call.page]
               ELSE WithPage(link)
  /\ UNCHANGED <<tag, tags>>

FetchPage ==
  /\ call.at = "page" /\ MorePages
  /\ \E link \in Links(call.next) : call' = WithPage(link)
  /\ UNCHANGED <<tag, tags>>

Return ==
  /\ call.at = "page" /\ ~MorePages
  /\ call' = [call EXCEPT !.at = "done"]
  /\ UNCHANGED <<tag, tags>>

\* A bug to rule out: an error on a later page ends the listing there.
FailTruncates ==
  /\ "request" \in Faults
  /\ call.at = "page" /\ MorePages
  /\ call' = [call EXCEPT !.at = "done", !.next = NoLink]
  /\ UNCHANGED <<tag, tags>>

\* A request fails, a body is malformed, or a manifest comes without its
\* Docker-Content-Digest: the call fails and what it had learnt is dropped.
Fail ==
  /\ "request" \in Faults
  /\ call.at \in {"manifest", "config"} \/ (call.at = "page" /\ MorePages)
  /\ call' = [op |-> call.op, at |-> "failed"]
  /\ UNCHANGED <<tag, tags>>

-----------------------------------------------------------------------------

\* External: the tag is pushed to.
Push(c) ==
  /\ tag' = c
  /\ call' = IF call.op = "resolve" /\ ~Ended THEN [call EXCEPT !.shown = @ \union {c}] ELSE call
  /\ UNCHANGED tags

\* External: other tags come and go.
PushTag(t) ==
  /\ tags' = tags \union {t}
  /\ UNCHANGED <<tag, call>>

DeleteTag(t) ==
  /\ tags' = tags \ {t}
  /\ call' = IF call.op = "list" /\ ~Ended THEN [call EXCEPT !.stable = @ \ {t}] ELSE call
  /\ UNCHANGED tag

Respond == ManifestOK \/ ConfigOK \/ FetchPage \/ Return \/ Fail

Next ==
  \/ \E w \in Platforms : ResolveForPlatform(w)
  \/ ListTags
  \/ Respond
  \/ \E c \in Contents : Push(c)
  \/ \E t \in Tags : PushTag(t) \/ DeleteTag(t)

\* Requests time out, so a call always moves on.
Spec == Init /\ [][Next]_vars /\ WF_vars(Respond)

-----------------------------------------------------------------------------

\* arm64 and arm64/v8 name one machine; otherwise a machine has one name.
SameMachine(p, q) ==
  p = q \/ (p.arch = "arm64" /\ q.arch = "arm64" /\ p.os = q.os
            /\ p.variant \in {"", "v8"} /\ q.variant \in {"", "v8"})

\* The manifests of a content that are for the machine w names.
ManifestsFor(c, w) ==
  IF c.kind = "single"
    THEN IF SameMachine(c.config, w) THEN {c.digest} ELSE {}
    ELSE {c.entries[i].digest : i \in {j \in DOMAIN c.entries : SameMachine(c.entries[j].platform, w)}}

Answered(op) == call.op = op /\ call.at = "done"

\* ResolveForPlatform answers from one thing the tag pointed to during the
\* call, never from a mixture of two: the manifest digest it gives is for
\* the machine asked for, its index digest is that of the same content, and
\* it gives no manifest only if that content has none for the machine.
AnswerIsPlatformVerified ==
  Answered("resolve") =>
    \E c \in call.shown :
      LET fitting == ManifestsFor(c, call.want)
      IN  /\ call.answer.manifest \in IF fitting = {} THEN {""} ELSE fitting
          /\ call.answer.index = IF c.kind = "index" THEN c.digest ELSE ""

\* Two containers on the same machine are told the same manifest, however
\* the variant of their platform is spelled: the group of the one does not
\* see a digest change that the group of the other does not.
SpellingDoesNotMatter ==
  Answered("resolve") =>
    \A w \in Platforms :
      SameMachine(w, call.want) =>
        call.answer = IF call.body.kind = "index" THEN ResolveIndex(call.body, w)
                                                  ELSE ResolveSingle(call.body, w)

\* With a well-behaved registry, a listing that ends without an error has, in
\* order and once, every tag that was there all along up to where it stopped,
\* which is the end unless it met the page limit, whatever is pushed and
\* deleted between two pages: candidate analysis never works on a listing
\* with a hole in it.
ListingComplete ==
  Answered("list") /\ call.honest =>
    /\ \A t \in call.stable : t <= call.next => \E i \in DOMAIN call.allTags : call.allTags[i] = t
    /\ Increasing(call.allTags)

\* Calls end, even if the registry's links lead in circles.
CallsEnd == ~Ended ~> Ended
=============================================================================
