----------------------------- MODULE Enrichment -----------------------------
(***************************************************************************)
(* attemptEnrichment: naming the release a moved opaque tag now serves.    *)
(* Candidate tags, sorted newest first and cut at enrichment.max_tags, are *)
(* positions 1..NumTags.  A group with several drifted digests starts a    *)
(* scan for each; a semaphore admits concurrency.workers of them at once.  *)
(* They share one tag list through groupCache, and each resolves its       *)
(* candidates in windows of parallel requests.                             *)
(***************************************************************************)
EXTENDS Integers, FiniteSets

CONSTANTS
  Scans,    \* the scans of one group, one for each drifted digest
  NumTags,  \* candidates left after sorting and truncating
  Matches,  \* the candidates that resolve to the digest looked for
  Workers,  \* concurrency.workers: scans at once, and the size of a window
  Faults    \* "registry": requests may fail; "timeout": scans may time out

Tags == 1..NumTags

ASSUME EnrichmentAssumption ==
  /\ NumTags \in Nat /\ Matches \subseteq Tags /\ Workers \in Nat \ {0}
  /\ IsFiniteSet(Scans)

VARIABLES
  cache,     \* groupCache: "none", "held" while a scan lists, "ok" or "error"
  lists,     \* history: how often the registry was asked for the tags
  pc,        \* what each scan is doing
  start,     \* the first candidate of its window
  inflight,  \* its requests the registry has not answered yet
  failed,    \* the candidates it could not resolve
  expired,   \* whether its enrichment.timeout has passed
  answer     \* the candidate it returned, 0 for none

scanVars == <<cache, lists, pc, start, inflight, failed, expired, answer>>

Min2(a, b) == IF a < b THEN a ELSE b

\* A bug to rule out: the last window runs past the end of the list.
WindowUnclamped(s) == start[s]..(start[s] + Min2(Workers, NumTags) - 1)

Window(s) == start[s]..Min2(start[s] + Min2(Workers, NumTags) - 1, NumTags)

ScanInit ==
  /\ cache = "none" /\ lists = 0
  /\ pc = [s \in Scans |-> "queued"]
  /\ start = [s \in Scans |-> 1]
  /\ inflight = [s \in Scans |-> {}]
  /\ failed = [s \in Scans |-> {}]
  /\ expired = [s \in Scans |-> FALSE]
  /\ answer = [s \in Scans |-> 0]

\* The scans that hold a slot of the semaphore; a scan that has returned has
\* given its slot back.
Admitted == {s \in Scans : pc[s] \notin {"queued", "found", "none"}}

\* A bug to rule out: the goroutines do not acquire the semaphore.
AdmitAll(s) ==
  /\ pc[s] = "queued"
  /\ pc' = [pc EXCEPT ![s] = "list"]
  /\ UNCHANGED <<cache, lists, start, inflight, failed, expired, answer>>

\* The goroutine of a drifted digest gets a slot; its timeout starts to run.
Admit(s) ==
  /\ pc[s] = "queued" /\ Cardinality(Admitted) < Workers
  /\ pc' = [pc EXCEPT ![s] = "list"]
  /\ UNCHANGED <<cache, lists, start, inflight, failed, expired, answer>>

\* A bug to rule out: the cache is looked up without holding its mutex
\* across the request.
ListUnlocked(s) ==
  /\ pc[s] = "list" /\ cache \in {"none", "held"}
  /\ cache' = "held" /\ lists' = lists + 1
  /\ pc' = [pc EXCEPT ![s] = "listing"]
  /\ UNCHANGED <<start, inflight, failed, expired, answer>>

\* groupCache.list: the first scan takes the mutex and asks the registry.
List(s) ==
  /\ pc[s] = "list" /\ cache = "none"
  /\ cache' = "held" /\ lists' = lists + 1
  /\ pc' = [pc EXCEPT ![s] = "listing"]
  /\ UNCHANGED <<start, inflight, failed, expired, answer>>

\* The scan ends without an answer.
GiveUp(s) == pc' = [pc EXCEPT ![s] = "none"]

\* Without candidates there is nothing to resolve.
Proceed(s) ==
  pc' = [pc EXCEPT ![s] = IF NumTags = 0 THEN "none" ELSE "window"]

\* A bug to rule out: the error path returns with the mutex held.
ListDoneKeepsLock(s) ==
  /\ pc[s] = "listing"
  /\ \/ cache' = "ok" /\ Proceed(s)
     \/ /\ "registry" \in Faults \/ expired[s]
        /\ UNCHANGED cache /\ GiveUp(s)
  /\ UNCHANGED <<lists, start, inflight, failed, expired, answer>>

\* The list arrives, or an error does; either is remembered.
ListDone(s) ==
  /\ pc[s] = "listing"
  /\ \/ cache' = "ok" /\ Proceed(s)
     \/ /\ "registry" \in Faults \/ expired[s]
        /\ cache' = "error" /\ GiveUp(s)
  /\ UNCHANGED <<lists, start, inflight, failed, expired, answer>>

\* The other scans wait for the mutex and find the outcome in the cache.
CacheHit(s) ==
  /\ pc[s] = "list"
  /\ \/ cache = "ok" /\ Proceed(s)
     \/ cache = "error" /\ GiveUp(s)
  /\ UNCHANGED <<cache, lists, start, inflight, failed, expired, answer>>

\* The next window, unless the timeout has passed or none is left.
StartWindow(s) ==
  /\ pc[s] = "window"
  /\ \/ /\ start[s] <= NumTags /\ ~expired[s]
        /\ inflight' = [inflight EXCEPT ![s] = Window(s)]
        /\ pc' = [pc EXCEPT ![s] = "wait"]
     \/ /\ start[s] > NumTags \/ expired[s]
        /\ GiveUp(s) /\ UNCHANGED inflight
  /\ UNCHANGED <<cache, lists, start, failed, expired, answer>>

ResolveOK(s) ==
  /\ \E i \in inflight[s] : inflight' = [inflight EXCEPT ![s] = @ \ {i}]
  /\ UNCHANGED <<cache, lists, pc, start, failed, expired, answer>>

ResolveFail(s) ==
  /\ "registry" \in Faults \/ expired[s]
  /\ \E i \in inflight[s] :
       /\ inflight' = [inflight EXCEPT ![s] = @ \ {i}]
       /\ failed' = [failed EXCEPT ![s] = @ \union {i}]
  /\ UNCHANGED <<cache, lists, pc, start, expired, answer>>

\* The matches of the window that were resolved.
Found(s) == (Window(s) \ failed[s]) \intersect Matches

\* A bug to rule out: a match is taken as soon as its request completes.
EvaluateEarly(s) ==
  /\ pc[s] = "wait"
  /\ \/ \E i \in Found(s) \ inflight[s] :
          /\ answer' = [answer EXCEPT ![s] = i]
          /\ pc' = [pc EXCEPT ![s] = "found"]
          /\ inflight' = [inflight EXCEPT ![s] = {}]
          /\ UNCHANGED start
     \/ /\ Found(s) = {} /\ inflight[s] = {}
        /\ start' = [start EXCEPT ![s] = @ + Min2(Workers, NumTags)]
        /\ pc' = [pc EXCEPT ![s] = "window"]
        /\ UNCHANGED <<answer, inflight>>
  /\ UNCHANGED <<cache, lists, failed, expired>>

\* After the whole window has resolved: stop when the time is up, take the
\* first match in list order, or go on to the next window.
Evaluate(s) ==
  /\ pc[s] = "wait" /\ inflight[s] = {}
  /\ \/ expired[s] /\ GiveUp(s) /\ UNCHANGED <<start, answer>>
     \/ /\ ~expired[s] /\ Found(s) # {}
        /\ answer' = [answer EXCEPT ![s] =
                        CHOOSE i \in Found(s) : \A j \in Found(s) : i <= j]
        /\ pc' = [pc EXCEPT ![s] = "found"]
        /\ UNCHANGED start
     \/ /\ ~expired[s] /\ Found(s) = {}
        /\ start' = [start EXCEPT ![s] = @ + Min2(Workers, NumTags)]
        /\ pc' = [pc EXCEPT ![s] = "window"]
        /\ UNCHANGED answer
  /\ UNCHANGED <<cache, lists, inflight, failed, expired>>

Timeout(s) ==
  /\ "timeout" \in Faults
  /\ ~expired[s] /\ s \in Admitted
  /\ expired' = [expired EXCEPT ![s] = TRUE]
  /\ UNCHANGED <<cache, lists, pc, start, inflight, failed, answer>>

Scan(s) ==
  \/ Admit(s)
  \/ List(s)
  \/ ListDone(s)
  \/ CacheHit(s)
  \/ StartWindow(s)
  \/ ResolveOK(s)
  \/ ResolveFail(s)
  \/ Evaluate(s)

ScansDone == \A s \in Scans : pc[s] \in {"found", "none"}

\* wg.Wait returns: every scan has, and the group goes on without the cache.
Finish == ScansDone /\ UNCHANGED scanVars

ScanNext ==
  \/ \E s \in Scans : Scan(s) \/ Timeout(s)
  \/ Finish

ScanSpec == ScanInit /\ [][ScanNext]_scanVars

-----------------------------------------------------------------------------

TypeOK ==
  /\ cache \in {"none", "held", "ok", "error"} /\ lists \in Nat
  /\ pc \in [Scans -> {"queued", "list", "listing", "window", "wait", "found", "none"}]
  /\ start \in [Scans -> 1..(NumTags + Workers)]
  /\ inflight \in [Scans -> SUBSET Tags]
  /\ failed \in [Scans -> SUBSET Tags]
  /\ expired \in [Scans -> BOOLEAN]
  /\ answer \in [Scans -> 0..NumTags]

\* "the first match found is the newest match" (attemptEnrichment), whatever
\* order the requests of a window complete in: only a candidate that could
\* not be resolved can be passed over, and a scan gives up only if every
\* match was unresolvable, its time ran out, or the tags could not be listed.
NewestMatchWins ==
  \A s \in Scans :
    /\ pc[s] = "found" =>
         /\ answer[s] \in Matches \ failed[s]
         /\ \A i \in Matches : i < answer[s] => i \in failed[s]
    /\ pc[s] = "none" => Matches \subseteq failed[s] \/ expired[s] \/ cache = "error"

\* "share one tag-list fetch across every enrichment attempt in this group"
\* (checkGroup): however the scans race, the tags are listed once.
ListedOnce == lists <= 1

\* concurrency.workers bounds the requests twice over, by the slots of the
\* semaphore and by the window of each scan: however many digests have drifted,
\* a group never has more than the square of it in flight, and a scan that has
\* returned, by a match or by its timeout, has none.
RequestsBounded ==
  /\ Cardinality({r \in Scans \X Tags : r[2] \in inflight[r[1]]}) <= Workers * Workers
  /\ \A s \in Scans : pc[s] \in {"found", "none"} => inflight[s] = {}
=============================================================================
