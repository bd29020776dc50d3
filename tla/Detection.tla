----------------------------- MODULE Detection ------------------------------
(***************************************************************************)
(* The detection half of Observer.checkGroup.  A tag with an application   *)
(* version is analysed for candidates (detectVersionCandidateEvents); for  *)
(* an opaque one, each running digest that has drifted is scanned for the  *)
(* release it now serves (detectDigestDriftEvents).                        *)
(***************************************************************************)
EXTENDS Candidates, Enrichment

detectVars == <<vars, scanVars>>

\* No component was recognised: no version, and no segment of another kind in a
\* tag with a dash.
IsOpaque(t) == ~HasApplication(t) /\ (Len(t) >= 2 => Of(t, {"base", "other"}) = {})

\* Without an application version the tags are not listed for candidates.
DetectInit ==
  /\ Init /\ ScanInit
  /\ ~HasApplication(current) => tags = <<>>

\* A drifted digest's scan takes a step.
Enrich(s) ==
  /\ Done /\ IsOpaque(current)
  /\ Scan(s)
  /\ UNCHANGED vars

DetectNext ==
  \/ Next /\ UNCHANGED scanVars
  \/ \E s \in Scans : Enrich(s)
  \/ Done /\ IsOpaque(current) /\ (Finish \/ \E s \in Scans : Timeout(s)) /\ UNCHANGED vars

DetectSpec == DetectInit /\ [][DetectNext]_detectVars

\* Requests complete: the scan's context bounds them.
DetectFairSpec == DetectSpec /\ \A s \in Scans : WF_detectVars(Enrich(s))

-----------------------------------------------------------------------------

\* The check of an opaque tag gets past its drifted digests: no scan waits
\* forever for a slot of the semaphore, on the cache's mutex or on a window.
ScansEnd == <>(IsOpaque(current) => ScansDone)
=============================================================================
