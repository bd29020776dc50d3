------------------------------- MODULE Gauges -------------------------------
(***************************************************************************)
(* What runCycle publishes after a check: for every image stream the gauge *)
(* observation_stale, one gauge updates_available per event type, and      *)
(* digest_drift.  Two computations feed them, the events of the check and  *)
(* computeDigestDrift, and a check that failed or was partial touches only *)
(* the first gauge.  Series are never deleted, so an image that is no      *)
(* longer running keeps its last values.                                   *)
(***************************************************************************)
EXTENDS Observer

VARIABLES
  stale,    \* streams whose observation_stale gauge is 1
  updates,  \* the types whose updates_available gauge is 1, by stream
  drift,    \* streams whose digest_drift gauge is 1
  wanted    \* history: streams whose gauges were last set while some member
            \* wanted to hear of a changed digest

gauges == <<stale, updates, drift, wanted>>

gaugeVars == <<vars, gauges>>

\* Folding Merge over the policies gives the per-field OR of them all.
MergeAll(policies) ==
  IF policies = {} THEN Default ELSE [c \in Categories |-> \E q \in policies : q[c]]

EffectivePolicy(snap, k) ==
  MergeAll({ApplyLabels(DefaultPolicy, snap[c].labels) : c \in Members(snap, k)})

\* A bug to rule out: running digests, which are index digests, are compared
\* with the manifest of the platform.
DriftByPlatform(p, k) ==
  /\ worker[p][k].got.platform # NoDigest
  /\ \E d \in Running(p, k) : d \notin {NoDigest, worker[p][k].got.platform}

\* Some member runs a known digest that the registry does not serve.
computeDigestDrift(p, k) ==
  /\ ServedDigest(worker[p][k].got) # NoDigest
  /\ \E d \in Running(p, k) : d \notin {NoDigest, ServedDigest(worker[p][k].got)}

\* The event types of the result that its effective policy allows.
Present(p, k) ==
  {t \in EventTypes :
     /\ Allows(EffectivePolicy(snapshot[p], k), t)
     /\ \E i \in DOMAIN worker[p][k].events : worker[p][k].events[i].type = t}

Checked(p) == {k \in Keys : worker[p][k].pc \in {"ok", "failed"}}

Fresh(p) == {k \in Checked(p) : worker[p][k].pc = "ok" /\ ~worker[p][k].partial}

\* runCycle's loop over the results (UpdateAvailability, SetDigestDrift).
RecordResults(p) ==
  /\ EndCheck(p)
  /\ stale'   = (stale \ Fresh(p)) \union (Checked(p) \ Fresh(p))
  /\ updates' = [k \in Keys |-> IF k \in Fresh(p) THEN Present(p, k) ELSE updates[k]]
  /\ drift'   = {k \in Keys : IF k \in Fresh(p) THEN computeDigestDrift(p, k) ELSE k \in drift}
  /\ wanted'  = {k \in Keys : IF k \in Fresh(p)
                                THEN Allowed(snapshot[p], k, digestEventType(k)) # {}
                                ELSE k \in wanted}

GInit ==
  /\ Init
  /\ stale = {} /\ drift = {} /\ wanted = {}
  /\ updates = [k \in Keys |-> {}]

GPublish(k) == Push(k) /\ UNCHANGED gauges

StartCycle(p) == StartCheck(p) /\ UNCHANGED gauges

GCheck(p) == (\E k \in Keys : checkGroup(p, k)) /\ UNCHANGED gauges

GNext ==
  \/ \E k \in Keys : GPublish(k)
  \/ \E p \in Procs : StartCycle(p) \/ GCheck(p) \/ RecordResults(p)

GSpec == GInit /\ [][GNext]_gaugeVars

\* Every call checkGroup makes returns: HTTP requests have timeouts.
GFairSpec == GSpec /\ \A p \in Procs : WF_gaugeVars(GCheck(p) \/ RecordResults(p))

-----------------------------------------------------------------------------

\* The gauges of one stream agree although a transition event may have taken
\* the place of the drift events, members may have conflicting policies, and
\* failed checks leave old values standing: whenever digest_drift is 1 and a
\* member wants to know, the gauge of the stream's digest event is 1 too.
DriftShowsAsUpdate ==
  \A k \in drift \intersect wanted : digestEventType(k) \in updates[k]
=============================================================================
