--------------------------- MODULE OutageTracker ----------------------------
(***************************************************************************)
(* RegistryOutageTracker: the daemon's per-host count of consecutive       *)
(* cycles in which every image of a registry failed, and the alert raised  *)
(* when the count reaches the threshold.  The tracker lives in memory, so  *)
(* a restarted daemon begins with an empty one.                            *)
(***************************************************************************)
EXTENDS Integers

CONSTANTS
  Hosts,       \* registry hosts
  Configured,  \* registry_outage.consecutive_failures, as configured
  MaxStreak    \* bound on the failing cycles explored in a row

ASSUME OutageAssumption == Configured \in Int /\ MaxStreak \in Nat

VARIABLES
  consecutiveFailures,
  alreadyNotified,  \* the hosts an alert was raised for
  streak,  \* history: how many cycles with results of the host failed in a row
  alerts   \* history: alerts raised since the host last answered

vars == <<consecutiveFailures, alreadyNotified, streak, alerts>>

\* A threshold that is not positive means three.
Threshold == IF Configured <= 0 THEN 3 ELSE Configured

\* The outcomes of one host's images in a cycle; none when no container uses
\* the host.
Group == SUBSET {"ok", "failed"}

registryFailedThisCycle(group) == group # {} /\ "ok" \notin group

Init ==
  /\ consecutiveFailures = [h \in Hosts |-> 0]
  /\ alreadyNotified = {}
  /\ streak = [h \in Hosts |-> 0]
  /\ alerts = [h \in Hosts |-> 0]

Failed(byHost) == {h \in Hosts : registryFailedThisCycle(byHost[h])}

\* Hosts with an answer this cycle.
Recovered(byHost) == {h \in Hosts : byHost[h] # {}} \ Failed(byHost)

\* A bug to rule out: a success takes one failure back instead of all.
FailuresDecay(byHost, h) ==
  IF h \in Failed(byHost) THEN consecutiveFailures[h] + 1
  ELSE IF h \in Recovered(byHost) THEN consecutiveFailures[h] - 1
  ELSE consecutiveFailures[h]

FailuresAfter(byHost, h) ==
  IF h \in Failed(byHost) THEN consecutiveFailures[h] + 1
  ELSE IF h \in Recovered(byHost) THEN 0
  ELSE consecutiveFailures[h]

\* The hosts an alert is raised for.
Raised(byHost) ==
  {h \in Failed(byHost) : FailuresAfter(byHost, h) >= Threshold} \ alreadyNotified

\* A bug to rule out: recovery resets the count and forgets the flag.
NotifiedKept(byHost) == alreadyNotified \union Raised(byHost)

NotifiedAfter(byHost) == (alreadyNotified \ Recovered(byHost)) \union Raised(byHost)

\* One cycle's results.  The alerts go through Deliver, and the tracker does
\* not learn whether that worked.
DetectOutages(byHost) ==
  /\ consecutiveFailures' = [h \in Hosts |-> FailuresAfter(byHost, h)]
  /\ alreadyNotified' = NotifiedAfter(byHost)
  /\ streak' = [h \in Hosts |->
                  IF byHost[h] = {} THEN streak[h]
                  ELSE IF byHost[h] = {"failed"} THEN streak[h] + 1
                  ELSE 0]
  /\ alerts' = [h \in Hosts |->
                  (IF "ok" \in byHost[h] THEN 0 ELSE alerts[h])
                  + (IF h \in Raised(byHost) THEN 1 ELSE 0)]

\* The daemon is restarted with a new tracker.
Restart ==
  /\ consecutiveFailures' = [h \in Hosts |-> 0]
  /\ alreadyNotified' = {}
  /\ streak' = [h \in Hosts |-> 0]
  /\ alerts' = [h \in Hosts |-> 0]

Next ==
  \/ \E byHost \in [Hosts -> Group] :
       /\ \A h \in Hosts : byHost[h] = {"failed"} => streak[h] < MaxStreak
       /\ DetectOutages(byHost)
  \/ Restart

Spec == Init /\ [][Next]_vars

-----------------------------------------------------------------------------

TypeOK ==
  /\ consecutiveFailures \in [Hosts -> Nat]
  /\ alreadyNotified \subseteq Hosts
  /\ streak \in [Hosts -> Nat]
  /\ alerts \in [Hosts -> Nat]

\* One alert for each outage that lasts, none for a shorter one, and a new
\* one after every recovery: since a host last answered, exactly one alert
\* was raised if it has failed Threshold cycles in a row, and none if not.
OneAlertPerOutage ==
  \A h \in Hosts : alerts[h] = IF streak[h] >= Threshold THEN 1 ELSE 0
=============================================================================
