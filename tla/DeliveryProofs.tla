--------------------------- MODULE DeliveryProofs ----------------------------
(***************************************************************************)
(* What the outage tracker guarantees for any hosts and threshold, what    *)
(* runCycle and its targets guarantee for any number of targets of any     *)
(* types, any events and registries, either mode and every fault; and that *)
(* they implement the notification pipeline.                               *)
(***************************************************************************)
EXTENDS Delivery, FiniteSetTheorems, SequenceTheorems, TLAPS

\* The pipeline's own lemmas, for the one process of this module.
PP == INSTANCE PipelineProofs WITH
        Procs <- {D}, Faults <- Faults \union {"read", "write", "notify", "lostack"}

-----------------------------------------------------------------------------
\* The outage tracker by itself.

\* The tracker agrees with the history: the count is the streak, and the
\* flag is up exactly while the streak is at the threshold.
CountsAgree ==
  \A h \in Hosts :
    /\ consecutiveFailures[h] = streak[h]
    /\ h \in alreadyNotified <=> streak[h] >= Threshold

IInv == TypeOK /\ CountsAgree /\ OneAlertPerOutage

\* A configured value that is not positive never reaches the comparison.
LEMMA ThresholdPositive == Threshold \in Nat \ {0}
  BY OutageAssumption DEF Threshold

\* The empty tracker of a new daemon satisfies the invariant.
LEMMA InitIInv == Init => IInv
  BY ThresholdPositive
  DEF Init, IInv, TypeOK, CountsAgree, OneAlertPerOutage

\* One cycle's results keep the counters, the flag and the alerts in step.
LEMMA CycleIInv ==
  ASSUME IInv, NEW byHost \in [Hosts -> Group], DetectOutages(byHost)
  PROVE  IInv'
<1> USE ThresholdPositive
<1>1. ASSUME NEW h \in Hosts
      PROVE  /\ byHost[h] = {} \/ byHost[h] = {"failed"} \/ "ok" \in byHost[h]
             /\ h \in Failed(byHost) <=> byHost[h] = {"failed"}
             /\ h \in Recovered(byHost) <=> "ok" \in byHost[h]
  BY DEF Group, Failed, Recovered, registryFailedThisCycle
<1>2. ASSUME NEW h \in Hosts
      PROVE  /\ consecutiveFailures'[h] \in Nat /\ alerts'[h] \in Nat
             /\ consecutiveFailures'[h] = streak'[h]
             /\ h \in alreadyNotified' <=> streak'[h] >= Threshold
             /\ alerts'[h] = IF streak'[h] >= Threshold THEN 1 ELSE 0
  <2>1. /\ consecutiveFailures[h] = streak[h] /\ streak[h] \in Nat
        /\ h \in alreadyNotified <=> streak[h] >= Threshold
        /\ alerts[h] = IF streak[h] >= Threshold THEN 1 ELSE 0
    BY DEF IInv, TypeOK, CountsAgree, OneAlertPerOutage
  <2>2. /\ consecutiveFailures'[h] = FailuresAfter(byHost, h)
        /\ alreadyNotified' = NotifiedAfter(byHost)
        /\ streak'[h] = IF byHost[h] = {} THEN streak[h]
                        ELSE IF byHost[h] = {"failed"} THEN streak[h] + 1
                        ELSE 0
        /\ alerts'[h] = (IF "ok" \in byHost[h] THEN 0 ELSE alerts[h])
                        + (IF h \in Raised(byHost) THEN 1 ELSE 0)
    BY DEF DetectOutages
  <2>3. h \in Raised(byHost) <=> /\ h \in Failed(byHost)
                                 /\ FailuresAfter(byHost, h) >= Threshold
                                 /\ h \notin alreadyNotified
    BY DEF Raised
  <2>4. CASE byHost[h] = {}
    <3>1. h \notin Failed(byHost) /\ h \notin Recovered(byHost)
      BY <1>1, <2>4
    <3> QED
      BY <2>1, <2>2, <2>3, <2>4, <3>1 DEF FailuresAfter, NotifiedAfter
  <2>5. CASE byHost[h] = {"failed"}
    <3>1. h \in Failed(byHost) /\ h \notin Recovered(byHost)
      BY <1>1, <2>5
    <3> QED
      BY <2>1, <2>2, <2>3, <2>5, <3>1 DEF FailuresAfter, NotifiedAfter
  <2>6. CASE "ok" \in byHost[h]
    <3>1. h \notin Failed(byHost) /\ h \in Recovered(byHost)
      BY <1>1, <2>6
    <3> QED
      BY <2>1, <2>2, <2>3, <2>6, <3>1 DEF FailuresAfter, NotifiedAfter
  <2> QED
    BY <1>1, <2>4, <2>5, <2>6
<1>3. TypeOK'
  <2>1. alreadyNotified' \subseteq Hosts
    BY DEF IInv, TypeOK, DetectOutages, NotifiedAfter, Raised, Failed
  <2>2. /\ consecutiveFailures' \in [Hosts -> Nat]
        /\ alerts' \in [Hosts -> Nat]
        /\ streak' \in [Hosts -> Nat]
    BY <1>2 DEF DetectOutages
  <2> QED
    BY <2>1, <2>2 DEF TypeOK
<1> QED
  BY <1>2, <1>3 DEF IInv, CountsAgree, OneAlertPerOutage

\* Restarting the daemon forgets the outage and its alert together.
LEMMA RestartIInv == Restart => IInv'
  BY ThresholdPositive
  DEF Restart, IInv, TypeOK, CountsAgree, OneAlertPerOutage

\* RegistryOutageTracker.DetectOutages raises exactly one alert for each
\* outage that reaches the threshold, whatever the hosts, the configuration
\* and the sequence of results.
THEOREM OutageCorrect == Spec => [](TypeOK /\ OneAlertPerOutage)
<1>1. Init => IInv
  BY InitIInv
<1>2. IInv /\ [Next]_vars => IInv'
  <2> SUFFICES ASSUME IInv, [Next]_vars PROVE IInv'
    OBVIOUS
  <2>1. CASE Restart
    BY <2>1, RestartIInv
  <2>2. CASE \E byHost \in [Hosts -> Group] : DetectOutages(byHost)
    BY <2>2, CycleIInv
  <2>3. CASE UNCHANGED vars
    BY <2>3 DEF vars, IInv, TypeOK, CountsAgree, OneAlertPerOutage
  <2> QED
    BY <2>1, <2>2, <2>3 DEF Next
<1>3. IInv => TypeOK /\ OneAlertPerOutage
  BY DEF IInv
<1> QED
  BY <1>1, <1>2, <1>3, PTL DEF Spec

-----------------------------------------------------------------------------
\* The inductive invariant, in parts.

\* The cycle's stage and the pipeline's phase move together; between cycles
\* nothing is left of a notification.
Staged ==
  /\ stage # "events" => phase[D] \in {"down", "idle"}
  /\ phase[D] = "down" => stage = "wait"
  /\ phase[D] \in {"down", "idle"} => note[D] = <<>>
  /\ cancelled => "restart" \in Faults

\* The messages a Notify call still has to post, as positions.
Unsent == UNION {call.left[i] : i \in DOMAIN call.left}

\* A call is made to the notifier whose turn it is, and hands over positions of
\* the current notification; until one of its posts fails, none is left behind.
CallInv ==
  \/ call = NoCall
  \/ /\ Delivering
     /\ call.target = Turn /\ Turn \in Notifiers
     /\ call.got \union Unsent \subseteq DOMAIN Current
     /\ ~call.failed => call.got \union Unsent = DOMAIN Current

\* While alerts are sent: each registry is named once, has exactly one alert
\* against it, and the targets still to be called have not heard of it.
AlertsInv ==
  /\ stage # "alerts" => alertNote = <<>>
  /\ alertCursor > 0
  /\ IsFiniteSet(DOMAIN alertNote)
  /\ \A i, j \in DOMAIN alertNote : alertNote[i] = alertNote[j] => i = j
  /\ \A i \in DOMAIN alertNote :
       /\ alerts[alertNote[i]] = 1
       /\ \A n \in Notifiers : n >= alertCursor => told[n][alertNote[i]] = 0

\* A target that was not told of an outage failed, or is still to be called.
OutagesTried ==
  \A n \in Notifiers, h \in Hosts : alerts[h] > 0 =>
    \/ told[n][h] > 0
    \/ <<n, h>> \in missed
    \/ n >= alertCursor /\ \E i \in DOMAIN alertNote : alertNote[i] = h

\* Target n's turn for event f is over.
TurnOver(n, f) ==
  /\ phase[D] = "marking" \/ (phase[D] = "delivering" /\ n < cursor[D])
  /\ f \in P!Items(P!Batch(D))

\* The same of the events: of those with a row, and of the current batch.
EventsTried ==
  \A n \in Notifiers, f \in Fingerprints :
    notified[f] # "none" \/ TurnOver(n, f) => <<n, f>> \in received \union missed

\* What the safety properties rest on.
DInv ==
  /\ DTypeOK
  /\ IInv
  /\ Staged
  /\ CallInv
  /\ AlertsInv
  /\ AlertedOnce
  /\ OutagesTried
  /\ EventsTried

-----------------------------------------------------------------------------
\* At most once, for checks that name an event once.

\* A check that found the same event for two images would put it in twice.
EachOnce ==
  \A items \in ItemLists : \A i, j \in DOMAIN items : items[i].fp = items[j].fp => i = j

\* No event is in the notification twice, or will be.
NamedOnce ==
  /\ \A i, j \in DOMAIN note[D] : note[D][i] = note[D][j] => i = j
  /\ \A i, j \in DOMAIN todo[D] : todo[D][i].fp = todo[D][j].fp => i = j
  /\ \A i \in DOMAIN note[D], j \in DOMAIN todo[D] : note[D][i] # todo[D][j].fp
  /\ phase[D] # "building" => todo[D] = <<>>

\* Event f was looked up in vain: it may reach every target again, those a
\* cancelled context keeps it from excepted.
Vain(f) ==
  \A n \in Notifiers : <<n, f>> \in excused \/ (cancelled /\ targets[n] # "stdout")

\* The items still to be delivered and marked have no row.
NoteInv ==
  /\ \A i \in DOMAIN note[D] :
       (phase[D] = "marking" => i >= cursor[D])
         => notified[note[D][i]] = "none" \/ Vain(note[D][i])
  /\ phase[D] = "marking" => cursor[D] <= Len(P!Batch(D)) + 1

\* Nor has what the current call handed over, unless its lookup failed.
GotInv ==
  call # NoCall /\ stage = "events" =>
    \A i \in call.got : notified[Current[i]] = "none" \/ <<call.target, Current[i]>> \in excused

\* Event f is with target n and its row is still to come.
OnTheWay(n, f) ==
  \/ phase[D] = "delivering" /\ n < cursor[D] /\ f \in P!Items(P!Batch(D))
  \/ /\ phase[D] = "marking"
     /\ \E i \in DOMAIN P!Batch(D) : i >= cursor[D] /\ P!Batch(D)[i] = f

\* Whatever a target has is excused, has a row, or is on its way to one.
Settled ==
  \A n \in Notifiers, f \in Fingerprints :
    <<n, f>> \in received => \/ <<n, f>> \in excused
                             \/ notified[f] # "none"
                             \/ OnTheWay(n, f)

\* No retention period ends in this module.
NeverExpired == \A f \in Fingerprints : notified[f] # "expired"

OnceInv ==
  /\ DInv
  /\ NamedOnce
  /\ NoteInv
  /\ GotInv
  /\ Settled
  /\ NeverExpired
  /\ OnceUnlessInterrupted

-----------------------------------------------------------------------------
\* The pipeline's lemmas apply.

\* Its assumption holds of the constants given to it.
LEMMA PipeAssumption ==
  /\ NumNotifiers \in Nat
  /\ Mode \in {"batch", "individual"}
  /\ ItemLists \subseteq Seq(PP!Item)
  /\ Faults \union {"read", "write", "notify", "lostack"} \subseteq PP!FaultKinds
<1>1. Faults \union {"read", "write", "notify", "lostack"} \subseteq PP!FaultKinds
  BY DeliveryAssumption DEF P!FaultKinds, PP!FaultKinds
<1>2. ItemLists \subseteq Seq(PP!Item)
  BY DeliveryAssumption DEF P!Item, PP!Item
<1>. QED  BY <1>1, <1>2, DeliveryAssumption

\* Both names mean the same types.
LEMMA SameTypes == (P!TypeOK <=> PP!TypeOK) /\ (P!TypeOK' <=> PP!TypeOK')
  BY DEF P!TypeOK, PP!TypeOK, P!Phases, PP!Phases, P!Item, PP!Item, P!Receipts,
         PP!Receipts, P!Notifiers, PP!Notifiers

\* Both names mean the same steps.
LEMMA SameSteps == [P!Next]_(P!vars) => [PP!Next]_(PP!vars)
<1>1. P!vars' = P!vars => PP!vars' = PP!vars
  BY DEF P!vars, PP!vars
<1>2. ASSUME NEW p \in {D}, P!Open(p) PROVE PP!Next
  BY <1>2, Zenon DEF P!Open, PP!Next, PP!Open
<1>3. ASSUME NEW p \in {D}, NEW items \in ItemLists, P!Begin(p, items) PROVE PP!Next
  BY <1>3, Zenon DEF P!Begin, PP!Next, PP!Begin
<1>4. ASSUME NEW p \in {D}, P!Cycle(p) PROVE PP!Next
  <2>1. PP!Cycle(p)
    BY <1>4, Zenon
    DEF P!Cycle, PP!Cycle, P!SkipUnwanted, PP!SkipUnwanted, P!SuppressNotified,
        PP!SuppressNotified, P!IncludeItem, PP!IncludeItem, P!FinishBuild, PP!FinishBuild,
        P!NotifyOK, PP!NotifyOK, P!NotifyFail, PP!NotifyFail, P!HandPart, PP!HandPart,
        P!Receive, PP!Receive, P!Items, PP!Items, P!HasTwice, PP!HasTwice, P!Batch, PP!Batch,
        P!Rest, PP!Rest, P!NextBatch, PP!NextBatch, P!EndDeliver, PP!EndDeliver,
        P!MarkItem, PP!MarkItem, P!MarkFail, PP!MarkFail, P!EndMark, PP!EndMark,
        P!Notifiers, PP!Notifiers
  <2>. QED  BY <2>1, Zenon DEF PP!Next
<1>5. ASSUME NEW p \in {D}, P!Stop(p) \/ P!Crash(p) PROVE PP!Next
  <2>1. PP!Stop(p) \/ PP!Crash(p)
    BY <1>5, Zenon
    DEF P!Stop, PP!Stop, P!Crash, PP!Crash, P!Die, PP!Die, P!HandPart, PP!HandPart,
        P!Receive, PP!Receive, P!Items, PP!Items, P!HasTwice, PP!HasTwice, P!Batch, PP!Batch,
        P!Notifiers, PP!Notifiers
  <2>. QED  BY <2>1, Zenon DEF PP!Next
<1>6. ASSUME NEW f \in Fingerprints, P!Expire(f) PROVE PP!Next
  BY <1>6, Zenon DEF P!Expire, PP!Next, PP!Expire
<1>7. P!Next => PP!Next
  BY <1>2, <1>3, <1>4, <1>5, <1>6, Zenon DEF P!Next
<1>. QED  BY <1>1, <1>7, Zenon

\* A step of the pipeline keeps its types.
LEMMA PipeTyped ==
  ASSUME P!TypeOK, [P!Next]_(P!vars)
  PROVE  P!TypeOK'
<1>1. PP!TypeOK /\ [PP!Next]_(PP!vars)
  BY SameTypes, SameSteps, Zenon
<1>2. PP!TypeOK'
  BY <1>1, PP!TypeStep, PipeAssumption
<1>. QED  BY <1>2, SameTypes, Zenon

-----------------------------------------------------------------------------
\* Every step is one of the pipeline's, or none of its business.

\* Both modules number the notifiers alike.
LEMMA SameNotifiers == P!Notifiers = Notifiers /\ Notifiers = 1..NumNotifiers /\ NumNotifiers \in Nat
  BY DeliveryAssumption DEF P!Notifiers, Notifiers

\* A call for events is the pipeline's current one.
LEMMA EventCall ==
  ASSUME CallInv, call # NoCall, stage = "events"
  PROVE  /\ phase[D] = "delivering" /\ call.target = cursor[D] /\ cursor[D] \in Notifiers
         /\ Current = P!Batch(D)
         /\ call.got \subseteq DOMAIN P!Batch(D)
         /\ ~call.failed /\ call.left = <<>> => call.got = DOMAIN P!Batch(D)
<1>1. /\ Delivering /\ call.target = Turn /\ Turn \in Notifiers
      /\ call.got \union Unsent \subseteq DOMAIN Current
      /\ ~call.failed => call.got \union Unsent = DOMAIN Current
  BY Zenon DEF CallInv
<1>2. Turn = cursor[D] /\ Current = P!Batch(D) /\ phase[D] = "delivering"
  BY <1>1 DEF Turn, Current, Delivering
<1>3. call.left = <<>> => Unsent = {}
  BY DEF Unsent
<1>4. call.got \subseteq DOMAIN P!Batch(D)
  BY <1>1, <1>2
<1>5. ASSUME ~call.failed, call.left = <<>> PROVE call.got = DOMAIN P!Batch(D)
  <2>1. call.got \union {} = DOMAIN P!Batch(D)
    BY <1>1, <1>2, <1>3, <1>5, Zenon
  <2>. QED  BY <2>1
<1>. QED  BY <1>1, <1>2, <1>4, <1>5, Zenon

\* When Notify returns, its target has the whole batch, or a part and an error.
LEMMA ReturnStep ==
  ASSUME P!TypeOK, call \in Calls, CallInv, EventsReturn
  PROVE  P!NotifyOK(D) \/ P!NotifyFail(D)
<1>. DEFINE b == P!Batch(D)
            part == [i \in call.got |-> b[i]]
<1>1. /\ Finished /\ stage = "events" /\ Receipts
      /\ delivered' = [delivered EXCEPT ![D] = @ \/ ~call.failed]
      /\ cursor' = [cursor EXCEPT ![D] = @ + 1]
      /\ UNCHANGED <<phase, todo, note, notified>>
  BY DEF EventsReturn
<1>2. call # NoCall /\ call.left = <<>>
  BY <1>1, Zenon DEF Finished
<1>3. /\ phase[D] = "delivering" /\ call.target = cursor[D] /\ cursor[D] \in P!Notifiers
      /\ Current = b /\ call.got \subseteq DOMAIN b
      /\ ~call.failed => call.got = DOMAIN b
  BY <1>1, <1>2, EventCall, SameNotifiers, Zenon
<1>4. P!Receive(cursor[D], part)
  BY <1>1, <1>3, Zenon DEF Receipts
<1>5. b \in Seq(Fingerprints)
  BY SameTypes, PP!BatchType, PipeAssumption DEF P!Batch, PP!Batch
<1>6. CASE call.failed = FALSE
  <2>1. call.got = DOMAIN b
    BY <1>3, <1>6
  <2>2. part = b
    BY <1>5, <2>1
  <2>3. delivered' = [delivered EXCEPT ![D] = TRUE]
    BY <1>1, <1>6
  <2>. QED  BY <1>1, <1>3, <1>4, <2>2, <2>3, Zenon DEF P!NotifyOK
<1>7. CASE call.failed = TRUE
  <2>1. delivered' = delivered
    BY <1>1, <1>7 DEF P!TypeOK
  <2>2. P!HandPart(D)
    BY <1>3, <1>4, Zenon DEF P!HandPart
  <2>. QED  BY <1>1, <2>1, <2>2, Zenon DEF P!NotifyFail
<1>8. call.failed \in BOOLEAN
  BY DEF Calls
<1>. QED  BY <1>6, <1>7, <1>8

\* Every step of the daemon is a step of the pipeline or leaves it alone.
LEMMA PipeStep ==
  ASSUME P!TypeOK, call \in Calls, Staged, CallInv, [DNext]_allVars
  PROVE  [P!Next]_(P!vars)
<1>0. D \in {D}
  OBVIOUS
<1>1. ASSUME P!Cycle(D) PROVE P!Next
  BY <1>0, <1>1, Zenon DEF P!Next
<1>2. ASSUME pipeVars' = pipeVars PROVE UNCHANGED P!vars
  BY <1>2 DEF pipeVars, P!vars
<1>3. CASE Start
  BY <1>0, <1>3, Zenon DEF Start, P!Next
<1>4. CASE BeginCycle
  BY <1>0, <1>4, Zenon DEF BeginCycle, P!Next
<1>5. CASE Build
  <2>1. P!Cycle(D)
    BY <1>5, Zenon DEF Build, P!Cycle
  <2>. QED  BY <1>1, <2>1, Zenon
<1>6. CASE EventsReturn
  <2>1. P!Cycle(D)
    BY <1>6, ReturnStep, Zenon DEF P!Cycle
  <2>. QED  BY <1>1, <2>1, Zenon
<1>7. CASE EndDeliver
  <2>1. P!Cycle(D)
    BY <1>7, Zenon DEF EndDeliver, P!Cycle
  <2>. QED  BY <1>1, <2>1, Zenon
<1>8. CASE Mark
  <2>1. P!Cycle(D)
    BY <1>8, Zenon DEF Mark, P!Cycle
  <2>. QED  BY <1>1, <2>1, Zenon
<1>9. CASE StartNotify \/ PostOK \/ PostFail \/ PostLimited \/ AlertsReturn \/ Detect \/ EndAlerts
  BY <1>2, <1>9
  DEF StartNotify, PostOK, PostFail, PostLimited, Posted, AlertsReturn, Detect, EndAlerts
<1>10. CASE Cancel
  BY <1>2, <1>10 DEF Cancel
<1>11. CASE Exit
  <2>1. P!Stop(D)
    BY <1>11, Zenon DEF Exit, Gone, Staged, P!Stop
  <2>. QED  BY <1>0, <2>1, Zenon DEF P!Next
<1>12. CASE Crash
  <2>1. P!Crash(D)
    BY <1>12, Zenon DEF Crash, Gone, P!Crash
  <2>. QED  BY <1>0, <2>1, Zenon DEF P!Next
<1>13. CASE UNCHANGED allVars
  BY <1>2, <1>13 DEF allVars
<1>. QED
  BY <1>3, <1>4, <1>5, <1>6, <1>7, <1>8, <1>9, <1>10, <1>11, <1>12, <1>13, Zenon
  DEF DNext, Cycle

-----------------------------------------------------------------------------
\* What most steps keep.

\* Steps that leave the tracker and the outage alerts alone.
LEMMA AlertsKept ==
  ASSUME DInv, UNCHANGED <<trackVars, alertVars>>,
         stage' = stage \/ (stage # "alerts" /\ stage' # "alerts"),
         \A n \in Notifiers, h \in Hosts : <<n, h>> \in missed => <<n, h>> \in missed'
  PROVE  IInv' /\ AlertsInv' /\ AlertedOnce' /\ OutagesTried'
<1>1. UNCHANGED <<consecutiveFailures, alreadyNotified, streak, alerts, alertNote, alertCursor, told>>
  BY DEF trackVars, alertVars
<1>2. IInv'
  BY <1>1 DEF DInv, IInv, TypeOK, CountsAgree, OneAlertPerOutage
<1>3. AlertsInv'
  BY <1>1 DEF DInv, AlertsInv
<1>4. AlertedOnce'
  BY <1>1 DEF DInv, AlertedOnce
<1>5. OutagesTried'
  BY <1>1 DEF DInv, OutagesTried
<1>. QED  BY <1>2, <1>3, <1>4, <1>5

\* Steps that end no target's turn without a receipt or a failure.
LEMMA EventsKept ==
  ASSUME EventsTried, received \subseteq received',
         \A n \in Notifiers, f \in Fingerprints :
           /\ <<n, f>> \in missed => <<n, f>> \in received' \union missed'
           /\ notified'[f] # "none" => notified[f] # "none" \/ TurnOver(n, f)
           /\ TurnOver(n, f)' => TurnOver(n, f)
  PROVE  EventsTried'
<1>. SUFFICES ASSUME NEW n \in Notifiers, NEW f \in Fingerprints,
                     notified'[f] # "none" \/ TurnOver(n, f)'
              PROVE  <<n, f>> \in received' \union missed'
  BY DEF EventsTried
<1>1. notified[f] # "none" \/ TurnOver(n, f)
  OBVIOUS
<1>2. <<n, f>> \in received \union missed
  BY <1>1 DEF EventsTried
<1>. QED  BY <1>2

\* A turn is only over while the batch is delivered or marked.
LEMMA TurnFacts ==
  ASSUME NEW n \in Notifiers, NEW f \in Fingerprints
  PROVE  /\ TurnOver(n, f) => phase[D] \in {"delivering", "marking"}
         /\ TurnOver(n, f)' =>
              /\ phase'[D] = "marking" \/ (phase'[D] = "delivering" /\ n < cursor'[D])
              /\ note' = note => f \in P!Items(P!Batch(D))
<1>1. note' = note => P!Items(P!Batch(D))' = P!Items(P!Batch(D))
  BY DEF P!Items, P!Batch
<1>. QED  BY <1>1 DEF TurnOver

\* Every tuple of a type.
LEMMA TypeRest ==
  ASSUME DInv, P!TypeOK', IInv', stage' \in {"wait", "events", "alerts"},
         alertNote' \in Seq(Hosts), alertCursor' \in Nat, call' \in Calls,
         cancelled' \in BOOLEAN, told' \in [Notifiers -> [Hosts -> Nat]],
         missed' \subseteq Notifiers \X (Fingerprints \union Hosts),
         excused' \subseteq Notifiers \X Fingerprints
  PROVE  DTypeOK'
  BY Zenon DEF DTypeOK, IInv

\* The parts of the type invariant.
LEMMA Types ==
  ASSUME DInv
  PROVE  /\ P!TypeOK /\ IInv /\ TypeOK
         /\ stage \in {"wait", "events", "alerts"}
         /\ alertNote \in Seq(Hosts) /\ alertCursor \in Nat /\ call \in Calls
         /\ cancelled \in BOOLEAN /\ told \in [Notifiers -> [Hosts -> Nat]]
         /\ missed \subseteq Notifiers \X (Fingerprints \union Hosts)
         /\ excused \subseteq Notifiers \X Fingerprints
         /\ Staged /\ CallInv /\ AlertsInv /\ AlertedOnce /\ OutagesTried /\ EventsTried
  BY Zenon DEF DInv, DTypeOK, IInv

\* Only a Notify call in progress counts on the notification.
LEMMA NoCallKept ==
  ASSUME call = NoCall, call' = call
  PROVE  CallInv'
  BY DEF CallInv, NoCall

\* Excusing events keeps the type.
LEMMA ExcuseType ==
  ASSUME excused \subseteq Notifiers \X Fingerprints, NEW N \in SUBSET Notifiers,
         NEW F \in SUBSET Fingerprints, Excuse(N, F)
  PROVE  excused' \subseteq Notifiers \X Fingerprints
  BY DEF Excuse

-----------------------------------------------------------------------------
\* The steps of the cycle outside a Notify call.

\* What is left to show of a step that changes the pipeline and the excuses.
LEMMA PipelineOnly ==
  ASSUME DInv, DNext, call = NoCall,
         UNCHANGED <<trackVars, alertVars, call, cancelled, missed>>,
         stage' = stage \/ (stage = "wait" /\ stage' = "events"),
         excused' \subseteq Notifiers \X Fingerprints,
         Staged', EventsTried'
  PROVE  DInv'
<1>1. /\ P!TypeOK /\ call \in Calls /\ Staged /\ CallInv
      /\ stage \in {"wait", "events", "alerts"}
      /\ alertNote \in Seq(Hosts) /\ alertCursor \in Nat
      /\ cancelled \in BOOLEAN /\ told \in [Notifiers -> [Hosts -> Nat]]
      /\ missed \subseteq Notifiers \X (Fingerprints \union Hosts)
  BY Types
<1>2. P!TypeOK'
  BY <1>1, PipeStep, PipeTyped
<1>3. stage' \in {"wait", "events", "alerts"}
  BY <1>1
<1>4. UNCHANGED <<alertNote, alertCursor, told>>
  BY DEF alertVars
<1>5. IInv' /\ AlertsInv' /\ AlertedOnce' /\ OutagesTried'
  BY AlertsKept
<1>6. DTypeOK'
  BY <1>1, <1>2, <1>3, <1>4, <1>5, TypeRest
<1>7. CallInv'
  BY NoCallKept
<1>. QED  BY <1>5, <1>6, <1>7 DEF DInv

\* Opening the store.
LEMMA StartInv == ASSUME DInv, Start PROVE DInv'
<1>1. /\ phase[D] = "down" /\ phase' = [phase EXCEPT ![D] = "idle"]
      /\ notified' = [f \in Fingerprints |-> IF notified[f] = "expired" THEN "none" ELSE notified[f]]
      /\ UNCHANGED <<todo, note, cursor, delivered, received, repeated>>
      /\ UNCHANGED <<targets, trackVars, stage, alertVars, call, cancelled, missed, excused>>
  BY DEF Start, P!Open
<1>2. P!TypeOK /\ Staged /\ CallInv /\ EventsTried /\ excused \subseteq Notifiers \X Fingerprints
  BY Types
<1>3. phase'[D] = "idle"
  BY <1>1, <1>2 DEF P!TypeOK
<1>4. Staged'
  BY <1>1, <1>2, <1>3 DEF Staged
<1>5. call = NoCall
  BY <1>1, <1>2 DEF CallInv, Delivering, Staged
<1>6. EventsTried'
  BY <1>1, <1>2, <1>3, TurnFacts, EventsKept
<1>. QED  BY <1>1, <1>2, <1>4, <1>5, <1>6, PipelineOnly, Zenon DEF DNext

\* A check hands its events over.
LEMMA BeginInv == ASSUME DInv, BeginCycle PROVE DInv'
<1>1. PICK items \in ItemLists : P!Begin(D, items)
  BY DEF BeginCycle
<1>2. /\ phase[D] = "idle" /\ phase' = [phase EXCEPT ![D] = "building"]
      /\ UNCHANGED <<note, cursor, delivered, notified, received, repeated>>
      /\ stage = "wait" /\ stage' = "events"
      /\ UNCHANGED <<targets, trackVars, alertVars, call, cancelled, missed, excused>>
  BY <1>1 DEF BeginCycle, P!Begin
<1>3. P!TypeOK /\ Staged /\ CallInv /\ EventsTried /\ excused \subseteq Notifiers \X Fingerprints
  BY Types
<1>4. phase'[D] = "building"
  BY <1>2, <1>3 DEF P!TypeOK
<1>5. Staged'
  BY <1>2, <1>3, <1>4 DEF Staged
<1>6. call = NoCall
  BY <1>2, <1>3 DEF CallInv, Delivering, Staged
<1>7. EventsTried'
  BY <1>2, <1>3, <1>4, TurnFacts, EventsKept
<1>. QED  BY <1>2, <1>3, <1>5, <1>6, <1>7, PipelineOnly, Zenon DEF DNext

\* BuildNotification.
LEMMA BuildInv == ASSUME DInv, Build, UNCHANGED targets PROVE DInv'
<1>1. P!TypeOK /\ Staged /\ CallInv /\ EventsTried /\ excused \subseteq Notifiers \X Fingerprints
  BY Types
<1>2. /\ phase[D] = "building" /\ UNCHANGED <<notified, received, repeated>>
      /\ phase'[D] = "building" \/ (phase'[D] = "idle" /\ note'[D] = <<>>)
           \/ (phase'[D] = "delivering" /\ cursor'[D] = 1)
  BY <1>1 DEF Build, P!SkipUnwanted, P!SuppressNotified, P!IncludeItem, P!FinishBuild, P!TypeOK
<1>3. UNCHANGED <<trackVars, stage, alertVars, call, cancelled, missed>>
  BY DEF Build
<1>4. excused' \subseteq Notifiers \X Fingerprints
  <2>1. CASE UNCHANGED excused
    BY <1>1, <2>1
  <2>2. CASE P!IncludeItem(D) /\ ~UNCHANGED excused
    <3>1. todo[D] # <<>> /\ todo[D] \in Seq(P!Item)
      BY <1>1, <2>2 DEF P!IncludeItem, P!TypeOK
    <3>2. Head(todo[D]) \in P!Item
      BY <3>1
    <3>3. {Head(todo[D]).fp} \in SUBSET Fingerprints
      BY <3>2 DEF P!Item
    <3>4. Excuse({n \in Notifiers : cancelled => targets[n] = "stdout"}, {Head(todo[D]).fp})
      BY <2>2, Zenon DEF Build
    <3>. QED  BY <1>1, <3>3, <3>4, ExcuseType
  <2>. QED  BY <2>1, <2>2 DEF Build
<1>5. Staged'
  BY <1>1, <1>2, <1>3 DEF Staged
<1>6. call = NoCall
  BY <1>1, <1>2 DEF CallInv, Delivering, Staged
<1>7. EventsTried'
  <2>1. ASSUME NEW n \in Notifiers, NEW f \in Fingerprints PROVE ~TurnOver(n, f)'
    BY <1>2, TurnFacts, SameNotifiers
  <2>. QED  BY <1>1, <1>2, <1>3, <2>1, EventsKept
<1>. QED  BY <1>3, <1>4, <1>5, <1>6, <1>7, PipelineOnly, Zenon DEF DNext, Cycle

\* The next batch starts with nobody's turn over.
LEMMA NextBatchFacts ==
  ASSUME P!TypeOK, P!NextBatch(D)
  PROVE  /\ note'[D] = P!Rest(D) /\ cursor'[D] = 1
         /\ phase'[D] = IF P!Rest(D) = <<>> THEN "idle" ELSE "delivering"
  BY DEF P!NextBatch, P!TypeOK

\* The current batch and the rest are made of fingerprints.
LEMMA BatchTypes ==
  ASSUME P!TypeOK
  PROVE  /\ P!Batch(D) \in Seq(Fingerprints) /\ P!Rest(D) \in Seq(Fingerprints)
         /\ P!Items(P!Batch(D)) \subseteq Fingerprints
<1>1. PP!TypeOK
  BY SameTypes
<1>2. PP!Batch(D) \in Seq(Fingerprints) /\ PP!Rest(D) \in Seq(Fingerprints)
      /\ PP!Items(PP!Batch(D)) \subseteq Fingerprints
  BY <1>1, PP!BatchType, PipeAssumption
<1>3. PP!Batch(D) = P!Batch(D) /\ PP!Rest(D) = P!Rest(D)
  BY DEF PP!Batch, P!Batch, PP!Rest, P!Rest
<1>4. PP!Items(PP!Batch(D)) = P!Items(P!Batch(D))
  BY <1>3, Zenon DEF PP!Items, P!Items
<1>. QED  BY <1>2, <1>3, <1>4, Zenon

\* Deliver's end.
LEMMA EndDeliverInv == ASSUME DInv, EndDeliver, UNCHANGED targets PROVE DInv'
<1>1. P!TypeOK /\ Staged /\ CallInv /\ EventsTried /\ excused \subseteq Notifiers \X Fingerprints
  BY Types
<1>2. /\ phase[D] = "delivering" /\ cursor[D] \notin Notifiers
      /\ UNCHANGED <<notified, received, trackVars, stage, alertVars, call, cancelled, missed>>
  BY SameNotifiers DEF EndDeliver, P!EndDeliver
<1>3. \/ phase'[D] = "marking" /\ note' = note
      \/ P!NextBatch(D)
  BY <1>1 DEF EndDeliver, P!EndDeliver, P!TypeOK
<1>4. cursor[D] > NumNotifiers /\ \A n \in Notifiers : n < cursor[D]
  <2>1. cursor[D] \in Nat \ {0}
    BY <1>1 DEF P!TypeOK
  <2>. QED  BY <1>2, <2>1, SameNotifiers
<1>5. excused' \subseteq Notifiers \X Fingerprints
  <2>1. (IF delivered[D] THEN {} ELSE P!Items(P!Batch(D))) \in SUBSET Fingerprints
    BY <1>1, BatchTypes
  <2>2. Excuse(Notifiers, IF delivered[D] THEN {} ELSE P!Items(P!Batch(D)))
    BY Zenon DEF EndDeliver
  <2>. QED  BY <1>1, <2>1, <2>2, ExcuseType
<1>6. Staged'
  BY <1>1, <1>2, <1>3, NextBatchFacts DEF Staged
<1>7. call = NoCall
  BY <1>1, <1>2 DEF CallInv, Delivering, Staged, Turn
<1>8. EventsTried'
  <2>1. ASSUME NEW n \in Notifiers, NEW f \in Fingerprints, TurnOver(n, f)'
        PROVE  TurnOver(n, f)
    <3>1. CASE phase'[D] = "marking" /\ note' = note
      BY <1>2, <1>4, <2>1, <3>1, TurnFacts DEF TurnOver
    <3>2. CASE P!NextBatch(D)
      BY <1>1, <2>1, <3>2, TurnFacts, NextBatchFacts, SameNotifiers
    <3>. QED  BY <1>3, <3>1, <3>2
  <2>. QED  BY <1>1, <1>2, <2>1, EventsKept
<1>. QED  BY <1>2, <1>5, <1>6, <1>7, <1>8, PipelineOnly, Zenon DEF DNext, Cycle

\* MarkDelivered.
LEMMA MarkInv == ASSUME DInv, Mark, UNCHANGED targets PROVE DInv'
<1>1. P!TypeOK /\ Staged /\ CallInv /\ EventsTried /\ excused \subseteq Notifiers \X Fingerprints
  BY Types
<1>2. /\ phase[D] = "marking"
      /\ UNCHANGED <<received, trackVars, stage, alertVars, call, cancelled, missed>>
  BY DEF Mark, P!MarkItem, P!MarkFail, P!EndMark
<1>3. \/ UNCHANGED <<phase, note>>
      \/ P!NextBatch(D)
  BY DEF Mark, P!MarkItem, P!MarkFail, P!EndMark
<1>4. \/ UNCHANGED notified
      \/ /\ cursor[D] \in DOMAIN P!Batch(D)
         /\ notified' = [notified EXCEPT ![P!Batch(D)[cursor[D]]] = "fresh"]
  BY DEF Mark, P!MarkItem, P!MarkFail, P!EndMark
<1>5. excused' \subseteq Notifiers \X Fingerprints
  <2>1. CASE UNCHANGED excused
    BY <1>1, <2>1
  <2>2. CASE P!MarkFail(D) /\ Excuse(Notifiers, {P!Batch(D)[cursor[D]]})
    <3>1. cursor[D] \in DOMAIN P!Batch(D) /\ P!Batch(D) \in Seq(Fingerprints)
      BY <1>1, <2>2, BatchTypes DEF P!MarkFail
    <3>2. {P!Batch(D)[cursor[D]]} \in SUBSET Fingerprints
      BY <3>1
    <3>. QED  BY <1>1, <2>2, <3>2, ExcuseType
  <2>. QED  BY <2>1, <2>2 DEF Mark
<1>6. Staged'
  BY <1>1, <1>2, <1>3, NextBatchFacts DEF Staged
<1>7. call = NoCall
  BY <1>1, <1>2 DEF CallInv, Delivering, Staged
<1>8. EventsTried'
  <2>1. ASSUME NEW n \in Notifiers, NEW f \in Fingerprints, TurnOver(n, f)'
        PROVE  TurnOver(n, f)
    <3>1. CASE UNCHANGED <<phase, note>>
      BY <1>2, <2>1, <3>1, TurnFacts DEF TurnOver
    <3>2. CASE P!NextBatch(D)
      BY <1>1, <2>1, <3>2, TurnFacts, NextBatchFacts, SameNotifiers
    <3>. QED  BY <1>3, <3>1, <3>2
  <2>2. ASSUME NEW n \in Notifiers, NEW f \in Fingerprints, notified'[f] # "none"
        PROVE  notified[f] # "none" \/ TurnOver(n, f)
    <3>1. CASE UNCHANGED notified
      BY <2>2, <3>1
    <3>2. CASE /\ cursor[D] \in DOMAIN P!Batch(D)
               /\ notified' = [notified EXCEPT ![P!Batch(D)[cursor[D]]] = "fresh"]
      <4>1. CASE f = P!Batch(D)[cursor[D]]
        BY <1>2, <3>2, <4>1 DEF TurnOver, P!Items
      <4>2. CASE f # P!Batch(D)[cursor[D]]
        BY <1>1, <2>2, <3>2, <4>2 DEF P!TypeOK
      <4>. QED  BY <4>1, <4>2
    <3>. QED  BY <1>4, <3>1, <3>2
  <2>. QED  BY <1>1, <1>2, <2>1, <2>2, EventsKept
<1>. QED  BY <1>2, <1>5, <1>6, <1>7, <1>8, PipelineOnly, Zenon DEF DNext, Cycle

-----------------------------------------------------------------------------
\* The steps of a Notify call.

\* What is left to show of a step inside a call.
LEMMA CallOnly ==
  ASSUME DInv, DNext,
         UNCHANGED <<pipeVars, trackVars, stage, alertVars, cancelled, missed, excused>>,
         call' \in Calls, CallInv'
  PROVE  DInv'
<1>1. /\ P!TypeOK /\ call \in Calls /\ Staged /\ CallInv /\ EventsTried
      /\ stage \in {"wait", "events", "alerts"}
      /\ alertNote \in Seq(Hosts) /\ alertCursor \in Nat
      /\ cancelled \in BOOLEAN /\ told \in [Notifiers -> [Hosts -> Nat]]
      /\ missed \subseteq Notifiers \X (Fingerprints \union Hosts)
      /\ excused \subseteq Notifiers \X Fingerprints
  BY Types
<1>2. P!TypeOK'
  BY <1>1, PipeStep, PipeTyped
<1>3. UNCHANGED <<alertNote, alertCursor, told, phase, note, cursor, notified, received>>
  BY DEF alertVars, pipeVars
<1>4. IInv' /\ AlertsInv' /\ AlertedOnce' /\ OutagesTried'
  BY AlertsKept
<1>5. DTypeOK'
  BY <1>1, <1>2, <1>3, <1>4, TypeRest
<1>6. Staged'
  BY <1>1, <1>3 DEF Staged
<1>7. EventsTried'
  <2>1. \A n \in Notifiers, f \in Fingerprints : TurnOver(n, f)' => TurnOver(n, f)
    BY <1>3, TurnFacts DEF TurnOver
  <2>. QED  BY <1>1, <1>3, <2>1, EventsKept
<1>. QED  BY <1>4, <1>5, <1>6, <1>7 DEF DInv

\* The notification and the turn stand still during a call.
LEMMA CallFrame ==
  ASSUME UNCHANGED <<pipeVars, stage, alertVars>>
  PROVE  Current' = Current /\ Turn' = Turn /\ (Delivering' <=> Delivering)
<1>1. UNCHANGED <<phase, note, cursor, alertNote, alertCursor>>
  BY DEF pipeVars, alertVars
<1>. QED  BY <1>1 DEF Current, Turn, Delivering, P!Batch

\* The current notification is a sequence.
LEMMA CurrentType ==
  ASSUME DInv
  PROVE  Current \in Seq(Fingerprints \union Hosts)
<1>1. alertNote \in Seq(Hosts) /\ P!Batch(D) \in Seq(Fingerprints)
  BY Types, BatchTypes
<1>2. alertNote \in Seq(Fingerprints \union Hosts) /\ P!Batch(D) \in Seq(Fingerprints \union Hosts)
  BY <1>1
<1>. QED  BY <1>2 DEF Current

\* A call's messages carry every position, whichever way the target splits.
LEMMA MessagesCarryAll ==
  ASSUME NEW S, NEW batch \in Seq(S), NEW type
  PROVE  LET left == Messages(type, batch)
         IN  /\ left \in Seq(SUBSET Nat)
             /\ UNION {left[i] : i \in DOMAIN left} = DOMAIN batch
<1>1. DOMAIN batch = 1..Len(batch) /\ Len(batch) \in Nat
  OBVIOUS
<1>2. CASE type \in PerItem
  <2>. DEFINE left == [i \in 1..Len(batch) |-> {i}]
  <2>1. Messages(type, batch) = left
    BY <1>1, <1>2 DEF Messages
  <2>2. left \in Seq(SUBSET Nat)
    BY <1>1
  <2>3. UNION {left[i] : i \in DOMAIN left} = 1..Len(batch)
    <3>1. \A i \in 1..Len(batch) : left[i] = {i}
      OBVIOUS
    <3>2. DOMAIN left = 1..Len(batch)
      OBVIOUS
    <3>. HIDE DEF left
    <3>. QED  BY <3>1, <3>2
  <2>. HIDE DEF left
  <2>. QED  BY <1>1, <2>1, <2>2, <2>3
<1>3. CASE type \notin PerItem
  <2>1. Messages(type, batch) = <<DOMAIN batch>>
    BY <1>3 DEF Messages
  <2>2. <<DOMAIN batch>> \in Seq(SUBSET Nat)
    BY <1>1
  <2>3. UNION {<<DOMAIN batch>>[i] : i \in DOMAIN <<DOMAIN batch>>} = DOMAIN batch
    <3>. DEFINE one == <<DOMAIN batch>>
    <3>1. DOMAIN one = {1} /\ one[1] = DOMAIN batch
      OBVIOUS
    <3>. HIDE DEF one
    <3>2. {one[i] : i \in DOMAIN one} = {DOMAIN batch}
      BY <3>1
    <3>3. UNION {DOMAIN batch} = DOMAIN batch
      OBVIOUS
    <3>. QED  BY <3>2, <3>3, Zenon DEF one
  <2>. QED  BY <2>1, <2>2, <2>3
<1>. QED  BY <1>2, <1>3

\* Deliver calls a notifier.
LEMMA StartNotifyInv == ASSUME DInv, StartNotify, UNCHANGED targets PROVE DInv'
<1>. DEFINE left == Messages(targets[Turn], Current)
<1>1. /\ Delivering /\ call = NoCall /\ Turn \in Notifiers
      /\ call' = [NoCall EXCEPT !.target = Turn, !.left = left]
      /\ UNCHANGED <<pipeVars, trackVars, stage, alertVars, cancelled, missed, excused>>
  BY DEF StartNotify
<1>2. left \in Seq(SUBSET Nat) /\ UNION {left[i] : i \in DOMAIN left} = DOMAIN Current
  BY CurrentType, MessagesCarryAll
<1>. HIDE DEF left
<1>3. /\ call'.target = Turn /\ call'.left = left /\ call'.attempt = 1
      /\ call'.failed = FALSE /\ call'.got = {}
      /\ call' = [target |-> Turn, left |-> left, attempt |-> 1, failed |-> FALSE, got |-> {}]
  BY <1>1 DEF NoCall
<1>4. call' \in Calls
  <2>1. 1 \in 1..MaxAttempts
    BY DEF MaxAttempts
  <2>. QED  BY <1>1, <1>2, <1>3, <2>1 DEF Calls
<1>5. Unsent' = DOMAIN Current
  BY <1>2, <1>3 DEF Unsent
<1>6. CallInv'
  <2>1. Current' = Current /\ Turn' = Turn /\ Delivering'
    BY <1>1, CallFrame
  <2>2. call'.got \union Unsent' = DOMAIN Current'
    BY <1>3, <1>5, <2>1
  <2>. QED  BY <1>1, <1>3, <2>1, <2>2 DEF CallInv
<1>. QED  BY <1>1, <1>4, <1>6, CallOnly, Zenon DEF DNext, Cycle

\* A sequence of sets is its first set and the others.
LEMMA HeadAndTail ==
  ASSUME NEW S, NEW s \in Seq(S), s # <<>>
  PROVE  /\ Head(s) \in S /\ Tail(s) \in Seq(S)
         /\ UNION {s[i] : i \in DOMAIN s}
              = Head(s) \union (UNION {Tail(s)[i] : i \in DOMAIN Tail(s)})
<1>1. /\ DOMAIN s = 1..Len(s) /\ Len(s) \in Nat /\ Len(s) > 0 /\ Head(s) = s[1]
      /\ Tail(s) \in Seq(S) /\ Len(Tail(s)) = Len(s) - 1
      /\ DOMAIN Tail(s) = 1..(Len(s) - 1)
      /\ \A i \in 1..(Len(s) - 1) : Tail(s)[i] = s[i + 1]
  OBVIOUS
<1>. DEFINE t == Tail(s)
            n == Len(s)
<1>. HIDE DEF t, n
<1>2. /\ DOMAIN s = 1..n /\ n \in Nat /\ n > 0 /\ DOMAIN t = 1..(n - 1)
      /\ \A i \in 1..(n - 1) : t[i] = s[i + 1]
  BY <1>1 DEF t, n
<1>3. \A i \in 1..n : i = 1 \/ (i - 1 \in 1..(n - 1) /\ s[i] = t[i - 1])
  BY <1>2
<1>4. \A i \in 1..(n - 1) : i + 1 \in 1..n
  BY <1>2
<1>5. 1 \in 1..n
  BY <1>2
<1>6. ASSUME NEW x PROVE x \in UNION {s[i] : i \in DOMAIN s}
                           <=> x \in s[1] \union (UNION {t[i] : i \in DOMAIN t})
  <2>1. x \in UNION {s[i] : i \in DOMAIN s} <=> \E i \in 1..n : x \in s[i]
    BY <1>2, Zenon
  <2>2. x \in UNION {t[i] : i \in DOMAIN t} <=> \E i \in 1..(n - 1) : x \in t[i]
    BY <1>2, Zenon
  <2>3. (\E i \in 1..n : x \in s[i]) <=> x \in s[1] \/ \E i \in 1..(n - 1) : x \in t[i]
    BY <1>2, <1>3, <1>4, <1>5, Zenon
  <2>. QED  BY <2>1, <2>2, <2>3, Zenon
<1>7. UNION {s[i] : i \in DOMAIN s} = s[1] \union (UNION {t[i] : i \in DOMAIN t})
  BY <1>6, Zenon
<1>8. Head(s) \in S
  BY <1>1
<1>. QED  BY <1>1, <1>7, <1>8, Zenon DEF t

\* A post that was answered leaves nothing behind; a failed one may.
LEMMA PostedInv ==
  ASSUME DInv, DNext, UNCHANGED targets, call.left # <<>>, NEW failed \in BOOLEAN,
         NEW got \in SUBSET Head(call.left), ~failed => got = Head(call.left),
         Posted(got, failed)
  PROVE  DInv'
<1>. DEFINE left == IF failed /\ targets[call.target] = "stdout" THEN <<>> ELSE Tail(call.left)
            rest == UNION {left[i] : i \in DOMAIN left}
<1>1. call \in Calls /\ CallInv
  BY Types
<1>2. call # NoCall
  BY DEF NoCall
<1>3. /\ Delivering /\ call.target = Turn /\ Turn \in Notifiers
      /\ call.got \union Unsent \subseteq DOMAIN Current
      /\ ~call.failed => call.got \union Unsent = DOMAIN Current
  BY <1>1, <1>2, Zenon DEF CallInv
<1>4. /\ call.left \in Seq(SUBSET Nat) /\ call.got \in SUBSET Nat
      /\ call.target \in Notifiers \union {0} /\ call.failed \in BOOLEAN
      /\ call.attempt \in 1..MaxAttempts
      /\ call = [target |-> call.target, left |-> call.left, attempt |-> call.attempt,
                 failed |-> call.failed, got |-> call.got]
  BY <1>1 DEF Calls
<1>5. /\ Head(call.left) \in SUBSET Nat /\ Tail(call.left) \in Seq(SUBSET Nat)
      /\ Unsent = Head(call.left) \union (UNION {Tail(call.left)[i] : i \in DOMAIN Tail(call.left)})
  BY <1>4, HeadAndTail DEF Unsent
<1>6. /\ call' = [call EXCEPT !.left = left, !.attempt = 1,
                              !.got = @ \union got, !.failed = @ \/ failed]
      /\ UNCHANGED <<pipeVars, trackVars, stage, alertVars, cancelled, missed, excused>>
  BY DEF Posted
<1>7. left \in Seq(SUBSET Nat)
  BY <1>5
<1>8. rest \subseteq Unsent /\ (~failed => Unsent = got \union rest)
  <2>1. CASE failed /\ targets[call.target] = "stdout"
    <3>1. left = <<>>
      BY <2>1
    <3>2. rest = {}
      BY <3>1
    <3>. QED  BY <2>1, <3>2
  <2>2. CASE ~(failed /\ targets[call.target] = "stdout")
    <3>1. left = Tail(call.left)
      BY <2>2
    <3>2. Unsent = Head(call.left) \union rest
      BY <1>5, <3>1, Zenon
    <3>. HIDE DEF rest, left
    <3>. QED  BY <3>2
  <2>. QED  BY <2>1, <2>2
<1>. HIDE DEF left
<1>9. call' = [target |-> call.target, left |-> left, attempt |-> 1,
               failed |-> call.failed \/ failed, got |-> call.got \union got]
  BY <1>4, <1>6
<1>10. /\ call'.target = call.target /\ call'.left = left
       /\ call'.got = call.got \union got
  BY <1>9
<1>11. call'.failed = (call.failed \/ failed)
  BY <1>9, Zenon
<1>12. call' \in Calls
  <2>1. 1 \in 1..MaxAttempts
    BY DEF MaxAttempts
  <2>2. call.got \union got \in SUBSET Nat
    BY <1>4, <1>5
  <2>3. (call.failed \/ failed) \in BOOLEAN
    BY <1>4
  <2>. DEFINE f == call.failed \/ failed
  <2>. HIDE DEF f
  <2>. QED  BY <1>4, <1>7, <1>9, <2>1, <2>2, <2>3 DEF Calls, f
<1>13. Unsent' = rest
  BY <1>10 DEF Unsent
<1>. HIDE DEF rest
<1>14. CallInv'
  <2>1. Current' = Current /\ Turn' = Turn /\ Delivering'
    BY <1>3, <1>6, CallFrame
  <2>2. got \subseteq Unsent
    BY <1>5
  <2>3. call'.got \union Unsent' \subseteq DOMAIN Current'
    BY <1>3, <1>8, <1>10, <1>13, <2>1, <2>2
  <2>4. ASSUME ~call'.failed PROVE call'.got \union Unsent' = DOMAIN Current'
    <3>1. ~call.failed /\ ~failed
      BY <1>11, <2>4, Zenon
    <3>. QED  BY <1>3, <1>8, <1>10, <1>13, <2>1, <3>1
  <2>. QED  BY <1>3, <1>10, <2>1, <2>3, <2>4 DEF CallInv
<1>. QED  BY <1>6, <1>12, <1>14, CallOnly, Zenon

\* The posts.
LEMMA PostInv ==
  ASSUME DInv, DNext, UNCHANGED targets, PostOK \/ PostFail \/ PostLimited
  PROVE  DInv'
<1>1. TRUE \in BOOLEAN /\ FALSE \in BOOLEAN
  OBVIOUS
<1>2. /\ Head(call.left) \in SUBSET Head(call.left)
      /\ {} \in SUBSET Head(call.left)
  OBVIOUS
<1>3. CASE PostOK
  BY <1>1, <1>2, <1>3, PostedInv, Zenon DEF PostOK
<1>4. CASE PostFail
  BY <1>1, <1>2, <1>4, PostedInv, Zenon DEF PostFail
<1>5. CASE PostLimited /\ Posted({}, TRUE)
  BY <1>1, <1>2, <1>5, PostedInv, Zenon DEF PostLimited
<1>6. CASE PostLimited /\ ~Posted({}, TRUE)
  <2>1. /\ call.left # <<>> /\ call.attempt < MaxAttempts
        /\ call' = [call EXCEPT !.attempt = @ + 1]
        /\ UNCHANGED <<pipeVars, trackVars, stage, alertVars, cancelled, missed, excused>>
    BY <1>6 DEF PostLimited
  <2>2. call \in Calls /\ CallInv
    BY Types
  <2>3. /\ call' \in Calls
        /\ call'.target = call.target /\ call'.left = call.left /\ call'.got = call.got
    BY <2>1, <2>2 DEF Calls, MaxAttempts
  <2>4. call'.failed = call.failed
    BY <2>1, <2>2 DEF Calls
  <2>5. Unsent' = Unsent
    BY <2>3 DEF Unsent
  <2>6. call # NoCall
    BY <2>1 DEF NoCall
  <2>7. Current' = Current /\ Turn' = Turn /\ (Delivering' <=> Delivering)
    BY <2>1, CallFrame
  <2>8. CallInv'
    BY <2>2, <2>3, <2>4, <2>5, <2>6, <2>7, Zenon DEF CallInv
  <2>. QED  BY <2>1, <2>3, <2>8, CallOnly, Zenon
<1>. QED  BY <1>3, <1>4, <1>5, <1>6

\* Registries are not events.
LEMMA Disjoint ==
  ASSUME NEW h \in Hosts
  PROVE  h \notin Fingerprints
  BY DeliveryAssumption

\* Notify returns: the batch is with the target, or noted as missed.
LEMMA EventsReturnInv == ASSUME DInv, EventsReturn, UNCHANGED targets PROVE DInv'
<1>. DEFINE b == P!Batch(D)
            n0 == cursor[D]
            part == [i \in call.got |-> b[i]]
<1>1. /\ P!TypeOK /\ call \in Calls /\ Staged /\ CallInv /\ EventsTried
      /\ stage \in {"wait", "events", "alerts"}
      /\ alertNote \in Seq(Hosts) /\ alertCursor \in Nat
      /\ cancelled \in BOOLEAN /\ told \in [Notifiers -> [Hosts -> Nat]]
      /\ missed \subseteq Notifiers \X (Fingerprints \union Hosts)
      /\ excused \subseteq Notifiers \X Fingerprints
  BY Types
<1>2. DNext
  BY DEF DNext, Cycle
<1>3. P!TypeOK'
  BY <1>1, <1>2, PipeStep, PipeTyped
<1>4. /\ Finished /\ stage = "events" /\ Receipts /\ call' = NoCall
      /\ cursor' = [cursor EXCEPT ![D] = @ + 1]
      /\ missed' = (missed \union NotGot) \ received'
      /\ UNCHANGED <<phase, todo, note, notified, trackVars, stage, alertVars, cancelled, excused>>
  BY DEF EventsReturn
<1>5. /\ phase[D] = "delivering" /\ call.target = n0 /\ n0 \in Notifiers
      /\ Current = b /\ call.got \subseteq DOMAIN b
  BY <1>1, <1>4, EventCall, Zenon DEF Finished
<1>6. b \in Seq(Fingerprints)
  BY <1>1, BatchTypes
<1>7. received' = received \union ({n0} \X P!Items(part))
  BY <1>4, <1>5, Zenon DEF Receipts, P!Receive
<1>8. NotGot = {n0} \X {b[i] : i \in DOMAIN b \ call.got}
  BY <1>5, Zenon DEF NotGot
<1>. HIDE DEF b
<1>9. P!Items(part) = {b[i] : i \in call.got}
  BY DEF P!Items
<1>. HIDE DEF n0, part
<1>10. ASSUME NEW f \in P!Items(b) PROVE <<n0, f>> \in received' \union missed'
  <2>1. PICK i \in DOMAIN b : f = b[i]
    BY <1>10 DEF P!Items
  <2>. QED  BY <1>4, <1>7, <1>8, <1>9, <2>1
<1>11. received \subseteq received' /\ received' \subseteq Notifiers \X Fingerprints
  BY <1>3, <1>7, SameNotifiers DEF P!TypeOK, P!Receipts
<1>12. \A n \in Notifiers, h \in Hosts : <<n, h>> \in missed => <<n, h>> \in missed'
  BY <1>4, <1>11, Disjoint
<1>13. EventsTried'
  <2>. SUFFICES ASSUME NEW n \in Notifiers, NEW f \in Fingerprints,
                       notified'[f] # "none" \/ TurnOver(n, f)'
                PROVE  <<n, f>> \in received' \union missed'
    BY DEF EventsTried
  <2>1. CASE notified'[f] # "none" \/ TurnOver(n, f)
    <3>1. <<n, f>> \in received \union missed
      BY <1>1, <1>4, <2>1 DEF EventsTried
    <3>. QED  BY <1>4, <1>11, <3>1
  <2>2. CASE TurnOver(n, f)' /\ ~TurnOver(n, f)
    <3>1. n < n0 + 1 /\ f \in P!Items(b) /\ ~(n < n0)
      BY <1>1, <1>4, <1>5, <2>2, TurnFacts DEF TurnOver, P!TypeOK, b, n0
    <3>2. n = n0
      BY <1>5, <3>1, SameNotifiers
    <3>. QED  BY <1>10, <3>1, <3>2
  <2>. QED  BY <2>1, <2>2
<1>14. IInv' /\ AlertsInv' /\ AlertedOnce' /\ OutagesTried'
  BY <1>4, <1>12, AlertsKept
<1>15. CallInv'
  BY <1>4 DEF CallInv, NoCall
<1>16. Staged'
  BY <1>1, <1>4 DEF Staged
<1>17. DTypeOK'
  <2>1. missed' \subseteq Notifiers \X (Fingerprints \union Hosts)
    <3>1. {b[i] : i \in DOMAIN b \ call.got} \subseteq Fingerprints
      BY <1>6
    <3>. QED  BY <1>1, <1>4, <1>5, <1>8, <3>1
  <2>2. call' \in Calls
    BY <1>4 DEF NoCall, Calls, MaxAttempts
  <2>3. UNCHANGED <<alertNote, alertCursor, told>>
    BY <1>4 DEF alertVars
  <2>. QED  BY <1>1, <1>3, <1>4, <1>14, <2>1, <2>2, <2>3, TypeRest
<1>. QED  BY <1>13, <1>14, <1>15, <1>16, <1>17 DEF DInv

\* Notify returns from an outage alert.
LEMMA AlertsReturnInv == ASSUME DInv, AlertsReturn, UNCHANGED targets PROVE DInv'
<1>. DEFINE c == alertCursor
            Times(h) == Cardinality({i \in call.got : alertNote[i] = h})
<1>1. /\ P!TypeOK /\ call \in Calls /\ Staged /\ CallInv /\ EventsTried
      /\ stage \in {"wait", "events", "alerts"}
      /\ alertNote \in Seq(Hosts) /\ alertCursor \in Nat
      /\ cancelled \in BOOLEAN /\ told \in [Notifiers -> [Hosts -> Nat]]
      /\ missed \subseteq Notifiers \X (Fingerprints \union Hosts)
      /\ excused \subseteq Notifiers \X Fingerprints
      /\ IInv /\ AlertsInv /\ AlertedOnce /\ OutagesTried
  BY Types
<1>2. DNext
  BY DEF DNext, Cycle
<1>3. P!TypeOK'
  BY <1>1, <1>2, PipeStep, PipeTyped
<1>4. /\ Finished /\ stage = "alerts" /\ call' = NoCall
      /\ told' = [told EXCEPT ![call.target] = [h \in Hosts |-> @[h] + Times(h)]]
      /\ alertCursor' = c + 1
      /\ missed' = missed \union NotGot
      /\ UNCHANGED <<pipeVars, trackVars, stage, alertNote, cancelled, excused>>
  BY DEF AlertsReturn
<1>5. /\ call.target = c /\ c \in Notifiers
      /\ Current = alertNote /\ call.got \subseteq DOMAIN alertNote
  <2>1. call # NoCall
    BY <1>4, Zenon DEF Finished
  <2>2. /\ call.target = Turn /\ Turn \in Notifiers
        /\ call.got \union Unsent \subseteq DOMAIN Current
    BY <1>1, <2>1, Zenon DEF CallInv
  <2>3. Turn = c /\ Current = alertNote
    BY <1>4 DEF Turn, Current
  <2>. QED  BY <2>2, <2>3
<1>6. NotGot = {c} \X {alertNote[i] : i \in DOMAIN alertNote \ call.got}
  BY <1>5, Zenon DEF NotGot
<1>7. \A i, j \in DOMAIN alertNote : alertNote[i] = alertNote[j] => i = j
  BY <1>1 DEF AlertsInv
<1>8. ASSUME NEW h \in Hosts
      PROVE  Times(h) \in {0, 1} /\ (Times(h) = 1 <=> \E i \in call.got : alertNote[i] = h)
  <2>1. \A i, j \in call.got : alertNote[i] = alertNote[j] => i = j
    BY <1>5, <1>7
  <2>. DEFINE S == {i \in call.got : alertNote[i] = h}
  <2>2. CASE \E i \in call.got : alertNote[i] = h
    <3>1. PICK i \in call.got : alertNote[i] = h
      BY <2>2
    <3>2. S = {i}
      BY <2>1, <3>1
    <3>3. Cardinality(S) = 1
      BY <3>2, FS_Singleton
    <3>. HIDE DEF S
    <3>4. Times(h) = Cardinality(S)
      BY Zenon DEF S
    <3>. QED  BY <2>2, <3>3, <3>4
  <2>3. CASE ~\E i \in call.got : alertNote[i] = h
    <3>1. S = {}
      BY <2>3
    <3>2. Cardinality(S) = 0
      BY <3>1, FS_EmptySet
    <3>. HIDE DEF S
    <3>3. Times(h) = Cardinality(S)
      BY Zenon DEF S
    <3>. QED  BY <2>3, <3>2, <3>3
  <2>. QED  BY <2>2, <2>3, Zenon
<1>. HIDE DEF Times, c
<1>9. told' \in [Notifiers -> [Hosts -> Nat]]
  <2>1. [h \in Hosts |-> told[c][h] + Times(h)] \in [Hosts -> Nat]
    <3>1. \A h \in Hosts : told[c][h] \in Nat
      BY <1>1, <1>5
    <3>2. ASSUME NEW h \in Hosts PROVE Times(h) \in Nat
      BY <1>8
    <3>. QED  BY <3>1, <3>2
  <2>. QED  BY <1>1, <1>4, <1>5, <2>1
<1>10. ASSUME NEW n \in Notifiers, NEW h \in Hosts
       PROVE  told'[n][h] = IF n = c THEN told[n][h] + Times(h) ELSE told[n][h]
  BY <1>1, <1>4, <1>5
<1>11. UNCHANGED <<consecutiveFailures, alreadyNotified, streak, alerts>>
  BY <1>4 DEF trackVars
<1>12. IInv'
  BY <1>1, <1>11 DEF IInv, TypeOK, CountsAgree, OneAlertPerOutage
<1>13. \A n \in Notifiers, h \in Hosts : told[n][h] \in Nat /\ alerts[h] \in Nat
  BY <1>1 DEF IInv, TypeOK
<1>14. \A i \in DOMAIN alertNote : alertNote[i] \in Hosts
  BY <1>1
<1>15. c \in Nat
  BY <1>5, SameNotifiers
<1>16. AlertsInv'
  <2>1. \A i \in DOMAIN alertNote : \A n \in Notifiers : n >= c + 1 => told'[n][alertNote[i]] = 0
    <3>. SUFFICES ASSUME NEW i \in DOMAIN alertNote, NEW n \in Notifiers, n >= c + 1
                  PROVE  told'[n][alertNote[i]] = 0
      OBVIOUS
    <3>1. n >= c /\ n # c
      BY <1>15, SameNotifiers
    <3>2. told[n][alertNote[i]] = 0
      BY <1>1, <3>1 DEF AlertsInv, c
    <3>. QED  BY <1>10, <1>14, <3>1, <3>2
  <2>. QED  BY <1>1, <1>4, <1>11, <1>15, <2>1 DEF AlertsInv
<1>17. AlertedOnce'
  <2>. SUFFICES ASSUME NEW n \in Notifiers, NEW h \in Hosts PROVE told'[n][h] <= alerts[h]
    BY <1>11 DEF AlertedOnce
  <2>1. told[n][h] <= alerts[h]
    BY <1>1 DEF AlertedOnce
  <2>2. CASE n = c /\ Times(h) = 1
    <3>1. PICK i \in DOMAIN alertNote : alertNote[i] = h
      BY <1>5, <1>8, <2>2
    <3>2. alerts[h] = 1 /\ told[n][h] = 0
      BY <1>1, <1>15, <2>2, <3>1 DEF AlertsInv, c
    <3>. QED  BY <1>10, <2>2, <3>2
  <2>3. CASE ~(n = c /\ Times(h) = 1)
    <3>1. told'[n][h] = told[n][h]
      BY <1>8, <1>10, <1>13, <2>3
    <3>. QED  BY <2>1, <3>1
  <2>. QED  BY <2>2, <2>3
<1>18. OutagesTried'
  <2>. SUFFICES ASSUME NEW n \in Notifiers, NEW h \in Hosts, alerts[h] > 0
                PROVE  \/ told'[n][h] > 0
                       \/ <<n, h>> \in missed'
                       \/ n >= c + 1 /\ \E i \in DOMAIN alertNote : alertNote[i] = h
    BY <1>4, <1>11 DEF OutagesTried
  <2>1. CASE told[n][h] > 0
    <3>1. told'[n][h] >= told[n][h]
      BY <1>8, <1>10, <1>13
    <3>. QED  BY <1>8, <1>10, <1>13, <2>1, <3>1
  <2>2. CASE <<n, h>> \in missed
    BY <1>4, <2>2
  <2>3. CASE n >= c /\ \E i \in DOMAIN alertNote : alertNote[i] = h
    <3>1. PICK i \in DOMAIN alertNote : alertNote[i] = h
      BY <2>3
    <3>2. CASE n # c
      BY <1>15, <2>3, <3>2, SameNotifiers
    <3>3. CASE n = c /\ i \in call.got
      <4>1. Times(h) = 1
        BY <1>8, <3>1, <3>3
      <4>. QED  BY <1>10, <1>13, <3>3, <4>1
    <3>4. CASE n = c /\ i \notin call.got
      BY <1>4, <1>6, <3>1, <3>4
    <3>. QED  BY <3>2, <3>3, <3>4
  <2>. QED  BY <1>1, <2>1, <2>2, <2>3 DEF OutagesTried, c
<1>19. UNCHANGED <<phase, todo, note, cursor, notified, received>>
  BY <1>4 DEF pipeVars
<1>20. EventsTried'
  <2>1. \A n \in Notifiers, f \in Fingerprints : TurnOver(n, f)' => TurnOver(n, f)
    BY <1>19, TurnFacts DEF TurnOver
  <2>. QED  BY <1>1, <1>4, <1>19, <2>1, EventsKept
<1>21. CallInv' /\ Staged'
  BY <1>1, <1>4, <1>19 DEF CallInv, NoCall, Staged
<1>22. DTypeOK'
  <2>1. missed' \subseteq Notifiers \X (Fingerprints \union Hosts)
    <3>1. {alertNote[i] : i \in DOMAIN alertNote \ call.got} \subseteq Hosts
      BY <1>14
    <3>. QED  BY <1>1, <1>4, <1>5, <1>6, <3>1
  <2>2. call' \in Calls
    BY <1>4 DEF NoCall, Calls, MaxAttempts
  <2>3. alertCursor' \in Nat
    BY <1>4, <1>15
  <2>. QED  BY <1>1, <1>3, <1>4, <1>9, <1>12, <2>1, <2>2, <2>3, TypeRest
<1>. QED  BY <1>12, <1>16, <1>17, <1>18, <1>20, <1>21, <1>22 DEF DInv

-----------------------------------------------------------------------------
\* The outage alerts.

\* Whatever the order of the map, the alert names every raised registry once.
LEMMA OrderFacts ==
  ASSUME NEW R, IsFiniteSet(R), NEW s \in SetToSeqs(R)
  PROVE  /\ s \in Seq(R) /\ IsFiniteSet(DOMAIN s)
         /\ \A i, j \in DOMAIN s : s[i] = s[j] => i = j
         /\ \A h \in R : \E i \in DOMAIN s : s[i] = h
         /\ R = {} => s = <<>>
<1>. DEFINE n == Cardinality(R)
<1>1. n \in Nat
  BY FS_CardinalityType
<1>2. s \in [1..n -> R] /\ \A i, j \in 1..n : i # j => s[i] # s[j]
  BY DEF SetToSeqs
<1>3. IsFiniteSet(1..n) /\ Cardinality(1..n) = n
  <2>1. 1 \in Int /\ n \in Int
    BY <1>1
  <2>2. IsFiniteSet(1..n) /\ Cardinality(1..n) = IF 1 > n THEN 0 ELSE n - 1 + 1
    BY <2>1, FS_Interval, Zenon
  <2>. HIDE DEF n
  <2>. QED  BY <1>1, <2>2
<1>4. s \in Surjection(1..n, R)
  <2>1. s \in Injection(1..n, R)
    BY <1>2 DEF Injection, IsInjective
  <2>2. Cardinality(1..n) = Cardinality(R) <=> s \in Surjection(1..n, R)
    BY <2>1, FS_Injection, Zenon
  <2>. QED  BY <1>3, <2>2, Zenon
<1>5. \A h \in R : \E i \in 1..n : s[i] = h
  BY <1>4 DEF Surjection
<1>6. R = {} => n = 0
  BY FS_EmptySet
<1>. HIDE DEF n
<1>7. s \in Seq(R)
  BY <1>1, <1>2
<1>8. DOMAIN s = 1..n
  BY <1>2
<1>9. R = {} => s = <<>>
  BY <1>1, <1>6, <1>7, <1>8
<1>. QED  BY <1>2, <1>3, <1>5, <1>7, <1>8, <1>9, Zenon

\* The results are searched for outages.
LEMMA DetectInv == ASSUME DInv, Detect, UNCHANGED targets PROVE DInv'
<1>1. /\ P!TypeOK /\ call \in Calls /\ Staged /\ CallInv /\ EventsTried
      /\ cancelled \in BOOLEAN /\ told \in [Notifiers -> [Hosts -> Nat]]
      /\ missed \subseteq Notifiers \X (Fingerprints \union Hosts)
      /\ excused \subseteq Notifiers \X Fingerprints
      /\ IInv /\ AlertsInv /\ AlertedOnce /\ OutagesTried
  BY Types
<1>2. DNext
  BY DEF DNext, Cycle
<1>3. P!TypeOK'
  BY <1>1, <1>2, PipeStep, PipeTyped
<1>4. PICK byHost \in [Hosts -> Group] :
         /\ DetectOutages(byHost)
         /\ alertNote' \in SetToSeqs(Raised(byHost))
         /\ stage' = IF Raised(byHost) = {} THEN "wait" ELSE "alerts"
         /\ told' = [n \in Notifiers |->
                       [h \in Hosts |-> IF "ok" \in byHost[h] THEN 0 ELSE told[n][h]]]
         /\ missed' = missed \ (Notifiers \X {h \in Hosts : "ok" \in byHost[h]})
  BY DEF Detect
<1>5. /\ stage = "events" /\ phase[D] = "idle" /\ alertCursor' = 1
      /\ UNCHANGED <<pipeVars, call, cancelled, excused>>
  BY DEF Detect
<1>. DEFINE R == Raised(byHost)
            ok(h) == "ok" \in byHost[h]
<1>6. IInv'
  BY <1>1, <1>4, CycleIInv
<1>7. R \subseteq Hosts /\ IsFiniteSet(R)
  <2>1. R \subseteq Hosts
    BY DEF Raised, Failed
  <2>. HIDE DEF R
  <2>. QED  BY <2>1, DeliveryAssumption, FS_Subset
<1>. HIDE DEF R
<1>8. /\ alertNote' \in Seq(R) /\ IsFiniteSet(DOMAIN alertNote')
      /\ \A i, j \in DOMAIN alertNote' : alertNote'[i] = alertNote'[j] => i = j
      /\ \A h \in R : \E i \in DOMAIN alertNote' : alertNote'[i] = h
      /\ R = {} => alertNote' = <<>>
  BY <1>4, <1>7, OrderFacts, Zenon DEF R
<1>9. \A i \in DOMAIN alertNote' : alertNote'[i] \in R
  BY <1>8
<1>10. ASSUME NEW h \in Hosts
       PROVE  alerts'[h] = (IF ok(h) THEN 0 ELSE alerts[h]) + (IF h \in R THEN 1 ELSE 0)
  BY <1>4 DEF DetectOutages, R
<1>11. ASSUME NEW n \in Notifiers, NEW h \in Hosts
       PROVE  told'[n][h] = IF ok(h) THEN 0 ELSE told[n][h]
  BY <1>4
<1>12. \A n \in Notifiers, h \in Hosts : told[n][h] \in Nat /\ alerts[h] \in Nat /\ told[n][h] <= alerts[h]
  BY <1>1 DEF IInv, TypeOK, AlertedOnce
<1>13. ASSUME NEW h \in R PROVE alerts[h] = 0 /\ ~ok(h)
  <2>1. h \in Hosts /\ h \notin alreadyNotified
    BY <1>7 DEF R, Raised
  <2>2. alerts[h] = 0
    BY <1>1, <2>1, ThresholdPositive DEF IInv, CountsAgree, OneAlertPerOutage, TypeOK
  <2>3. ~ok(h)
    BY DEF R, Raised, Failed, registryFailedThisCycle
  <2>. QED  BY <2>2, <2>3
<1>14. told' \in [Notifiers -> [Hosts -> Nat]]
  <2>1. \A n \in Notifiers : [h \in Hosts |-> IF ok(h) THEN 0 ELSE told[n][h]] \in [Hosts -> Nat]
    <3>. HIDE DEF ok
    <3>. QED  BY <1>12
  <2>. QED  BY <1>4, <2>1
<1>15. missed' = missed \ (Notifiers \X {h \in Hosts : ok(h)})
  BY <1>4
<1>. HIDE DEF ok
<1>16. ASSUME NEW h \in R PROVE alerts'[h] = 1 /\ \A n \in Notifiers : told'[n][h] = 0
  <2>1. h \in Hosts /\ alerts[h] = 0 /\ ~ok(h)
    BY <1>7, <1>13
  <2>2. \A n \in Notifiers : told[n][h] = 0
    BY <1>12, <2>1
  <2>. QED  BY <1>10, <1>11, <2>1, <2>2
<1>17. AlertsInv'
  <2>1. stage' # "alerts" => alertNote' = <<>>
    BY <1>4, <1>8 DEF R
  <2>2. alertCursor' > 0
    BY <1>5
  <2>. QED  BY <1>8, <1>9, <1>16, <2>1, <2>2 DEF AlertsInv
<1>18. AlertedOnce'
  <2>. SUFFICES ASSUME NEW n \in Notifiers, NEW h \in Hosts PROVE told'[n][h] <= alerts'[h]
    BY DEF AlertedOnce
  <2>. QED  BY <1>10, <1>11, <1>12
<1>19. OutagesTried'
  <2>. SUFFICES ASSUME NEW n \in Notifiers, NEW h \in Hosts, alerts'[h] > 0
                PROVE  \/ told'[n][h] > 0
                       \/ <<n, h>> \in missed'
                       \/ n >= 1 /\ \E i \in DOMAIN alertNote' : alertNote'[i] = h
    BY <1>5 DEF OutagesTried
  <2>1. CASE h \in R
    BY <1>8, <2>1, SameNotifiers
  <2>2. CASE h \notin R
    <3>1. ~ok(h) /\ alerts[h] > 0
      BY <1>10, <1>12, <2>2
    <3>2. alertNote = <<>>
      BY <1>1, <1>5 DEF AlertsInv
    <3>3. told[n][h] > 0 \/ <<n, h>> \in missed
      BY <1>1, <3>1, <3>2 DEF OutagesTried
    <3>. QED  BY <1>11, <1>15, <3>1, <3>3
  <2>. QED  BY <2>1, <2>2
<1>20. UNCHANGED <<phase, todo, note, cursor, notified, received>>
  BY <1>5 DEF pipeVars
<1>21. EventsTried'
  <2>1. \A n \in Notifiers, f \in Fingerprints : TurnOver(n, f)' => TurnOver(n, f)
    BY <1>20, TurnFacts DEF TurnOver
  <2>2. \A n \in Notifiers, f \in Fingerprints : <<n, f>> \in missed => <<n, f>> \in missed'
    BY <1>15, Disjoint
  <2>. QED  BY <1>1, <1>20, <2>1, <2>2, EventsKept
<1>22. Staged'
  BY <1>1, <1>4, <1>5, <1>20 DEF Staged
<1>23. CallInv'
  <2>1. call = NoCall
    BY <1>1, <1>5 DEF CallInv, Delivering
  <2>. QED  BY <1>5, <2>1, NoCallKept
<1>24. DTypeOK'
  <2>1. missed' \subseteq Notifiers \X (Fingerprints \union Hosts)
    BY <1>1, <1>15
  <2>2. alertNote' \in Seq(Hosts)
    BY <1>7, <1>8
  <2>3. alertCursor' \in Nat /\ stage' \in {"wait", "events", "alerts"}
    BY <1>4, <1>5
  <2>. QED  BY <1>1, <1>3, <1>5, <1>6, <1>14, <2>1, <2>2, <2>3, TypeRest
<1>. QED  BY <1>6, <1>17, <1>18, <1>19, <1>21, <1>22, <1>23, <1>24 DEF DInv

\* Every target was called for the alerts.
LEMMA EndAlertsInv == ASSUME DInv, EndAlerts, UNCHANGED targets PROVE DInv'
<1>1. /\ P!TypeOK /\ call \in Calls /\ Staged /\ CallInv /\ EventsTried
      /\ alertCursor \in Nat
      /\ cancelled \in BOOLEAN /\ told \in [Notifiers -> [Hosts -> Nat]]
      /\ missed \subseteq Notifiers \X (Fingerprints \union Hosts)
      /\ excused \subseteq Notifiers \X Fingerprints
      /\ IInv /\ AlertsInv /\ AlertedOnce /\ OutagesTried
  BY Types
<1>2. DNext
  BY DEF DNext, Cycle
<1>3. P!TypeOK'
  BY <1>1, <1>2, PipeStep, PipeTyped
<1>4. /\ stage = "alerts" /\ call = NoCall /\ alertCursor \notin Notifiers
      /\ stage' = "wait" /\ alertNote' = <<>> /\ alertCursor' = 1
      /\ UNCHANGED <<pipeVars, trackVars, told, call, cancelled, missed, excused>>
  BY DEF EndAlerts
<1>5. UNCHANGED <<phase, todo, note, cursor, notified, received>>
  BY <1>4 DEF pipeVars
<1>6. UNCHANGED <<consecutiveFailures, alreadyNotified, streak, alerts>>
  BY <1>4 DEF trackVars
<1>7. IInv'
  BY <1>1, <1>6 DEF IInv, TypeOK, CountsAgree, OneAlertPerOutage
<1>8. AlertsInv'
  <2>1. DOMAIN alertNote' = {} /\ IsFiniteSet({})
    BY <1>4, FS_EmptySet
  <2>. QED  BY <1>4, <2>1 DEF AlertsInv
<1>9. AlertedOnce'
  BY <1>1, <1>4, <1>6 DEF AlertedOnce
<1>10. OutagesTried'
  <2>1. \A n \in Notifiers : ~(n >= alertCursor)
    <3>1. alertCursor > 0
      BY <1>1 DEF AlertsInv
    <3>. QED  BY <1>1, <1>4, <3>1, SameNotifiers
  <2>2. \A n \in Notifiers, h \in Hosts : alerts[h] > 0 => told[n][h] > 0 \/ <<n, h>> \in missed
    BY <1>1, <2>1 DEF OutagesTried
  <2>. QED  BY <1>4, <1>6, <2>2 DEF OutagesTried
<1>11. EventsTried'
  <2>1. \A n \in Notifiers, f \in Fingerprints : TurnOver(n, f)' => TurnOver(n, f)
    BY <1>5, TurnFacts DEF TurnOver
  <2>. QED  BY <1>1, <1>4, <1>5, <2>1, EventsKept
<1>12. Staged' /\ CallInv'
  BY <1>1, <1>4, <1>5, NoCallKept DEF Staged
<1>13. DTypeOK'
  <2>1. alertNote' \in Seq(Hosts) /\ alertCursor' \in Nat
    BY <1>4
  <2>. QED  BY <1>1, <1>3, <1>4, <1>7, <2>1, TypeRest
<1>. QED  BY <1>7, <1>8, <1>9, <1>10, <1>11, <1>12, <1>13 DEF DInv

-----------------------------------------------------------------------------
\* Stops and crashes.

\* SIGTERM.
LEMMA CancelInv == ASSUME DInv, Cancel PROVE DInv'
<1>1. /\ "restart" \in Faults /\ cancelled' = TRUE
      /\ UNCHANGED <<targets, pipeVars, trackVars, stage, alertVars, call, missed, excused>>
  BY DEF Cancel
<1>2. /\ P!TypeOK /\ call \in Calls /\ Staged /\ CallInv /\ EventsTried
      /\ stage \in {"wait", "events", "alerts"}
      /\ alertNote \in Seq(Hosts) /\ alertCursor \in Nat
      /\ told \in [Notifiers -> [Hosts -> Nat]]
      /\ missed \subseteq Notifiers \X (Fingerprints \union Hosts)
      /\ excused \subseteq Notifiers \X Fingerprints
  BY Types
<1>3. P!TypeOK'
  BY <1>2, PipeStep, PipeTyped DEF DNext
<1>4. UNCHANGED <<alertNote, alertCursor, told, phase, note, cursor, notified, received>>
  BY <1>1 DEF alertVars, pipeVars
<1>5. IInv' /\ AlertsInv' /\ AlertedOnce' /\ OutagesTried'
  BY <1>1, AlertsKept
<1>6. cancelled' \in BOOLEAN
  BY <1>1
<1>7. DTypeOK'
  BY <1>1, <1>2, <1>3, <1>4, <1>5, <1>6, TypeRest
<1>8. Staged'
  BY <1>1, <1>2, <1>4 DEF Staged
<1>9. EventsTried'
  <2>1. \A n \in Notifiers, f \in Fingerprints : TurnOver(n, f)' => TurnOver(n, f)
    BY <1>4, TurnFacts DEF TurnOver
  <2>. QED  BY <1>1, <1>2, <1>4, <2>1, EventsKept
<1>10. CallInv'
  <2>1. Current' = Current /\ Turn' = Turn /\ (Delivering' <=> Delivering)
    BY <1>1, CallFrame
  <2>2. Unsent' = Unsent
    BY <1>1 DEF Unsent
  <2>3. call' = call
    BY <1>1
  <2>. QED  BY <1>2, <2>1, <2>2, <2>3, Zenon DEF CallInv
<1>. QED  BY <1>5, <1>7, <1>8, <1>9, <1>10 DEF DInv

\* The process is gone; only the database and what the targets got remain.
LEMMA GoneInv ==
  ASSUME DInv, DNext, Gone, excused' \subseteq Notifiers \X Fingerprints
  PROVE  DInv'
<1>1. /\ P!TypeOK /\ call \in Calls /\ Staged /\ CallInv /\ EventsTried
      /\ missed \subseteq Notifiers \X (Fingerprints \union Hosts)
  BY Types
<1>2. P!TypeOK'
  BY <1>1, PipeStep, PipeTyped
<1>3. /\ P!Die(D) /\ Restart /\ stage' = "wait" /\ alertNote' = <<>> /\ alertCursor' = 1
      /\ call' = NoCall /\ cancelled' = FALSE /\ told' = NothingTold
      /\ missed' = missed \ (Notifiers \X Hosts)
  BY DEF Gone
<1>4. /\ phase'[D] = "down" /\ note'[D] = <<>> /\ UNCHANGED notified
  BY <1>1, <1>3 DEF P!Die, P!TypeOK
<1>5. received \subseteq received'
  BY <1>3 DEF P!Die, P!HandPart, P!Receive
<1>6. IInv'
  BY <1>3, RestartIInv
<1>7. \A n \in Notifiers, h \in Hosts : told'[n][h] = 0
  BY <1>3 DEF NothingTold
<1>8. \A h \in Hosts : alerts'[h] = 0
  BY <1>3 DEF Restart
<1>9. AlertsInv'
  <2>1. DOMAIN alertNote' = {} /\ IsFiniteSet({})
    BY <1>3, FS_EmptySet
  <2>. QED  BY <1>3, <2>1 DEF AlertsInv
<1>10. AlertedOnce' /\ OutagesTried'
  BY <1>7, <1>8 DEF AlertedOnce, OutagesTried
<1>11. EventsTried'
  <2>1. \A n \in Notifiers, f \in Fingerprints : ~TurnOver(n, f)'
    BY <1>4, TurnFacts
  <2>2. \A n \in Notifiers, f \in Fingerprints : <<n, f>> \in missed => <<n, f>> \in missed'
    BY <1>3, Disjoint
  <2>. QED  BY <1>1, <1>4, <1>5, <2>1, <2>2, EventsKept
<1>12. Staged' /\ CallInv'
  BY <1>3, <1>4 DEF Staged, CallInv, NoCall
<1>13. DTypeOK'
  <2>1. missed' \subseteq Notifiers \X (Fingerprints \union Hosts)
    BY <1>1, <1>3
  <2>2. /\ alertNote' \in Seq(Hosts) /\ alertCursor' \in Nat
        /\ stage' \in {"wait", "events", "alerts"}
    BY <1>3
  <2>5. cancelled' \in BOOLEAN
    BY <1>3, Zenon
  <2>3. call' \in Calls
    BY <1>3 DEF NoCall, Calls, MaxAttempts
  <2>4. told' \in [Notifiers -> [Hosts -> Nat]]
    BY <1>3 DEF NothingTold
  <2>. QED  BY <1>2, <1>6, <2>1, <2>2, <2>3, <2>4, <2>5, TypeRest
<1>. QED  BY <1>6, <1>9, <1>10, <1>11, <1>12, <1>13 DEF DInv

\* What a crash excuses are events.
LEMMA CrashExcuses == ASSUME DInv, Crash PROVE excused' \subseteq Notifiers \X Fingerprints
<1>1. P!TypeOK /\ excused \subseteq Notifiers \X Fingerprints
  BY Types
<1>2. Excuse(Notifiers, P!Items(P!Batch(D)))
  BY DEF Crash
<1>. QED  BY <1>1, <1>2, BatchTypes, ExcuseType

-----------------------------------------------------------------------------
\* The theorems.

\* The initial states.
LEMMA InitDInv == DInit => DInv
<1>. SUFFICES ASSUME DInit PROVE DInv
  OBVIOUS
<1>1. IInv
  BY InitIInv DEF DInit
<1>2. P!Init
  BY DEF DInit
<1>3. P!TypeOK
  BY <1>2 DEF P!Init, P!TypeOK, P!Phases, P!Receipts
<1>4. /\ stage = "wait" /\ alertNote = <<>> /\ alertCursor = 1 /\ call = NoCall
      /\ cancelled = FALSE /\ told = NothingTold /\ missed = {} /\ excused = {}
  BY DEF DInit
<1>5. /\ phase[D] = "down" /\ note[D] = <<>> /\ \A f \in Fingerprints : notified[f] = "none"
  BY <1>2 DEF P!Init
<1>6. \A h \in Hosts : alerts[h] = 0
  BY DEF DInit, Init
<1>7. \A n \in Notifiers, h \in Hosts : told[n][h] = 0
  BY <1>4 DEF NothingTold
<1>8. DTypeOK
  <2>1. call \in Calls
    BY <1>4 DEF NoCall, Calls, MaxAttempts
  <2>2. told \in [Notifiers -> [Hosts -> Nat]]
    BY <1>4 DEF NothingTold
  <2>3. TypeOK
    BY <1>1 DEF IInv
  <2>4. /\ stage \in {"wait", "events", "alerts"} /\ alertNote \in Seq(Hosts)
        /\ alertCursor \in Nat
    BY <1>4
  <2>5. cancelled \in BOOLEAN
    BY <1>4, Zenon
  <2>6. /\ missed \subseteq Notifiers \X (Fingerprints \union Hosts)
        /\ excused \subseteq Notifiers \X Fingerprints
    BY <1>4
  <2>. QED  BY <1>3, <2>1, <2>2, <2>3, <2>4, <2>5, <2>6, Zenon DEF DTypeOK
<1>9. Staged /\ CallInv
  BY <1>4, <1>5 DEF Staged, CallInv
<1>10. AlertsInv
  <2>1. DOMAIN alertNote = {} /\ IsFiniteSet({})
    BY <1>4, FS_EmptySet
  <2>. QED  BY <1>4, <2>1 DEF AlertsInv
<1>11. AlertedOnce /\ OutagesTried
  BY <1>6, <1>7 DEF AlertedOnce, OutagesTried
<1>12. EventsTried
  BY <1>5 DEF EventsTried, TurnOver
<1>. QED  BY <1>1, <1>8, <1>9, <1>10, <1>11, <1>12 DEF DInv

\* Nothing changes in a stuttering step.
LEMMA StutterDInv == ASSUME DInv, UNCHANGED allVars PROVE DInv'
<1>1. /\ UNCHANGED <<stage, call, cancelled, missed, excused, targets>>
      /\ UNCHANGED <<phase, todo, note, cursor, delivered, notified, received, repeated>>
      /\ UNCHANGED <<consecutiveFailures, alreadyNotified, streak, alerts>>
      /\ UNCHANGED <<alertNote, alertCursor, told>>
  BY DEF allVars, pipeVars, trackVars, alertVars
<1>2. /\ P!TypeOK /\ call \in Calls /\ Staged /\ CallInv /\ EventsTried
      /\ stage \in {"wait", "events", "alerts"}
      /\ alertNote \in Seq(Hosts) /\ alertCursor \in Nat
      /\ cancelled \in BOOLEAN /\ told \in [Notifiers -> [Hosts -> Nat]]
      /\ missed \subseteq Notifiers \X (Fingerprints \union Hosts)
      /\ excused \subseteq Notifiers \X Fingerprints
  BY Types
<1>3. P!TypeOK'
  BY <1>2, PipeStep, PipeTyped
<1>4. UNCHANGED <<pipeVars, trackVars, alertVars>>
  BY DEF allVars
<1>5. IInv' /\ AlertsInv' /\ AlertedOnce' /\ OutagesTried'
  BY <1>1, <1>4, AlertsKept
<1>6. DTypeOK'
  BY <1>1, <1>2, <1>3, <1>5, TypeRest
<1>7. Staged'
  BY <1>1, <1>2 DEF Staged
<1>8. EventsTried'
  <2>1. \A n \in Notifiers, f \in Fingerprints : TurnOver(n, f)' => TurnOver(n, f)
    BY <1>1, TurnFacts DEF TurnOver
  <2>. QED  BY <1>1, <1>2, <2>1, EventsKept
<1>9. CallInv'
  <2>1. Current' = Current /\ Turn' = Turn /\ (Delivering' <=> Delivering)
    BY <1>1, <1>4, CallFrame
  <2>2. Unsent' = Unsent /\ call' = call
    BY <1>1 DEF Unsent
  <2>. QED  BY <1>2, <2>1, <2>2, Zenon DEF CallInv
<1>. QED  BY <1>5, <1>6, <1>7, <1>8, <1>9 DEF DInv

\* DInv is inductive.
LEMMA StepDInv == DInv /\ [DNext]_allVars => DInv'
<1>. SUFFICES ASSUME DInv, [DNext]_allVars PROVE DInv'
  OBVIOUS
<1>1. CASE Start
  BY <1>1, StartInv
<1>2. CASE BeginCycle
  BY <1>2, BeginInv
<1>3. CASE Cycle
  <2>1. UNCHANGED targets /\ DNext
    BY <1>3 DEF Cycle, DNext
  <2>. QED
    BY <1>3, <2>1, BuildInv, StartNotifyInv, PostInv, EventsReturnInv, AlertsReturnInv,
       EndDeliverInv, MarkInv, DetectInv, EndAlertsInv, Zenon
    DEF Cycle
<1>4. CASE Cancel
  BY <1>4, CancelInv
<1>5. CASE Exit
  <2>1. Gone /\ excused' = excused /\ excused \subseteq Notifiers \X Fingerprints
    BY <1>5, Types DEF Exit
  <2>. QED  BY <1>5, <2>1, GoneInv DEF DNext
<1>6. CASE Crash
  <2>1. Gone
    BY <1>6 DEF Crash
  <2>. QED  BY <1>6, <2>1, CrashExcuses, GoneInv DEF DNext
<1>7. CASE UNCHANGED allVars
  BY <1>7, StutterDInv
<1>. QED  BY <1>1, <1>2, <1>3, <1>4, <1>5, <1>6, <1>7, Zenon DEF DNext

\* The state of runCycle and of a Notify call keeps its type: in particular
\* discord's attempts stay within their limit.
THEOREM DeliveryTyped == DSpec => []DTypeOK
<1>1. DInv => DTypeOK
  BY DEF DInv
<1>. QED  BY InitDInv, StepDInv, <1>1, PTL DEF DSpec

\* Whatever Deliver has recorded or alerted, every target has got or has
\* failed: one target's failure never keeps the news from another.
THEOREM DeliveryTriesAll == DSpec => []EveryTargetTried
<1>1. DInv => EveryTargetTried
  <2>. SUFFICES ASSUME DInv PROVE EveryTargetTried
    OBVIOUS
  <2>1. EventsTried /\ OutagesTried /\ AlertsInv
    BY Types
  <2>2. \A n \in Notifiers, f \in Fingerprints :
          notified[f] # "none" => <<n, f>> \in received \union missed
    BY <2>1 DEF EventsTried
  <2>3. \A n \in Notifiers, h \in Hosts :
          stage # "alerts" /\ alerts[h] > 0 => told[n][h] > 0 \/ <<n, h>> \in missed
    BY <2>1 DEF OutagesTried, AlertsInv
  <2>. QED  BY <2>2, <2>3 DEF EveryTargetTried
<1>. QED  BY InitDInv, StepDInv, <1>1, PTL DEF DSpec

\* No target hears of an outage more often than the tracker raised it, which
\* is once at most, and only from the threshold on.
THEOREM DeliveryAlertsOnce == DSpec => [](AlertedOnce /\ OneAlertPerOutage)
<1>1. DInv => AlertedOnce /\ OneAlertPerOutage
  BY DEF DInv, IInv
<1>. QED  BY InitDInv, StepDInv, <1>1, PTL DEF DSpec

\* The targets and runCycle implement the notification pipeline, whatever the
\* targets' types and however their posts fail.
THEOREM DeliveryRefinesPipeline == DSpec => ImplementsPipeline
<1>1. DInit => P!Init
  BY DEF DInit
<1>2. DInv /\ [DNext]_allVars => [P!Next]_(P!vars)
  BY Types, PipeStep
<1>. QED  BY <1>1, <1>2, InitDInv, StepDInv, PTL DEF DSpec, ImplementsPipeline, P!Spec

-----------------------------------------------------------------------------
\* At most once: the steps that leave the pipeline alone.

\* The parts of the invariant.
LEMMA OnceParts ==
  ASSUME OnceInv
  PROVE  /\ DInv /\ NamedOnce /\ NoteInv /\ GotInv /\ Settled /\ NeverExpired
         /\ repeated \subseteq excused
         /\ P!TypeOK /\ Staged /\ CallInv /\ call \in Calls
         /\ phase[D] \in P!Phases /\ cursor[D] \in Nat \ {0}
         /\ note[D] \in Seq(Fingerprints) /\ todo[D] \in Seq(P!Item)
<1>1. /\ DInv /\ NamedOnce /\ NoteInv /\ GotInv /\ Settled /\ NeverExpired
      /\ repeated \subseteq excused
  BY DEF OnceInv, OnceUnlessInterrupted
<1>2. P!TypeOK /\ Staged /\ CallInv /\ call \in Calls
  BY <1>1, Types
<1>3. /\ phase[D] \in P!Phases /\ cursor[D] \in Nat \ {0}
      /\ note[D] \in Seq(Fingerprints) /\ todo[D] \in Seq(P!Item)
  BY <1>2 DEF P!TypeOK
<1>. QED  BY <1>1, <1>2, <1>3

\* What Vain says of an event after a step.
VainAfter(f) ==
  \A n \in Notifiers : <<n, f>> \in excused' \/ (cancelled' /\ targets'[n] # "stdout")

\* An excuse and a cancellation last.
LEMMA VainKept ==
  ASSUME UNCHANGED targets, cancelled => cancelled', excused \subseteq excused', NEW f, Vain(f)
  PROVE  VainAfter(f)
  BY DEF Vain, VainAfter

\* The note's invariant after a step.
LEMMA NoteAfter ==
  ASSUME \A i \in DOMAIN note'[D] :
           (phase'[D] = "marking" => i >= cursor'[D])
             => notified'[note'[D][i]] = "none" \/ VainAfter(note'[D][i]),
         phase'[D] = "marking" => cursor'[D] <= Len(P!Batch(D)') + 1
  PROVE  NoteInv'
  BY DEF NoteInv, Vain, VainAfter

\* Steps that leave the pipeline alone.
LEMMA OnceKept ==
  ASSUME OnceInv, DInv', UNCHANGED <<pipeVars, targets, excused>>, cancelled => cancelled', GotInv'
  PROVE  OnceInv'
<1>1. UNCHANGED <<phase, todo, note, cursor, delivered, notified, received, repeated>>
  BY DEF pipeVars
<1>2. P!Batch(D)' = P!Batch(D) /\ P!Items(P!Batch(D))' = P!Items(P!Batch(D))
  BY <1>1 DEF P!Batch, P!Items
<1>3. NamedOnce' /\ NeverExpired' /\ OnceUnlessInterrupted'
  BY <1>1, OnceParts DEF NamedOnce, NeverExpired, OnceUnlessInterrupted
<1>4. NoteInv'
  BY <1>1, <1>2, OnceParts, VainKept, NoteAfter DEF NoteInv
<1>5. \A n \in Notifiers, f \in Fingerprints : OnTheWay(n, f)' <=> OnTheWay(n, f)
  BY <1>1, <1>2 DEF OnTheWay
<1>6. Settled'
  BY <1>1, <1>5, OnceParts DEF Settled
<1>. QED  BY <1>3, <1>4, <1>6 DEF OnceInv

\* Without a call for events there is nothing in the air.
LEMMA GotNothing ==
  ASSUME call' = NoCall \/ stage' # "events" \/ call'.got = {}
  PROVE  GotInv'
  BY DEF GotInv

\* The batch is the head of the notification.
LEMMA BatchNote ==
  ASSUME P!TypeOK
  PROVE  /\ \A i \in DOMAIN P!Batch(D) : i \in DOMAIN note[D] /\ P!Batch(D)[i] = note[D][i]
         /\ \A i \in DOMAIN P!Rest(D) :
              /\ i + Len(P!Batch(D)) \in DOMAIN note[D]
              /\ P!Rest(D)[i] = note[D][i + Len(P!Batch(D))]
         /\ Len(P!Batch(D)) \in Nat /\ DOMAIN P!Batch(D) = 1..Len(P!Batch(D))
         /\ DOMAIN P!Rest(D) \subseteq Nat \ {0}
<1>. DEFINE s == note[D]
<1>1. s \in Seq(Fingerprints)
  BY DEF P!TypeOK
<1>2. CASE Mode = "batch" \/ s = <<>>
  <2>1. P!Batch(D) = s /\ P!Rest(D) = <<>>
    BY <1>2 DEF P!Batch, P!Rest
  <2>. HIDE DEF s
  <2>. QED  BY <1>1, <2>1 DEF s
<1>3. CASE ~(Mode = "batch" \/ s = <<>>)
  <2>1. P!Batch(D) = <<Head(s)>> /\ P!Rest(D) = Tail(s)
    BY <1>3 DEF P!Batch, P!Rest
  <2>. HIDE DEF s
  <2>2. s # <<>>
    BY <1>3
  <2>3. /\ DOMAIN <<Head(s)>> = 1..1 /\ Len(<<Head(s)>>) = 1 /\ <<Head(s)>>[1] = s[1]
        /\ 1 \in DOMAIN s
    BY <1>1, <2>2
  <2>4. /\ DOMAIN Tail(s) = 1..(Len(s) - 1) /\ DOMAIN s = 1..Len(s) /\ Len(s) \in Nat
        /\ \A i \in 1..(Len(s) - 1) : Tail(s)[i] = s[i + 1]
    BY <1>1, <2>2
  <2>5. \A i \in DOMAIN Tail(s) : i \in Nat \ {0} /\ i + 1 \in DOMAIN s /\ Tail(s)[i] = s[i + 1]
    BY <2>4
  <2>6. \A i \in DOMAIN <<Head(s)>> : i = 1
    BY <2>3
  <2>7. \A i \in DOMAIN <<Head(s)>> : i \in DOMAIN s /\ <<Head(s)>>[i] = s[i]
    BY <2>3, <2>6
  <2>8. /\ \A i \in DOMAIN P!Batch(D) : i \in DOMAIN s /\ P!Batch(D)[i] = s[i]
        /\ Len(P!Batch(D)) = 1 /\ DOMAIN P!Batch(D) = 1..1
    BY <2>1, <2>3, <2>7, Zenon
  <2>9. \A i \in DOMAIN P!Rest(D) : i \in Nat \ {0} /\ i + 1 \in DOMAIN s /\ P!Rest(D)[i] = s[i + 1]
    BY <2>1, <2>5, Zenon
  <2>. QED  BY <2>8, <2>9 DEF s
<1>. QED  BY <1>2, <1>3

\* The steps of a call, of the alerts and of SIGTERM.
LEMMA OnceCall ==
  ASSUME OnceInv, DInv', UNCHANGED targets,
         \/ StartNotify \/ PostOK \/ PostFail \/ PostLimited
         \/ AlertsReturn \/ Detect \/ EndAlerts \/ Cancel
  PROVE  OnceInv'
<1>1. UNCHANGED <<pipeVars, excused>> /\ (cancelled => cancelled')
  BY DEF StartNotify, PostOK, PostFail, PostLimited, Posted, AlertsReturn, Detect, EndAlerts, Cancel
<1>2. UNCHANGED <<phase, note, cursor, notified, excused>>
  BY <1>1 DEF pipeVars
<1>3. GotInv /\ CallInv /\ NoteInv /\ Staged /\ P!TypeOK /\ call \in Calls
  BY OnceParts
<1>4. CASE StartNotify
  <2>1. call' = [NoCall EXCEPT !.target = Turn, !.left = Messages(targets[Turn], Current)]
    BY <1>4 DEF StartNotify
  <2>2. call'.got = {}
    BY <2>1 DEF NoCall
  <2>. QED  BY <1>1, <2>2, GotNothing, OnceKept
<1>5. CASE AlertsReturn \/ Detect \/ EndAlerts
  <2>1. call' = NoCall \/ stage' # "events"
    BY <1>5 DEF AlertsReturn, Detect, EndAlerts
  <2>. QED  BY <1>1, <2>1, GotNothing, OnceKept
<1>6. CASE Cancel
  <2>1. UNCHANGED <<call, stage, alertVars>>
    BY <1>6 DEF Cancel
  <2>2. Current' = Current
    BY <1>1, <2>1, CallFrame
  <2>3. GotInv'
    BY <1>2, <1>3, <2>1, <2>2 DEF GotInv
  <2>. QED  BY <1>1, <2>3, OnceKept
<1>7. ASSUME call.left # <<>>, NEW got, NEW failed, Posted(got, failed),
             got = {} \/ (Reachable /\ got = Head(call.left))
      PROVE  OnceInv'
  <2>1. /\ call'.got = call.got \union got /\ call'.target = call.target
        /\ UNCHANGED <<stage, alertVars>>
    BY <1>3, <1>7 DEF Posted, Calls
  <2>2. Current' = Current
    BY <1>1, <2>1, CallFrame
  <2>3. call # NoCall
    BY <1>7 DEF NoCall
  <2>4. ASSUME stage = "events", NEW i \in got
        PROVE  notified[Current[i]] = "none" \/ <<call.target, Current[i]>> \in excused
    <3>1. Reachable /\ i \in Head(call.left)
      BY <1>7, <2>4
    <3>2. Head(call.left) \subseteq Unsent
      <4>1. call.left \in Seq(SUBSET Nat)
        BY <1>3 DEF Calls
      <4>. QED  BY <1>7, <4>1, HeadAndTail DEF Unsent
    <3>3. i \in DOMAIN Current
      BY <1>3, <2>3, <3>1, <3>2 DEF CallInv
    <3>4. phase[D] = "delivering" /\ Current = P!Batch(D)
      BY <1>3, <2>3, <2>4, EventCall, Zenon
    <3>5. i \in DOMAIN note[D] /\ Current[i] = note[D][i]
      BY <1>3, <3>3, <3>4, BatchNote
    <3>6. notified[Current[i]] = "none" \/ Vain(Current[i])
      BY <1>3, <3>4, <3>5 DEF NoteInv
    <3>7. call.target \in Notifiers
      BY <1>3, <2>3, <2>4, EventCall, Zenon
    <3>. QED  BY <3>1, <3>6, <3>7 DEF Reachable, Vain
  <2>5. GotInv'
    BY <1>2, <1>3, <2>1, <2>2, <2>3, <2>4 DEF GotInv
  <2>. QED  BY <1>1, <2>5, OnceKept
<1>8. CASE PostOK
  BY <1>7, <1>8, Zenon DEF PostOK
<1>9. CASE PostFail
  BY <1>7, <1>9, Zenon DEF PostFail
<1>10. CASE PostLimited
  <2>1. CASE Posted({}, TRUE)
    BY <1>7, <1>10, <2>1, Zenon DEF PostLimited
  <2>2. CASE ~Posted({}, TRUE)
    <3>1. call' = [call EXCEPT !.attempt = @ + 1] /\ UNCHANGED <<stage, alertVars>>
      BY <1>10, <2>2 DEF PostLimited
    <3>2. call'.got = call.got /\ call'.target = call.target
      BY <1>3, <3>1 DEF Calls
    <3>3. Current' = Current
      BY <1>1, <3>1, CallFrame
    <3>4. call # NoCall
      BY <1>10 DEF PostLimited, NoCall
    <3>5. GotInv'
      BY <1>2, <1>3, <3>1, <3>2, <3>3, <3>4 DEF GotInv
    <3>. QED  BY <1>1, <3>5, OnceKept
  <2>. QED  BY <2>1, <2>2
<1>. QED  BY <1>4, <1>5, <1>6, <1>8, <1>9, <1>10

\* Steps between cycles and before delivery: whatever was received is excused
\* or has a row.
LEMMA SettledBefore ==
  ASSUME Settled, phase[D] \notin {"delivering", "marking"}, excused \subseteq excused',
         UNCHANGED received,
         \A f \in Fingerprints : notified[f] # "none" => notified'[f] # "none"
  PROVE  Settled'
<1>1. \A n \in Notifiers, f \in Fingerprints : ~OnTheWay(n, f)
  BY DEF OnTheWay
<1>. QED  BY <1>1 DEF Settled

\* Opening the store.
LEMMA OnceStart == ASSUME OnceInv, DInv', Start PROVE OnceInv'
<1>1. /\ phase[D] = "down" /\ phase'[D] = "idle"
      /\ notified' = [f \in Fingerprints |-> IF notified[f] = "expired" THEN "none" ELSE notified[f]]
      /\ UNCHANGED <<todo, note, cursor, delivered, received, repeated>>
      /\ UNCHANGED <<targets, trackVars, stage, alertVars, call, cancelled, missed, excused>>
  BY OnceParts DEF Start, P!Open, P!TypeOK
<1>2. NamedOnce /\ NoteInv /\ Settled /\ NeverExpired /\ Staged /\ repeated \subseteq excused
  BY OnceParts
<1>3. \A f \in Fingerprints : notified'[f] = notified[f]
  BY <1>1, <1>2 DEF NeverExpired
<1>4. note'[D] = <<>> /\ stage' # "events"
  BY <1>1, <1>2 DEF Staged
<1>5. NamedOnce' /\ NoteInv' /\ NeverExpired' /\ OnceUnlessInterrupted'
  BY <1>1, <1>2, <1>3, <1>4 DEF NamedOnce, NoteInv, NeverExpired, OnceUnlessInterrupted
<1>6. Settled'
  BY <1>1, <1>2, <1>3, SettledBefore
<1>. QED  BY <1>4, <1>5, <1>6, GotNothing DEF OnceInv

\* A check names its events once.
LEMMA OnceBegin == ASSUME EachOnce, OnceInv, DInv', BeginCycle PROVE OnceInv'
<1>1. PICK items \in ItemLists : P!Begin(D, items)
  BY DEF BeginCycle
<1>2. /\ phase[D] = "idle" /\ phase'[D] = "building" /\ todo'[D] = items
      /\ UNCHANGED <<note, cursor, delivered, notified, received, repeated>>
      /\ UNCHANGED <<targets, call, cancelled, excused>>
  BY <1>1, OnceParts DEF BeginCycle, P!Begin, P!TypeOK
<1>3. NamedOnce /\ NoteInv /\ Settled /\ NeverExpired /\ Staged /\ CallInv /\ repeated \subseteq excused
  BY OnceParts
<1>4. note'[D] = <<>> /\ call = NoCall
  BY <1>2, <1>3 DEF Staged, CallInv, Delivering, BeginCycle
<1>5. \A i, j \in DOMAIN items : items[i].fp = items[j].fp => i = j
  BY DEF EachOnce
<1>6. NamedOnce'
  BY <1>2, <1>4, <1>5 DEF NamedOnce
<1>7. NoteInv' /\ NeverExpired' /\ OnceUnlessInterrupted'
  BY <1>2, <1>3, <1>4 DEF NoteInv, NeverExpired, OnceUnlessInterrupted
<1>8. Settled'
  BY <1>2, <1>3, SettledBefore
<1>9. GotInv'
  BY <1>2, <1>4, GotNothing
<1>. QED  BY <1>6, <1>7, <1>8, <1>9 DEF OnceInv

\* BuildNotification takes the events over one by one.
LEMMA OnceBuild == ASSUME OnceInv, DInv', Build, UNCHANGED targets PROVE OnceInv'
<1>1. /\ NamedOnce /\ NoteInv /\ Settled /\ NeverExpired /\ Staged /\ CallInv
      /\ repeated \subseteq excused /\ P!TypeOK
      /\ note[D] \in Seq(Fingerprints) /\ todo[D] \in Seq(P!Item)
  BY OnceParts
<1>2. /\ phase[D] = "building" /\ UNCHANGED <<notified, received, repeated>>
      /\ UNCHANGED <<call, stage, cancelled>>
  BY DEF Build, P!SkipUnwanted, P!SuppressNotified, P!IncludeItem, P!FinishBuild
<1>3. call = NoCall
  BY <1>1, <1>2 DEF CallInv, Delivering, Staged
<1>4. excused \subseteq excused'
  BY DEF Build, Excuse
<1>5. Settled' /\ NeverExpired' /\ OnceUnlessInterrupted' /\ GotInv'
  <2>1. Settled'
    BY <1>1, <1>2, <1>4, SettledBefore
  <2>. QED  BY <1>1, <1>2, <1>3, <1>4, <2>1, GotNothing DEF NeverExpired, OnceUnlessInterrupted
<1>6. \A i \in DOMAIN note[D] : notified[note[D][i]] = "none" \/ VainAfter(note[D][i])
  <2>1. cancelled => cancelled'
    BY <1>2
  <2>2. \A i \in DOMAIN note[D] : notified[note[D][i]] = "none" \/ Vain(note[D][i])
    BY <1>1, <1>2 DEF NoteInv
  <2>. QED  BY <1>4, <2>1, <2>2, VainKept
<1>. DEFINE t == todo[D]
            u == Tail(t)
<1>7. ASSUME t # <<>>
      PROVE  /\ u \in Seq(P!Item) /\ Head(t) = t[1] /\ 1 \in DOMAIN t
             /\ \A j \in DOMAIN u : j \in Nat /\ j + 1 \in DOMAIN t /\ j + 1 # 1 /\ u[j] = t[j + 1]
  <2>. HIDE DEF t
  <2>1. t \in Seq(P!Item)
    BY <1>1 DEF t
  <2>2. /\ DOMAIN u = 1..(Len(t) - 1) /\ DOMAIN t = 1..Len(t) /\ Len(t) \in Nat /\ Len(t) > 0
        /\ \A i \in 1..(Len(t) - 1) : u[i] = t[i + 1]
        /\ u \in Seq(P!Item) /\ Head(t) = t[1]
    BY <1>7, <2>1
  <2>. HIDE DEF u
  <2>. QED  BY <2>2
<1>. HIDE DEF u
<1>8. CASE P!SkipUnwanted(D) \/ P!SuppressNotified(D)
  <2>1. t # <<>> /\ todo'[D] = u /\ UNCHANGED <<phase, note, cursor>>
    BY <1>1, <1>8 DEF P!SkipUnwanted, P!SuppressNotified, P!TypeOK, u
  <2>2. NamedOnce'
    BY <1>1, <1>2, <1>7, <2>1 DEF NamedOnce
  <2>3. NoteInv'
    BY <1>2, <1>6, <2>1, NoteAfter
  <2>. QED  BY <1>5, <2>2, <2>3 DEF OnceInv
<1>9. CASE P!FinishBuild(D)
  <2>1. /\ todo[D] = <<>> /\ UNCHANGED <<todo, note>>
        /\ phase'[D] \in {"idle", "delivering"}
    BY <1>1, <1>9 DEF P!FinishBuild, P!TypeOK
  <2>2. NamedOnce' /\ NoteInv'
    BY <1>1, <1>2, <1>6, <2>1, NoteAfter DEF NamedOnce
  <2>. QED  BY <1>5, <2>2 DEF OnceInv
<1>10. CASE P!IncludeItem(D) /\ ~(P!SkipUnwanted(D) \/ P!SuppressNotified(D) \/ P!FinishBuild(D))
  <2>. DEFINE f == Head(t).fp
              w == Append(note[D], f)
  <2>1. /\ t # <<>> /\ todo'[D] = u /\ note'[D] = w /\ UNCHANGED phase
    BY <1>1, <1>10 DEF P!IncludeItem, P!TypeOK, u
  <2>2. f = t[1].fp /\ f \in Fingerprints
    <3>1. Head(t) = t[1] /\ t[1] \in P!Item
      BY <1>1, <1>7, <2>1
    <3>. HIDE DEF t
    <3>. QED  BY <3>1 DEF P!Item
  <2>3. \A i \in DOMAIN note[D] : note[D][i] # f
    BY <1>1, <1>7, <2>1, <2>2 DEF NamedOnce
  <2>4. \A j \in DOMAIN u : u[j].fp # f
    BY <1>1, <1>7, <2>1, <2>2 DEF NamedOnce
  <2>5. notified[f] = "none" \/ VainAfter(f)
    <3>1. \/ notified[f] = "none"
          \/ Excuse({n \in Notifiers : cancelled => targets[n] = "stdout"}, {f})
      BY <1>10, Zenon DEF Build
    <3>2. ASSUME Excuse({n \in Notifiers : cancelled => targets[n] = "stdout"}, {f})
          PROVE  VainAfter(f)
      <4>1. excused' = excused \union ({n \in Notifiers : cancelled => targets[n] = "stdout"} \X {f})
        BY <3>2 DEF Excuse
      <4>. HIDE DEF f
      <4>2. \A n \in Notifiers : (cancelled => targets[n] = "stdout") => <<n, f>> \in excused'
        BY <4>1
      <4>. QED  BY <1>2, <4>2 DEF VainAfter
    <3>. QED  BY <3>1, <3>2
  <2>. HIDE DEF f
  <2>6. /\ DOMAIN w = 1..(Len(note[D]) + 1) /\ DOMAIN note[D] = 1..Len(note[D])
        /\ Len(note[D]) \in Nat
        /\ \A i \in 1..Len(note[D]) : w[i] = note[D][i]
        /\ w[Len(note[D]) + 1] = f
    BY <1>1, <2>2
  <2>. HIDE DEF w
  <2>7. \A i \in DOMAIN w : \/ i \in DOMAIN note[D] /\ w[i] = note[D][i]
                            \/ i = Len(note[D]) + 1 /\ w[i] = f
    BY <2>6
  <2>8. NamedOnce'
    <3>1. \A i, j \in DOMAIN w : w[i] = w[j] => i = j
      BY <1>1, <2>3, <2>7 DEF NamedOnce
    <3>2. \A i, j \in DOMAIN u : u[i].fp = u[j].fp => i = j
      BY <1>1, <1>7, <2>1 DEF NamedOnce
    <3>3. \A i \in DOMAIN w, j \in DOMAIN u : w[i] # u[j].fp
      BY <1>1, <1>7, <2>1, <2>4, <2>7 DEF NamedOnce
    <3>. QED  BY <1>2, <2>1, <3>1, <3>2, <3>3 DEF NamedOnce
  <2>9. NoteInv'
    <3>1. \A i \in DOMAIN w : notified[w[i]] = "none" \/ VainAfter(w[i])
      BY <1>6, <2>5, <2>7
    <3>. QED  BY <1>2, <2>1, <3>1, NoteAfter
  <2>. QED  BY <1>5, <2>8, <2>9 DEF OnceInv
<1>. QED  BY <1>8, <1>9, <1>10 DEF Build

\* Excuses are never taken back.
LEMMA ExcusesStay ==
  ASSUME EndDeliver \/ Mark \/ EventsReturn
  PROVE  excused \subseteq excused'
  BY DEF EndDeliver, Mark, EventsReturn, Excuse

\* Moving on to the rest of the notification.
LEMMA OnceNextBatch ==
  ASSUME OnceInv, DInv', UNCHANGED <<targets, cancelled, call, todo, notified, received, repeated>>,
         call = NoCall, excused \subseteq excused', P!NextBatch(D),
         phase[D] \in {"delivering", "marking"},
         phase[D] = "marking" => cursor[D] \notin DOMAIN P!Batch(D),
         \A n \in Notifiers, f \in Fingerprints :
           <<n, f>> \in received /\ OnTheWay(n, f) => <<n, f>> \in excused'
  PROVE  OnceInv'
<1>1. /\ NamedOnce /\ NoteInv /\ Settled /\ NeverExpired
      /\ repeated \subseteq excused /\ P!TypeOK /\ cursor[D] \in Nat \ {0}
  BY OnceParts
<1>2. /\ note'[D] = P!Rest(D)
      /\ phase'[D] = IF P!Rest(D) = <<>> THEN "idle" ELSE "delivering"
  BY <1>1, NextBatchFacts
<1>. DEFINE k == Len(P!Batch(D))
            r == P!Rest(D)
<1>3. /\ \A i \in DOMAIN r : i + k \in DOMAIN note[D] /\ r[i] = note[D][i + k]
      /\ k \in Nat /\ DOMAIN P!Batch(D) = 1..k /\ DOMAIN r \subseteq Nat \ {0}
  BY <1>1, BatchNote
<1>4. phase[D] = "marking" => cursor[D] = k + 1
  <2>1. phase[D] = "marking" => cursor[D] <= k + 1
    BY <1>1 DEF NoteInv
  <2>. HIDE DEF k
  <2>. QED  BY <1>1, <1>3, <2>1
<1>. HIDE DEF k, r
<1>5. NamedOnce'
  <2>1. todo[D] = <<>>
    BY <1>1 DEF NamedOnce
  <2>2. \A i, j \in DOMAIN r : r[i] = r[j] => i = j
    BY <1>1, <1>3 DEF NamedOnce
  <2>. QED  BY <1>2, <2>1, <2>2 DEF NamedOnce, r
<1>6. NoteInv'
  <2>1. ASSUME NEW i \in DOMAIN r PROVE notified[r[i]] = "none" \/ VainAfter(r[i])
    <3>1. phase[D] = "marking" => i + k >= cursor[D]
      BY <1>3, <1>4
    <3>2. notified[r[i]] = "none" \/ Vain(r[i])
      BY <1>1, <1>3, <3>1 DEF NoteInv
    <3>. QED  BY <3>2, VainKept
  <2>. QED  BY <1>2, <2>1, NoteAfter DEF r
<1>7. Settled'
  BY <1>1 DEF Settled
<1>8. GotInv'
  BY GotNothing
<1>9. NeverExpired' /\ OnceUnlessInterrupted'
  BY <1>1 DEF NeverExpired, OnceUnlessInterrupted
<1>. QED  BY <1>5, <1>6, <1>7, <1>8, <1>9 DEF OnceInv

\* Deliver's end: the batch is marked, or excused.
LEMMA OnceEndDeliver == ASSUME OnceInv, DInv', EndDeliver, UNCHANGED targets PROVE OnceInv'
<1>1. /\ NamedOnce /\ NoteInv /\ Settled /\ NeverExpired /\ Staged /\ CallInv
      /\ repeated \subseteq excused /\ P!TypeOK
  BY OnceParts
<1>2. /\ phase[D] = "delivering" /\ cursor[D] \notin Notifiers
      /\ UNCHANGED <<todo, notified, received, repeated, call, stage, cancelled>>
  BY SameNotifiers DEF EndDeliver, P!EndDeliver
<1>3. call = NoCall
  BY <1>1, <1>2 DEF CallInv, Delivering, Staged, Turn
<1>4. excused \subseteq excused'
  BY ExcusesStay
<1>5. CASE ~delivered[D]
  <2>1. P!NextBatch(D)
    BY <1>5 DEF EndDeliver, P!EndDeliver
  <2>2. Excuse(Notifiers, P!Items(P!Batch(D)))
    BY <1>5 DEF EndDeliver
  <2>3. \A n \in Notifiers, f \in Fingerprints : OnTheWay(n, f) => <<n, f>> \in excused'
    BY <1>2, <2>2 DEF OnTheWay, Excuse
  <2>. QED  BY <1>2, <1>3, <1>4, <2>1, <2>3, OnceNextBatch
<1>6. CASE delivered[D]
  <2>1. phase'[D] = "marking" /\ cursor'[D] = 1 /\ UNCHANGED note
    BY <1>1, <1>6 DEF EndDeliver, P!EndDeliver, P!TypeOK
  <2>2. P!Batch(D)' = P!Batch(D)
    BY <2>1 DEF P!Batch
  <2>3. DOMAIN P!Batch(D) = 1..Len(P!Batch(D)) /\ Len(P!Batch(D)) \in Nat
    BY <1>1, BatchNote
  <2>4. NamedOnce' /\ NeverExpired' /\ OnceUnlessInterrupted' /\ GotInv'
    BY <1>1, <1>2, <1>3, <1>4, <2>1, GotNothing DEF NamedOnce, NeverExpired, OnceUnlessInterrupted
  <2>5. NoteInv'
    <3>1. \A i \in DOMAIN note[D] : notified[note[D][i]] = "none" \/ Vain(note[D][i])
      BY <1>1, <1>2 DEF NoteInv
    <3>2. \A i \in DOMAIN note[D] : notified[note[D][i]] = "none" \/ VainAfter(note[D][i])
      BY <1>2, <1>4, <3>1, VainKept
    <3>. QED  BY <1>2, <2>1, <2>2, <2>3, <3>2, NoteAfter
  <2>6. Settled'
    <3>1. ASSUME NEW n \in Notifiers, NEW f \in Fingerprints, OnTheWay(n, f)
          PROVE  OnTheWay(n, f)'
      <4>1. PICK i \in DOMAIN P!Batch(D) : P!Batch(D)[i] = f
        BY <1>2, <3>1 DEF OnTheWay, P!Items
      <4>2. i >= 1
        BY <2>3, <4>1
      <4>. QED  BY <2>1, <2>2, <4>1, <4>2 DEF OnTheWay
    <3>. QED  BY <1>1, <1>2, <1>4, <3>1 DEF Settled
  <2>. QED  BY <2>4, <2>5, <2>6 DEF OnceInv
<1>. QED  BY <1>5, <1>6

\* MarkDelivered: an item gets its row, or is excused.
LEMMA OnceMark == ASSUME OnceInv, DInv', Mark, UNCHANGED targets PROVE OnceInv'
<1>1. /\ NamedOnce /\ NoteInv /\ Settled /\ NeverExpired /\ Staged /\ CallInv
      /\ repeated \subseteq excused /\ P!TypeOK /\ cursor[D] \in Nat \ {0}
  BY OnceParts
<1>2. /\ phase[D] = "marking"
      /\ UNCHANGED <<todo, received, repeated, call, stage, cancelled>>
  BY DEF Mark, P!MarkItem, P!MarkFail, P!EndMark
<1>3. call = NoCall
  BY <1>1, <1>2 DEF CallInv, Delivering, Staged
<1>4. excused \subseteq excused'
  BY ExcusesStay
<1>5. CASE P!EndMark(D)
  <2>1. P!NextBatch(D) /\ cursor[D] \notin DOMAIN P!Batch(D) /\ UNCHANGED notified
    BY <1>5 DEF P!EndMark
  <2>2. DOMAIN P!Batch(D) = 1..Len(P!Batch(D)) /\ Len(P!Batch(D)) \in Nat
    BY <1>1, BatchNote
  <2>3. \A n \in Notifiers, f \in Fingerprints : ~OnTheWay(n, f)
    BY <1>1, <1>2, <2>1, <2>2 DEF OnTheWay
  <2>. QED  BY <1>2, <1>3, <1>4, <2>1, <2>3, OnceNextBatch
<1>6. CASE ~P!EndMark(D)
  <2>. DEFINE c == cursor[D]
              g == P!Batch(D)[c]
  <2>1. /\ c \in DOMAIN P!Batch(D) /\ cursor'[D] = c + 1 /\ UNCHANGED <<phase, note>>
        /\ \/ notified' = [notified EXCEPT ![g] = "fresh"]
           \/ UNCHANGED notified /\ Excuse(Notifiers, {g})
    BY <1>1, <1>6 DEF Mark, P!MarkItem, P!MarkFail, P!TypeOK
  <2>2. P!Batch(D)' = P!Batch(D)
    BY <2>1 DEF P!Batch
  <2>3. /\ c \in DOMAIN note[D] /\ g = note[D][c]
        /\ DOMAIN P!Batch(D) = 1..Len(P!Batch(D)) /\ Len(P!Batch(D)) \in Nat
        /\ DOMAIN note[D] \subseteq Nat
    <3>1. c \in DOMAIN note[D] /\ g = note[D][c]
      BY <1>1, <2>1, BatchNote
    <3>2. note[D] \in Seq(Fingerprints)
      BY <1>1 DEF P!TypeOK
    <3>. QED  BY <1>1, <3>1, <3>2, BatchNote
  <2>4. g \in Fingerprints /\ \A f \in Fingerprints : f # g => notified'[f] = notified[f]
    <3>1. g \in Fingerprints
      BY <1>1, <2>1, BatchTypes
    <3>. HIDE DEF g
    <3>. QED  BY <1>1, <2>1, <3>1 DEF P!TypeOK
  <2>5. notified'[g] = "fresh" \/ \A n \in Notifiers : <<n, g>> \in excused'
    <3>. HIDE DEF g
    <3>. QED  BY <1>1, <2>1, <2>4 DEF P!TypeOK, Excuse
  <2>6. \A f \in Fingerprints : notified'[f] # "expired" /\ (notified[f] # "none" => notified'[f] # "none")
    <3>. HIDE DEF g
    <3>. QED  BY <1>1, <2>1, <2>4 DEF P!TypeOK, NeverExpired
  <2>7. NamedOnce' /\ NeverExpired' /\ OnceUnlessInterrupted' /\ GotInv'
    BY <1>1, <1>2, <1>3, <1>4, <2>1, <2>6, GotNothing DEF NamedOnce, NeverExpired, OnceUnlessInterrupted
  <2>. HIDE DEF g, c
  <2>8. NoteInv'
    <3>1. ASSUME NEW i \in DOMAIN note[D], i >= c + 1
          PROVE  notified'[note[D][i]] = "none" \/ VainAfter(note[D][i])
      <4>1. c \in Nat /\ i \in Nat
        BY <1>1, <2>3 DEF c
      <4>2. i # c /\ i >= c
        BY <3>1, <4>1
      <4>3. note[D][i] # g
        BY <1>1, <2>3, <4>2 DEF NamedOnce
      <4>4. note[D][i] \in Fingerprints
        BY OnceParts
      <4>5. notified[note[D][i]] = "none" \/ Vain(note[D][i])
        BY <1>1, <4>2 DEF NoteInv, c
      <4>. QED  BY <1>2, <1>4, <2>4, <4>3, <4>4, <4>5, VainKept
    <3>2. c + 1 <= Len(P!Batch(D)) + 1
      BY <2>1, <2>3
    <3>. QED  BY <1>2, <2>1, <2>2, <3>1, <3>2, NoteAfter
  <2>9. Settled'
    <3>1. ASSUME NEW n \in Notifiers, NEW f \in Fingerprints, OnTheWay(n, f), f # g
          PROVE  OnTheWay(n, f)'
      <4>1. PICK i \in DOMAIN P!Batch(D) : i >= c /\ P!Batch(D)[i] = f
        BY <1>2, <3>1 DEF OnTheWay, c
      <4>2. i # c
        BY <3>1, <4>1 DEF g
      <4>3. i >= c + 1
        BY <2>1, <2>3, <4>1, <4>2
      <4>. QED  BY <1>2, <2>1, <2>2, <4>1, <4>3 DEF OnTheWay
    <3>. QED  BY <1>1, <1>2, <1>4, <2>5, <2>6, <3>1 DEF Settled
  <2>. QED  BY <2>7, <2>8, <2>9 DEF OnceInv
<1>. QED  BY <1>5, <1>6

\* Notify returns: what its target got again was excused.
LEMMA OnceReturn == ASSUME OnceInv, DInv', EventsReturn, UNCHANGED targets PROVE OnceInv'
<1>. DEFINE b == P!Batch(D)
            n0 == cursor[D]
            part == [i \in call.got |-> b[i]]
<1>1. /\ NamedOnce /\ NoteInv /\ GotInv /\ Settled /\ NeverExpired /\ CallInv
      /\ repeated \subseteq excused /\ P!TypeOK /\ cursor[D] \in Nat \ {0}
  BY OnceParts
<1>2. /\ Finished /\ stage = "events" /\ Receipts /\ call' = NoCall
      /\ cursor'[D] = n0 + 1
      /\ UNCHANGED <<phase, todo, note, notified, stage, cancelled, excused>>
  BY <1>1 DEF EventsReturn, P!TypeOK
<1>3. call # NoCall
  BY <1>2, Zenon DEF Finished
<1>4. /\ phase[D] = "delivering" /\ call.target = n0 /\ n0 \in Notifiers
      /\ Current = b /\ call.got \subseteq DOMAIN b
  BY <1>1, <1>2, <1>3, EventCall, Zenon
<1>5. P!Receive(n0, part)
  BY <1>2, <1>4, Zenon DEF Receipts
<1>6. P!Batch(D)' = b
  BY <1>2 DEF P!Batch
<1>7. b \in Seq(Fingerprints) /\ \A i \in DOMAIN b : i \in DOMAIN note[D] /\ b[i] = note[D][i]
  BY <1>1, BatchTypes, BatchNote
<1>8. \A i \in call.got : notified[b[i]] = "none" \/ <<n0, b[i]>> \in excused
  BY <1>1, <1>2, <1>3, <1>4 DEF GotInv
<1>. HIDE DEF b, n0
<1>9. P!Items(part) = {b[i] : i \in call.got} /\ DOMAIN part = call.got
  BY DEF P!Items
<1>10. \A i \in call.got : part[i] = b[i]
  OBVIOUS
<1>. HIDE DEF part
<1>11. \A f : ~P!HasTwice(part, f)
  <2>1. \A i, j \in call.got : b[i] = b[j] => i = j
    BY <1>1, <1>4, <1>7 DEF NamedOnce
  <2>. QED  BY <1>9, <1>10, <2>1 DEF P!HasTwice
<1>12. received' = received \union ({n0} \X P!Items(part))
  BY <1>5, Zenon DEF P!Receive
<1>13. ASSUME NEW f \in P!Items(part), <<n0, f>> \in received PROVE <<n0, f>> \in excused
  <2>1. PICK i \in call.got : f = b[i]
    BY <1>9, <1>13
  <2>2. f \in Fingerprints
    BY <1>4, <1>7, <2>1
  <2>3. ~OnTheWay(n0, f)
    BY <1>1, <1>4 DEF OnTheWay, n0
  <2>4. <<n0, f>> \in excused \/ notified[f] # "none"
    BY <1>1, <1>4, <1>13, <2>2, <2>3 DEF Settled
  <2>. QED  BY <1>8, <2>1, <2>4
<1>14. repeated' \subseteq excused
  <2>. DEFINE again == {g \in P!Items(part) : <<n0, g>> \in received \/ P!HasTwice(part, g)}
  <2>1. repeated' = repeated \union {<<n0, f>> : f \in again}
    BY <1>5, Zenon DEF P!Receive
  <2>2. \A f \in again : <<n0, f>> \in excused
    BY <1>11, <1>13
  <2>. HIDE DEF again
  <2>. QED  BY <1>1, <2>1, <2>2
<1>15. Settled'
  <2>. SUFFICES ASSUME NEW n \in Notifiers, NEW f \in Fingerprints, <<n, f>> \in received'
                PROVE  <<n, f>> \in excused \/ notified[f] # "none" \/ OnTheWay(n, f)'
    BY <1>2 DEF Settled
  <2>1. CASE <<n, f>> \in received /\ ~OnTheWay(n, f)
    BY <1>1, <2>1 DEF Settled
  <2>2. CASE n < n0 + 1 /\ f \in P!Items(b)
    BY <1>2, <1>4, <1>6, <2>2 DEF OnTheWay, P!Items
  <2>3. OnTheWay(n, f) => n < n0 + 1 /\ f \in P!Items(b)
    BY <1>1, <1>4, SameNotifiers DEF OnTheWay, b, n0
  <2>4. <<n, f>> \in {n0} \X P!Items(part) => n < n0 + 1 /\ f \in P!Items(b)
    BY <1>1, <1>4, <1>9 DEF P!Items, n0
  <2>. QED  BY <1>12, <2>1, <2>2, <2>3, <2>4
<1>16. NamedOnce' /\ NeverExpired' /\ GotInv'
  BY <1>1, <1>2, GotNothing DEF NamedOnce, NeverExpired
<1>17. NoteInv'
  <2>1. \A i \in DOMAIN note[D] : notified[note[D][i]] = "none" \/ Vain(note[D][i])
    BY <1>1, <1>4 DEF NoteInv
  <2>2. \A i \in DOMAIN note[D] : notified[note[D][i]] = "none" \/ VainAfter(note[D][i])
    BY <1>2, <2>1, VainKept
  <2>. QED  BY <1>2, <1>4, <2>2, NoteAfter
<1>. QED  BY <1>2, <1>14, <1>15, <1>16, <1>17 DEF OnceInv, OnceUnlessInterrupted

\* A stop repeats nothing, and a crash what it had in hand at most.
LEMMA OnceGone ==
  ASSUME OnceInv, DInv', Exit \/ Crash
  PROVE  OnceInv'
<1>1. /\ NamedOnce /\ NoteInv /\ Settled /\ NeverExpired /\ CallInv
      /\ repeated \subseteq excused /\ P!TypeOK
  BY OnceParts
<1>2. /\ P!Die(D) /\ stage' = "wait" /\ UNCHANGED targets
      /\ IF stage = "events" /\ call # NoCall THEN Receipts ELSE UNCHANGED <<received, repeated>>
  BY DEF Exit, Crash, Gone
<1>3. /\ phase'[D] = "down" /\ note'[D] = <<>> /\ todo'[D] = <<>> /\ UNCHANGED notified
  BY <1>1, <1>2 DEF P!Die, P!TypeOK
<1>4. NamedOnce' /\ NeverExpired' /\ GotInv' /\ NoteInv'
  BY <1>1, <1>2, <1>3, GotNothing, NoteAfter DEF NamedOnce, NeverExpired
<1>. DEFINE B == P!Items(P!Batch(D))
<1>5. /\ received' \subseteq received \union (Notifiers \X B)
      /\ repeated' \subseteq repeated \union (Notifiers \X B)
  <2>1. CASE stage = "events" /\ call # NoCall
    <3>. DEFINE part == [i \in call.got |-> P!Batch(D)[i]]
                again == {g \in P!Items(part) : <<call.target, g>> \in received \/ P!HasTwice(part, g)}
    <3>1. /\ call.target \in Notifiers /\ Current = P!Batch(D)
          /\ call.got \subseteq DOMAIN P!Batch(D)
      BY <1>1, <2>1, EventCall, Zenon
    <3>2. P!Receive(call.target, part)
      BY <1>2, <2>1, <3>1, Zenon DEF Receipts
    <3>3. P!Items(part) \subseteq B
      BY <3>1 DEF P!Items
    <3>4. /\ received' = received \union ({call.target} \X P!Items(part))
          /\ repeated' = repeated \union {<<call.target, f>> : f \in again}
      BY <3>2, Zenon DEF P!Receive
    <3>5. again \subseteq B
      BY <3>3
    <3>. HIDE DEF part, again, B
    <3>. QED  BY <3>1, <3>3, <3>4, <3>5
  <2>2. CASE ~(stage = "events" /\ call # NoCall)
    BY <1>2, <2>2
  <2>. QED  BY <2>1, <2>2
<1>6. excused \subseteq excused' /\ Notifiers \X B \subseteq excused'
  <2>1. CASE Exit
    <3>1. excused' = excused /\ phase[D] = "idle"
      BY <2>1 DEF Exit
    <3>2. note[D] = <<>>
      BY <3>1, OnceParts DEF Staged
    <3>3. P!Batch(D) = <<>>
      BY <3>2 DEF P!Batch
    <3>4. B = {}
      BY <3>3 DEF P!Items
    <3>. QED  BY <3>1, <3>4
  <2>2. CASE Crash
    BY <2>2 DEF Crash, Excuse
  <2>. QED  BY <2>1, <2>2
<1>7. Settled'
  <2>1. \A n \in Notifiers, f \in Fingerprints : OnTheWay(n, f) => f \in B
    BY DEF OnTheWay, P!Items
  <2>. HIDE DEF B
  <2>. QED  BY <1>1, <1>3, <1>5, <1>6, <2>1 DEF Settled
<1>8. OnceUnlessInterrupted'
  <2>. HIDE DEF B
  <2>. QED  BY <1>1, <1>5, <1>6 DEF OnceUnlessInterrupted
<1>. QED  BY <1>4, <1>7, <1>8 DEF OnceInv

\* The initial states.
LEMMA InitOnce == DInit => OnceInv
<1>. SUFFICES ASSUME DInit PROVE OnceInv
  OBVIOUS
<1>1. DInv
  BY InitDInv
<1>2. P!Init /\ call = NoCall /\ excused = {}
  BY DEF DInit
<1>3. /\ phase[D] = "down" /\ note[D] = <<>> /\ todo[D] = <<>> /\ received = {} /\ repeated = {}
      /\ \A f \in Fingerprints : notified[f] = "none"
  BY <1>2 DEF P!Init
<1>4. NamedOnce /\ NoteInv /\ GotInv /\ Settled /\ NeverExpired /\ OnceUnlessInterrupted
  BY <1>2, <1>3 DEF NamedOnce, NoteInv, GotInv, Settled, NeverExpired, OnceUnlessInterrupted
<1>. QED  BY <1>1, <1>4 DEF OnceInv

\* OnceInv is inductive.
LEMMA StepOnce == ASSUME EachOnce PROVE OnceInv /\ [DNext]_allVars => OnceInv'
<1>. SUFFICES ASSUME OnceInv, [DNext]_allVars PROVE OnceInv'
  OBVIOUS
<1>1. DInv'
  BY StepDInv, OnceParts
<1>2. CASE Start
  BY <1>1, <1>2, OnceStart
<1>3. CASE BeginCycle
  BY <1>1, <1>3, OnceBegin
<1>4. CASE Cycle
  <2>1. UNCHANGED targets
    BY <1>4 DEF Cycle
  <2>. QED
    BY <1>1, <1>4, <2>1, OnceBuild, OnceCall, OnceReturn, OnceEndDeliver, OnceMark, Zenon
    DEF Cycle
<1>5. CASE Cancel
  BY <1>1, <1>5, OnceCall DEF Cancel
<1>6. CASE Exit \/ Crash
  BY <1>1, <1>6, OnceGone
<1>7. CASE UNCHANGED allVars
  <2>1. UNCHANGED <<pipeVars, targets, excused, cancelled, call, stage, alertVars>>
    BY <1>7 DEF allVars
  <2>2. Current' = Current /\ notified' = notified
    BY <2>1, CallFrame DEF pipeVars
  <2>3. GotInv'
    BY <2>1, <2>2, OnceParts DEF GotInv
  <2>. QED  BY <1>1, <2>1, <2>3, OnceKept
<1>. QED  BY <1>2, <1>3, <1>4, <1>5, <1>6, <1>7, Zenon DEF DNext

\* "once per event" as far as it goes: if no check names an event twice, a
\* target gets an event again only after a delivery of it that failed, could not
\* be recorded or was cut short, or when the lookup of its row failed, whatever
\* the targets and wherever SIGTERM and crashes fall.
THEOREM DeliveryOnce == ASSUME EachOnce PROVE DSpec => []OnceUnlessInterrupted
<1>1. OnceInv => OnceUnlessInterrupted
  BY DEF OnceInv
<1>. QED  BY InitOnce, StepOnce, <1>1, PTL DEF DSpec

=============================================================================
