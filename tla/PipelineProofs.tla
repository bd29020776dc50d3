---------------------------- MODULE PipelineProofs ---------------------------
(***************************************************************************)
(* What the pipeline guarantees for any number of processes, notifiers and *)
(* events, in either mode and with every combination of faults.            *)
(***************************************************************************)
EXTENDS Pipeline, SequenceTheorems, TLAPS

\* A batch that counts as delivered is in the hands of one target, whole.
BatchReceived ==
  \A p \in Procs :
    delivered[p] => \E n \in Notifiers : \A f \in Items(Batch(p)) : <<n, f>> \in received

\* Marking only starts on a delivered batch.
MarkingDelivered ==
  \A p \in Procs : phase[p] = "marking" => delivered[p]

\* Before delivery starts nothing counts as delivered.
DeliveredPhase ==
  \A p \in Procs : delivered[p] => phase[p] \in {"delivering", "marking"}

IInv ==
  /\ TypeOK
  /\ BatchReceived
  /\ MarkingDelivered
  /\ DeliveredPhase
  /\ MarkedWasReceived

-----------------------------------------------------------------------------

\* The elements of a sequence of fingerprints are fingerprints.
LEMMA ItemsType ==
  ASSUME NEW s \in Seq(Fingerprints)
  PROVE  Items(s) \subseteq Fingerprints
  BY DEF Items

\* Batch and Rest cut the notification in two.
LEMMA BatchType ==
  ASSUME TypeOK, NEW p \in Procs
  PROVE  /\ Batch(p) \in Seq(Fingerprints)
         /\ Rest(p) \in Seq(Fingerprints)
         /\ Items(Batch(p)) \subseteq Fingerprints
<1>1. note[p] \in Seq(Fingerprints)
  BY DEF TypeOK
<1>2. note[p] # <<>> => Head(note[p]) \in Fingerprints /\ Tail(note[p]) \in Seq(Fingerprints)
  BY <1>1, HeadTailProperties
<1>3. Batch(p) \in Seq(Fingerprints) /\ Rest(p) \in Seq(Fingerprints)
  BY <1>1, <1>2 DEF Batch, Rest
<1> QED
  BY <1>3, ItemsType

\* Receive only adds to the history, and only receipts of its target.
LEMMA ReceiveFacts ==
  ASSUME TypeOK, NEW n \in Notifiers, NEW s, Items(s) \subseteq Fingerprints, Receive(n, s)
  PROVE  /\ received \subseteq received'
         /\ \A f \in Items(s) : <<n, f>> \in received'
         /\ received' \subseteq Receipts /\ repeated' \subseteq Receipts
<1>1. Items(s) \subseteq Fingerprints
  OBVIOUS
<1>2. received' = received \union ({n} \X Items(s))
  BY DEF Receive
<1>3. repeated' \subseteq repeated \union ({n} \X Items(s))
  <2> DEFINE again == {g \in Items(s) : <<n, g>> \in received \/ HasTwice(s, g)}
  <2>1. repeated' = repeated \union {<<n, f>> : f \in again}
    BY DEF Receive
  <2>2. again \subseteq Items(s)
    OBVIOUS
  <2> HIDE DEF again
  <2> QED
    BY <2>1, <2>2
<1> QED
  BY <1>1, <1>2, <1>3 DEF TypeOK, Receipts

\* Handing over a part of the batch only adds receipts of fingerprints.
LEMMA PartFacts ==
  ASSUME TypeOK, NEW p \in Procs, HandPart(p)
  PROVE  /\ received \subseteq received'
         /\ received' \subseteq Receipts /\ repeated' \subseteq Receipts
<1>1. PICK I \in SUBSET DOMAIN Batch(p) : Receive(cursor[p], [i \in I |-> Batch(p)[i]])
  BY DEF HandPart
<1>2. Items([i \in I |-> Batch(p)[i]]) \subseteq Fingerprints
  BY <1>1, BatchType DEF Items
<1>3. cursor[p] \in Notifiers
  BY DEF HandPart
<1> QED
  BY <1>1, <1>2, <1>3, ReceiveFacts

-----------------------------------------------------------------------------

\* The empty database of a first start.
LEMMA InitIInv == Init => IInv
  BY DEF Init, IInv, TypeOK, BatchReceived, MarkingDelivered, DeliveredPhase,
         MarkedWasReceived, Phases, Receipts

\* Type correctness of every step.
LEMMA TypeStep == TypeOK /\ [Next]_vars => TypeOK'
<1> SUFFICES ASSUME TypeOK, [Next]_vars PROVE TypeOK'
  OBVIOUS
<1>1. ASSUME NEW p \in Procs, Open(p) PROVE TypeOK'
  BY <1>1 DEF TypeOK, Open, Phases
<1>2. ASSUME NEW p \in Procs, NEW items \in ItemLists, Begin(p, items) PROVE TypeOK'
  BY <1>2, PipelineAssumption DEF TypeOK, Begin, Phases
<1>3. ASSUME NEW p \in Procs, SkipUnwanted(p) \/ SuppressNotified(p) PROVE TypeOK'
  <2>1. todo[p] # <<>> /\ todo' = [todo EXCEPT ![p] = Tail(@)]
    BY <1>3 DEF SkipUnwanted, SuppressNotified
  <2>2. UNCHANGED <<phase, note, cursor, delivered, notified, received, repeated>>
    BY <1>3 DEF SkipUnwanted, SuppressNotified
  <2> QED
    BY <2>1, <2>2 DEF TypeOK
<1>4. ASSUME NEW p \in Procs, IncludeItem(p) PROVE TypeOK'
  <2>1. todo[p] \in Seq(Item) /\ todo[p] # <<>>
    BY <1>4 DEF TypeOK, IncludeItem
  <2>2. Head(todo[p]) \in Item /\ Tail(todo[p]) \in Seq(Item)
    BY <2>1, HeadTailProperties
  <2>3. Head(todo[p]).fp \in Fingerprints
    BY <2>2 DEF Item
  <2> QED
    BY <1>4, <2>2, <2>3 DEF TypeOK, IncludeItem
<1>5. ASSUME NEW p \in Procs, FinishBuild(p) PROVE TypeOK'
  BY <1>5 DEF TypeOK, FinishBuild, Phases
<1>6. ASSUME NEW p \in Procs, NotifyOK(p) PROVE TypeOK'
  <2>1. Receive(cursor[p], Batch(p)) /\ cursor[p] \in Notifiers
    BY <1>6 DEF NotifyOK
  <2>2. received' \subseteq Receipts /\ repeated' \subseteq Receipts
    BY <2>1, BatchType, ReceiveFacts
  <2> QED
    BY <1>6, <2>2 DEF TypeOK, NotifyOK
<1>7. ASSUME NEW p \in Procs, NotifyFail(p) PROVE TypeOK'
  <2>1. received' \subseteq Receipts /\ repeated' \subseteq Receipts
    BY <1>7, PartFacts DEF NotifyFail
  <2> QED
    BY <1>7, <2>1 DEF TypeOK, NotifyFail
<1>8. ASSUME NEW p \in Procs, NextBatch(p),
             UNCHANGED <<todo, notified, received, repeated>>
      PROVE  TypeOK'
  BY <1>8, BatchType DEF TypeOK, NextBatch, Phases
<1>9. ASSUME NEW p \in Procs, EndDeliver(p) PROVE TypeOK'
  <2>1. CASE NextBatch(p)
    BY <1>8, <1>9, <2>1 DEF EndDeliver
  <2>2. CASE ~NextBatch(p)
    <3>1. /\ phase' = [phase EXCEPT ![p] = "marking"]
          /\ cursor' = [cursor EXCEPT ![p] = 1]
          /\ UNCHANGED <<todo, note, delivered, notified, received, repeated>>
      BY <1>9, <2>2, Zenon DEF EndDeliver
    <3> QED
      BY <3>1 DEF TypeOK, Phases
  <2> QED
    BY <2>1, <2>2
<1>10. ASSUME NEW p \in Procs, EndMark(p) PROVE TypeOK'
  BY <1>8, <1>10 DEF EndMark
<1>11. ASSUME NEW p \in Procs, MarkItem(p) PROVE TypeOK'
  <2>1. /\ notified' = [notified EXCEPT ![Batch(p)[cursor[p]]] = "fresh"]
        /\ cursor' = [cursor EXCEPT ![p] = @ + 1]
        /\ UNCHANGED <<phase, todo, note, delivered, received, repeated>>
    BY <1>11 DEF MarkItem
  <2>2. notified' \in [Fingerprints -> {"none", "fresh", "expired"}]
    BY <2>1 DEF TypeOK
  <2>3. cursor' \in [Procs -> Nat \ {0}]
    BY <2>1 DEF TypeOK
  <2> QED
    BY <2>1, <2>2, <2>3 DEF TypeOK
<1>12. ASSUME NEW p \in Procs, MarkFail(p) PROVE TypeOK'
  BY <1>12 DEF TypeOK, MarkFail
<1>13. ASSUME NEW p \in Procs, Stop(p) \/ Crash(p) PROVE TypeOK'
  <2>1. Die(p)
    BY <1>13 DEF Stop, Crash
  <2>2. received' \subseteq Receipts /\ repeated' \subseteq Receipts
    BY <2>1, PartFacts DEF Die, TypeOK
  <2> QED
    BY <2>1, <2>2 DEF TypeOK, Die, Phases
<1>14. ASSUME NEW f \in Fingerprints, Expire(f) PROVE TypeOK'
  BY <1>14 DEF TypeOK, Expire
<1>15. CASE UNCHANGED vars
  BY <1>15 DEF TypeOK, vars
<1> QED
  BY <1>1, <1>2, <1>3, <1>4, <1>5, <1>6, <1>7, <1>9, <1>10, <1>11, <1>12,
     <1>13, <1>14, <1>15
  DEF Next, Cycle

-----------------------------------------------------------------------------

\* What every step but NotifyOK and MarkItem respects: no receipt is lost, no
\* batch becomes delivered or changes while it is, and no row is added.
Quiet ==
  /\ received \subseteq received'
  /\ \A q \in Procs : delivered'[q] => delivered[q] /\ note'[q] = note[q]
  /\ \A f \in Fingerprints : notified'[f] # "none" => notified[f] # "none"

\* The two control invariants together.
PhaseInv == MarkingDelivered /\ DeliveredPhase

\* Delivered batches stay received when receipts are only added.
LEMMA KeepBatch ==
  ASSUME BatchReceived, received \subseteq received',
         \A q \in Procs : delivered'[q] => delivered[q] /\ note'[q] = note[q]
  PROVE  BatchReceived'
<1> SUFFICES ASSUME NEW q \in Procs, delivered'[q]
             PROVE  \E n \in Notifiers : \A f \in Items(Batch(q)') : <<n, f>> \in received'
  BY DEF BatchReceived, Items
<1>1. delivered[q] /\ Batch(q)' = Batch(q)
  BY DEF Batch
<1>2. PICK n \in Notifiers : \A f \in Items(Batch(q)) : <<n, f>> \in received
  BY <1>1 DEF BatchReceived
<1> QED
  BY <1>1, <1>2

\* Rows stay justified when neither rows are added nor receipts removed.
LEMMA KeepMarked ==
  ASSUME MarkedWasReceived, received \subseteq received',
         \A f \in Fingerprints : notified'[f] # "none" => notified[f] # "none"
  PROVE  MarkedWasReceived'
  BY DEF MarkedWasReceived

\* The two lemmas together.
LEMMA QuietStep ==
  ASSUME IInv, Quiet
  PROVE  BatchReceived' /\ MarkedWasReceived'
  BY KeepBatch, KeepMarked DEF IInv, Quiet

\* Opening the store removes expired rows and nothing else.
LEMMA OpenQuiet ==
  ASSUME IInv, NEW p \in Procs, Open(p)
  PROVE  Quiet /\ PhaseInv'
<1>1. Quiet
  BY DEF Quiet, Open, IInv, TypeOK
<1>2. PhaseInv'
  BY DEF PhaseInv, MarkingDelivered, DeliveredPhase, Open, IInv, TypeOK
<1> QED
  BY <1>1, <1>2

\* Starting and running BuildNotification delivers and marks nothing.
LEMMA BuildQuiet ==
  ASSUME IInv, NEW p \in Procs,
         \/ \E items \in ItemLists : Begin(p, items)
         \/ SkipUnwanted(p) \/ SuppressNotified(p) \/ IncludeItem(p) \/ FinishBuild(p)
  PROVE  Quiet /\ PhaseInv'
<1>1. /\ UNCHANGED <<notified, received>>
      /\ phase[p] \in {"idle", "building"}
      /\ \A q \in Procs \ {p} : phase'[q] = phase[q] /\ note'[q] = note[q]
      /\ phase'[p] \in {"idle", "building", "delivering"}
  BY DEF Begin, SkipUnwanted, SuppressNotified, IncludeItem, FinishBuild, IInv, TypeOK
<1>2. ~delivered[p]
  BY <1>1 DEF IInv, DeliveredPhase
<1>3. /\ ~delivered'[p]
      /\ \A q \in Procs \ {p} : delivered'[q] = delivered[q]
  BY <1>2 DEF Begin, SkipUnwanted, SuppressNotified, IncludeItem, FinishBuild, IInv, TypeOK
<1> QED
  BY <1>1, <1>3 DEF Quiet, PhaseInv, MarkingDelivered, DeliveredPhase, IInv

\* Moving to the next batch, or giving the rest up, starts afresh.
LEMMA NextBatchQuiet ==
  ASSUME IInv, NEW p \in Procs, NextBatch(p), UNCHANGED <<notified, received>>
  PROVE  Quiet /\ PhaseInv'
<1>1. /\ phase'[p] \in {"idle", "delivering"} /\ ~delivered'[p]
      /\ \A q \in Procs \ {p} : /\ phase'[q] = phase[q] /\ note'[q] = note[q]
                                /\ delivered'[q] = delivered[q]
  BY DEF NextBatch, IInv, TypeOK
<1> QED
  BY <1>1 DEF Quiet, PhaseInv, MarkingDelivered, DeliveredPhase, IInv

\* Deliver's end: only a delivered batch goes on to be marked.
LEMMA EndDeliverQuiet ==
  ASSUME IInv, NEW p \in Procs, EndDeliver(p)
  PROVE  Quiet /\ PhaseInv'
<1>1. CASE delivered[p]
  <2>1. /\ phase' = [phase EXCEPT ![p] = "marking"]
        /\ UNCHANGED <<note, delivered, notified, received>>
    BY <1>1 DEF EndDeliver
  <2> QED
    BY <1>1, <2>1 DEF Quiet, PhaseInv, MarkingDelivered, DeliveredPhase, IInv, TypeOK
<1>2. CASE ~delivered[p]
  BY <1>2, NextBatchQuiet DEF EndDeliver
<1> QED
  BY <1>1, <1>2

\* A failed notifier may have handed over something, which only adds receipts.
LEMMA NotifyFailQuiet ==
  ASSUME IInv, NEW p \in Procs, NotifyFail(p)
  PROVE  Quiet /\ PhaseInv'
<1>1. UNCHANGED <<phase, note, delivered, notified>>
  BY DEF NotifyFail
<1>2. received \subseteq received'
  BY PartFacts DEF NotifyFail, IInv
<1> QED
  BY <1>1, <1>2 DEF Quiet, PhaseInv, MarkingDelivered, DeliveredPhase, IInv

\* The remaining steps add no receipt and no row.
LEMMA OtherQuiet ==
  ASSUME IInv,
         \/ \E p \in Procs : MarkFail(p) \/ EndMark(p) \/ Stop(p) \/ Crash(p)
         \/ \E f \in Fingerprints : Expire(f)
         \/ UNCHANGED vars
  PROVE  Quiet /\ PhaseInv'
<1>1. ASSUME NEW p \in Procs, MarkFail(p) PROVE Quiet /\ PhaseInv'
  BY <1>1 DEF MarkFail, Quiet, PhaseInv, MarkingDelivered, DeliveredPhase, IInv
<1>2. ASSUME NEW p \in Procs, EndMark(p) PROVE Quiet /\ PhaseInv'
  BY <1>2, NextBatchQuiet DEF EndMark
<1>3. ASSUME NEW p \in Procs, Stop(p) \/ Crash(p) PROVE Quiet /\ PhaseInv'
  <2>1. Die(p)
    BY <1>3 DEF Stop, Crash
  <2>2. /\ phase'[p] = "down" /\ ~delivered'[p] /\ UNCHANGED notified
        /\ \A q \in Procs \ {p} : /\ phase'[q] = phase[q] /\ note'[q] = note[q]
                                  /\ delivered'[q] = delivered[q]
    BY <2>1 DEF Die, IInv, TypeOK
  <2>3. received \subseteq received'
    BY <2>1, PartFacts DEF Die, IInv
  <2> QED
    BY <2>2, <2>3 DEF Quiet, PhaseInv, MarkingDelivered, DeliveredPhase, IInv
<1>4. ASSUME NEW f \in Fingerprints, Expire(f) PROVE Quiet /\ PhaseInv'
  <2>1. \A g \in Fingerprints : notified'[g] # "none" => notified[g] # "none"
    BY <1>4 DEF Expire, IInv, TypeOK
  <2> QED
    BY <1>4, <2>1 DEF Expire, Quiet, PhaseInv, MarkingDelivered, DeliveredPhase, IInv
<1>5. CASE UNCHANGED vars
  BY <1>5 DEF vars, Quiet, PhaseInv, MarkingDelivered, DeliveredPhase, IInv
<1> QED
  BY <1>1, <1>2, <1>3, <1>4, <1>5

\* A notifier's success puts the whole batch in its target's hands.
LEMMA NotifyOKStep ==
  ASSUME IInv, NEW p \in Procs, NotifyOK(p)
  PROVE  BatchReceived' /\ PhaseInv' /\ MarkedWasReceived'
<1>1. /\ phase[p] = "delivering" /\ cursor[p] \in Notifiers
      /\ Receive(cursor[p], Batch(p)) /\ UNCHANGED <<phase, note, notified>>
      /\ \A q \in Procs \ {p} : delivered'[q] = delivered[q]
  BY DEF NotifyOK, IInv, TypeOK
<1>2. /\ received \subseteq received'
      /\ \A f \in Items(Batch(p)) : <<cursor[p], f>> \in received'
  BY <1>1, BatchType, ReceiveFacts DEF IInv
<1>3. \A q \in Procs : Batch(q)' = Batch(q)
  BY <1>1 DEF Batch
<1>4. BatchReceived'
  <2> SUFFICES ASSUME NEW q \in Procs, delivered'[q]
               PROVE  \E n \in Notifiers : \A f \in Items(Batch(q)') : <<n, f>> \in received'
    BY DEF BatchReceived, Items
  <2>1. CASE q = p
    BY <1>1, <1>2, <1>3, <2>1
  <2>2. CASE q # p
    <3>1. PICK n \in Notifiers : \A f \in Items(Batch(q)) : <<n, f>> \in received
      BY <1>1, <2>2 DEF IInv, BatchReceived
    <3> QED
      BY <1>2, <1>3, <3>1
  <2> QED
    BY <2>1, <2>2
<1>5. delivered'[p] /\ phase'[p] = "delivering"
  BY <1>1 DEF NotifyOK, IInv, TypeOK
<1>6. PhaseInv'
  BY <1>1, <1>5 DEF PhaseInv, MarkingDelivered, DeliveredPhase, IInv
<1>7. MarkedWasReceived'
  BY <1>1, <1>2, KeepMarked DEF IInv
<1> QED
  BY <1>4, <1>6, <1>7

\* A row is added for an item of a delivered batch.
LEMMA MarkItemStep ==
  ASSUME IInv, NEW p \in Procs, MarkItem(p)
  PROVE  BatchReceived' /\ PhaseInv' /\ MarkedWasReceived'
<1> DEFINE g == Batch(p)[cursor[p]]
<1>1. /\ phase[p] = "marking" /\ cursor[p] \in DOMAIN Batch(p)
      /\ notified' = [notified EXCEPT ![g] = "fresh"]
      /\ UNCHANGED <<phase, note, delivered, received>>
  BY DEF MarkItem
<1>2. g \in Items(Batch(p))
  BY <1>1 DEF Items
<1>3. \E n \in Notifiers : <<n, g>> \in received
  BY <1>1, <1>2 DEF IInv, MarkingDelivered, BatchReceived
<1>4. MarkedWasReceived'
  <2> HIDE DEF g
  <2> QED
    BY <1>1, <1>3 DEF MarkedWasReceived, IInv, TypeOK
<1>5. BatchReceived'
  BY <1>1, KeepBatch DEF IInv
<1>6. PhaseInv'
  BY <1>1 DEF PhaseInv, MarkingDelivered, DeliveredPhase, IInv
<1> QED
  BY <1>4, <1>5, <1>6

\* IInv is inductive.
LEMMA StepIInv == IInv /\ [Next]_vars => IInv'
<1> SUFFICES ASSUME IInv, [Next]_vars PROVE IInv'
  OBVIOUS
<1>1. TypeOK'
  BY TypeStep DEF IInv
<1>2. BatchReceived' /\ PhaseInv' /\ MarkedWasReceived'
  <2>1. ASSUME NEW p \in Procs, NotifyOK(p)
        PROVE  BatchReceived' /\ PhaseInv' /\ MarkedWasReceived'
    BY <2>1, NotifyOKStep
  <2>2. ASSUME NEW p \in Procs, MarkItem(p)
        PROVE  BatchReceived' /\ PhaseInv' /\ MarkedWasReceived'
    BY <2>2, MarkItemStep
  <2>3. ASSUME Quiet /\ PhaseInv'
        PROVE  BatchReceived' /\ PhaseInv' /\ MarkedWasReceived'
    BY <2>3, QuietStep
  <2> QED
    BY <2>1, <2>2, <2>3, OpenQuiet, BuildQuiet, NotifyFailQuiet, EndDeliverQuiet,
       OtherQuiet
    DEF Next, Cycle
<1> QED
  BY <1>1, <1>2 DEF IInv, PhaseInv

\* The pipeline's state keeps its type: in particular the cursor over the
\* notifiers and over the items of a batch never starts before the first.
THEOREM PipelineTyped == Spec => []TypeOK
<1>1. IInv => TypeOK
  BY DEF IInv
<1> QED
  BY InitIInv, StepIInv, <1>1, PTL DEF Spec

\* MarkDelivered hides nothing unseen: with any number of processes sharing
\* the database, any notifiers, either mode and every fault, a fingerprint
\* that has a row has reached a target.
THEOREM PipelineSafe == Spec => []MarkedWasReceived
<1>1. IInv => MarkedWasReceived
  BY DEF IInv
<1> QED
  BY InitIInv, StepIInv, <1>1, PTL DEF Spec

-----------------------------------------------------------------------------

\* The refinement mapping: a retired notification is one with a row.
Retired == {f \in Fingerprints : notified[f] # "none"}

\* Nothing the ledger records changes when neither history nor rows do.
LEMMA StutterStep ==
  ASSUME received' = received, Retired' = Retired
  PROVE  UNCHANGED Promise!vars
  BY DEF Promise!vars, Retired

\* A target that gets items of a batch is a Receive of the ledger.
LEMMA ReceiveStep ==
  ASSUME TypeOK, NEW n \in Notifiers, NEW s, Items(s) \subseteq Fingerprints,
         Receive(n, s), notified' = notified
  PROVE  Promise!Next
<1>1. Items(s) \in SUBSET Fingerprints
  OBVIOUS
<1>2. Promise!Receive(n, Items(s))
  BY DEF Promise!Receive, Receive
<1> QED
  BY <1>1, <1>2 DEF Promise!Next

\* So is a part of one.
LEMMA PartStep ==
  ASSUME TypeOK, NEW p \in Procs, HandPart(p), notified' = notified
  PROVE  Promise!Next
<1>1. PICK I \in SUBSET DOMAIN Batch(p) : Receive(cursor[p], [i \in I |-> Batch(p)[i]])
  BY DEF HandPart
<1>2. Items([i \in I |-> Batch(p)[i]]) \subseteq Fingerprints
  BY <1>1, BatchType DEF Items
<1> QED
  BY <1>1, <1>2, ReceiveStep DEF HandPart

\* A new row for something a target has is a Retire of the ledger.
LEMMA RetireStep ==
  ASSUME NEW g \in Fingerprints, \E n \in Notifiers : <<n, g>> \in received,
         Retired' = Retired \union {g}, received' = received
  PROVE  Promise!Next
<1>1. Promise!Retire(g)
  BY DEF Promise!Retire, Retired
<1> QED
  BY <1>1 DEF Promise!Next

\* Pruned rows are a Forget of the ledger.
LEMMA ForgetStep ==
  ASSUME NEW F \in SUBSET Fingerprints, F \subseteq Retired,
         Retired' = Retired \ F, received' = received
  PROVE  Promise!Next
<1>1. Promise!Forget(F)
  BY DEF Promise!Forget, Retired
<1> QED
  BY <1>1 DEF Promise!Next

\* Every step of the pipeline is a step of the ledger or leaves it alone.
LEMMA SimulationStep == IInv /\ [Next]_vars => [Promise!Next]_(Promise!vars)
<1> SUFFICES ASSUME IInv, [Next]_vars PROVE Promise!Next \/ UNCHANGED Promise!vars
  OBVIOUS
<1>0. TypeOK
  BY DEF IInv
<1>1. ASSUME NEW p \in Procs, Open(p) PROVE Promise!Next
  <2> DEFINE F == {f \in Fingerprints : notified[f] = "expired"}
  <2>1. /\ Retired' = Retired \ F /\ F \subseteq Retired /\ F \in SUBSET Fingerprints
        /\ received' = received
    BY <1>1 DEF Open, Retired
  <2> HIDE DEF F
  <2> QED
    BY <2>1, ForgetStep
<1>2. ASSUME NEW p \in Procs, NotifyOK(p) PROVE Promise!Next
  BY <1>0, <1>2, BatchType, ReceiveStep DEF NotifyOK
<1>3. ASSUME NEW p \in Procs, NotifyFail(p) PROVE Promise!Next
  BY <1>0, <1>3, PartStep DEF NotifyFail
<1>4. ASSUME NEW p \in Procs, MarkItem(p) PROVE Promise!Next
  <2> DEFINE g == Batch(p)[cursor[p]]
  <2>1. /\ phase[p] = "marking" /\ cursor[p] \in DOMAIN Batch(p)
        /\ notified' = [notified EXCEPT ![g] = "fresh"] /\ received' = received
    BY <1>4 DEF MarkItem
  <2>2. g \in Items(Batch(p)) /\ g \in Fingerprints
    BY <1>0, <2>1, BatchType DEF Items
  <2>3. \E n \in Notifiers : <<n, g>> \in received
    BY <2>1, <2>2 DEF IInv, MarkingDelivered, BatchReceived
  <2> HIDE DEF g
  <2>4. Retired' = Retired \union {g}
    BY <1>0, <2>1, <2>2 DEF Retired, TypeOK
  <2> QED
    BY <2>1, <2>2, <2>3, <2>4, RetireStep
<1>5. ASSUME NEW f \in Fingerprints, Expire(f) PROVE UNCHANGED Promise!vars
  <2>1. Retired' = Retired /\ received' = received
    BY <1>0, <1>5 DEF Expire, Retired, TypeOK
  <2> QED
    BY <2>1, StutterStep
<1>6. ASSUME received' = received, notified' = notified PROVE UNCHANGED Promise!vars
  BY <1>6, StutterStep DEF Retired
<1>7. ASSUME NEW p \in Procs,
             \/ \E items \in ItemLists : Begin(p, items)
             \/ SkipUnwanted(p) \/ SuppressNotified(p) \/ IncludeItem(p)
             \/ FinishBuild(p) \/ EndDeliver(p) \/ MarkFail(p) \/ EndMark(p)
      PROVE  UNCHANGED Promise!vars
  <2>1. received' = received /\ notified' = notified
    BY <1>7 DEF Begin, SkipUnwanted, SuppressNotified, IncludeItem, FinishBuild,
               EndDeliver, MarkFail, EndMark
  <2> QED
    BY <1>6, <2>1
<1>8. ASSUME NEW p \in Procs, Stop(p) \/ Crash(p)
      PROVE  Promise!Next \/ UNCHANGED Promise!vars
  <2>1. notified' = notified /\ (HandPart(p) \/ received' = received)
    BY <1>8 DEF Stop, Crash, Die
  <2> QED
    BY <1>0, <1>6, <2>1, PartStep
<1>9. CASE UNCHANGED vars
  BY <1>6, <1>9 DEF vars
<1> QED
  BY <1>1, <1>2, <1>3, <1>4, <1>5, <1>7, <1>8, <1>9 DEF Next, Cycle

\* The pipeline implements the delivery ledger: whatever fails, dies or runs
\* beside it, each of its steps hands notifications over, retires one that
\* was handed over, forgets retired ones, or does nothing a recipient sees.
THEOREM PipelineRefinesLedger == Spec => KeepsLedger
<1>1. Init => Promise!Init
  BY DEF Init, Promise!Init
<1> QED
  BY <1>1, InitIInv, StepIInv, SimulationStep, PTL DEF Spec, KeepsLedger, Promise!Spec
=============================================================================
