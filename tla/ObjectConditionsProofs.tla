----------------------- MODULE ObjectConditionsProofs -----------------------
(***************************************************************************)
(* Proofs about ObjectConditions, for every set of specs and clusters and  *)
(* every value of the two budgets.                                         *)
(***************************************************************************)
EXTENDS ObjectConditions, TLAPS

LEMMA FaultType ==
  ASSUME TypeOK, Fault
  PROVE  faults' \in 0..MaxFaults /\ faults' # 0
<1>1. faults \in 0..MaxFaults /\ faults < MaxFaults /\ faults' = faults + 1
  BY DEF Fault, TypeOK
<1> QED BY <1>1, Constants DEF ConstantsAssumption

LEMMA EditType ==
  ASSUME TypeOK, Edit
  PROVE  edits' \in 0..MaxEdits
<1>1. edits \in 0..MaxEdits /\ edits < MaxEdits /\ edits' = edits + 1
  BY DEF Edit, TypeOK
<1> QED BY <1>1, Constants DEF ConstantsAssumption

(* What an update of one condition can do.                                 *)
LEMMA PublishEffect ==
  ASSUME TypeOK, NEW fresh \in BOOLEAN, NEW condition \in Conditions,
         Publish(fresh, condition)
  PROVE  /\ status' \in [Conditions -> Verdicts \cup {"unset"}]
         /\ behind' \in BOOLEAN
         /\ faults' \in 0..MaxFaults
         /\ behind => behind'
         /\ ~behind' /\ fresh /\ faults' = 0 =>
              status' = status /\ status[condition] = verdict
         /\ \/ status' = status
            \/ fresh /\ status' = [status EXCEPT ![condition] = verdict]
<1> DEFINE written == [status EXCEPT ![condition] = verdict]
<1>0. /\ status \in [Conditions -> Verdicts \cup {"unset"}] /\ verdict \in Verdicts
      /\ behind \in BOOLEAN /\ faults \in 0..MaxFaults
  BY DEF TypeOK
<1>1. CASE /\ fresh /\ status' = written
           /\ behind' = (behind \/ status' # status) /\ UNCHANGED faults
  <2>1. written \in [Conditions -> Verdicts \cup {"unset"}] /\ written[condition] = verdict
    BY <1>0
  <2> DEFINE changed == status' # status
  <2>2. behind' \in BOOLEAN /\ (behind => behind') /\ (~behind' => status' = status)
    <3>1. behind' = (behind \/ changed) /\ changed \in BOOLEAN
      BY <1>1
    <3>2. behind' \in BOOLEAN /\ (behind => behind') /\ (~behind' => ~changed)
      <4> HIDE DEF changed
      <4> QED BY <1>0, <3>1, Zenon
    <3> QED BY <3>2
  <2> HIDE DEF written
  <2>3. ~behind' => status' = status /\ status[condition] = verdict
    BY <1>1, <2>1, <2>2
  <2>4. status' \in [Conditions -> Verdicts \cup {"unset"}] /\ faults' \in 0..MaxFaults
    BY <1>0, <1>1, <2>1
  <2> QED BY <1>1, <2>2, <2>3, <2>4 DEF written
<1>2. CASE ~fresh /\ UNCHANGED <<status, behind, faults>>
  <2>1. ~fresh /\ status' = status /\ behind' = behind /\ faults' = faults
    BY <1>2
  <2> QED BY <1>0, <2>1, Zenon
<1>3. CASE Fault /\ UNCHANGED <<status, behind>>
  <2>1. status' = status /\ behind' = behind
    BY <1>3
  <2>2. faults' \in 0..MaxFaults /\ faults' # 0
    BY <1>3, FaultType
  <2> QED BY <1>0, <2>1, <2>2, Zenon
<1> QED BY <1>1, <1>2, <1>3 DEF Publish

LEMMA ConditionNames ==
  \A v : First(v) \in Conditions /\ Second(v) \in Conditions
         /\ Conditions = {First(v), Second(v)}
BY DEF First, Second, Conditions

(* The two updates of a run, each with the copy of the object it carries.  *)
LEMMA FirstEffect ==
  ASSUME TypeOK, PublishFirst
  PROVE  /\ status' \in [Conditions -> Verdicts \cup {"unset"}]
         /\ behind' \in BOOLEAN /\ faults' \in 0..MaxFaults
         /\ (behind => behind') /\ (faults' = 0 => faults = 0)
         /\ ~behind' /\ current /\ faults' = 0 =>
              status' = status /\ status[First(verdict)] = verdict
         /\ \/ status' = status
            \/ current /\ status' = [status EXCEPT ![First(verdict)] = verdict]
<1>1. current \in BOOLEAN /\ First(verdict) \in Conditions /\ Publish(current, First(verdict))
  BY ConditionNames DEF TypeOK, PublishFirst
<1>2. faults' = 0 => faults = 0
  <2>1. UNCHANGED faults \/ Fault
    BY <1>1 DEF Publish
  <2> QED BY <2>1, FaultType
<1> QED BY <1>1, <1>2, PublishEffect

LEMMA SecondEffect ==
  ASSUME TypeOK, PublishSecond
  PROVE  /\ status' \in [Conditions -> Verdicts \cup {"unset"}]
         /\ behind' \in BOOLEAN /\ faults' \in 0..MaxFaults
         /\ (behind => behind') /\ (faults' = 0 => faults = 0)
         /\ ~behind' /\ cached # None /\ faults' = 0 =>
              status' = status /\ status[Second(verdict)] = verdict
         /\ status' = status \/ status' = [status EXCEPT ![Second(verdict)] = verdict]
<1>1. CASE cached = None /\ UNCHANGED <<status, behind, faults>>
  BY <1>1 DEF TypeOK
<1>2. CASE cached # None /\ Publish(~behind, Second(verdict))
  <2>1. (~behind) \in BOOLEAN /\ Second(verdict) \in Conditions
    BY ConditionNames DEF TypeOK
  <2>2. faults' = 0 => faults = 0
    <3>1. UNCHANGED faults \/ Fault
      BY <1>2 DEF Publish
    <3> QED BY <3>1, FaultType
  <2>3. ~behind' => ~behind
    BY <1>2, <2>1, PublishEffect
  <2> QED BY <1>2, <2>1, <2>2, <2>3, PublishEffect
<1> QED BY <1>1, <1>2 DEF PublishSecond

LEMMA UnsetType == Unset \in [Conditions -> Verdicts \cup {"unset"}]
BY DEF Unset

LEMMA InitType == Init => TypeOK
<1> SUFFICES ASSUME Init PROVE TypeOK
  OBVIOUS
<1>1. edits \in 0..MaxEdits /\ faults \in 0..MaxFaults
  BY Constants DEF Init, ConstantsAssumption
<1>2. status \in [Conditions -> Verdicts \cup {"unset"}] /\ verdict \in Verdicts
  BY UnsetType DEF Init, Verdicts
<1>3. object \in Specs \cup {None} /\ queued \in BOOLEAN
  BY DEF Init
<1> QED BY <1>1, <1>2, <1>3 DEF Init, TypeOK

LEMMA TypeStep == TypeOK /\ [Next]_vars => TypeOK'
<1> SUFFICES ASSUME TypeOK, [Next]_vars PROVE TypeOK'
  OBVIOUS
<1> USE DEF environment
<1>1. CASE UNCHANGED vars
  BY <1>1 DEF vars, TypeOK
<1>2. CASE Fetch
  <2>1. \A spec, known : Verdict(spec, known) \in Verdicts
    BY DEF Verdict, Verdicts
  <2> QED BY <1>2, <2>1 DEF Fetch, TypeOK
<1>3. CASE PublishFirst
  BY <1>3, FirstEffect DEF PublishFirst, TypeOK
<1>4. CASE PublishSecond
  <2>1. timer' \in BOOLEAN
    BY <1>4 DEF PublishSecond, TypeOK, Requeues
  <2> QED BY <1>4, <2>1, SecondEffect DEF PublishSecond, TypeOK
<1>5. CASE Deliver
  BY <1>5 DEF Deliver, TypeOK
<1>6. CASE DeliverClusters
  BY <1>6 DEF DeliverClusters, TypeOK
<1>7. CASE TimerFires
  BY <1>7 DEF TimerFires, TypeOK
<1>8. CASE Restart
  BY <1>8, FaultType DEF Restart, TypeOK
<1>9. ASSUME NEW spec \in Specs \cup {None}, PutObject(spec) PROVE TypeOK'
  BY <1>9, EditType, UnsetType DEF PutObject, TypeOK
<1>10. ASSUME NEW name \in Clusters, ToggleCluster(name) PROVE TypeOK'
  BY <1>10, EditType DEF ToggleCluster, TypeOK
<1> QED BY <1>1, <1>2, <1>3, <1>4, <1>5, <1>6, <1>7, <1>8, <1>9, <1>10
    DEF Next, Reconcile

(* Every variable keeps its type.                                          *)
THEOREM TypeCorrect == Spec => []TypeOK
BY InitType, TypeStep, PTL DEF Spec

-----------------------------------------------------------------------------
LEMMA InvInit == Init => ConditionsInv
BY DEF Init, ConditionsInv, CacheAgrees, CopyIsJudged, Settled

(* The verdict of a worker that reads the server's object and a cluster    *)
(* that has existed.                                                       *)
LEMMA VerdictIsJudged ==
  ASSUME verdict = Verdict(object, cachedClusters), cachedClusters \subseteq everClusters
  PROVE  Judged
BY DEF Judged, Verdict

LEMMA InvStep == TypeOK /\ ConditionsInv /\ [Next]_vars => ConditionsInv'
<1> SUFFICES ASSUME TypeOK, ConditionsInv, [Next]_vars PROVE ConditionsInv'
  OBVIOUS
<1> USE DEF ConditionsInv, environment
<1>1. CASE UNCHANGED vars
  BY <1>1 DEF vars, CacheAgrees, CopyIsJudged, Settled, Judged, ConditionsAgreeAtRest, Pending
<1>2. CASE Fetch
  <2>1. ~behind => cached = object
    BY DEF CacheAgrees
  <2>2. pc' = "first" /\ current' => object # None /\ Judged'
    BY <1>2, <2>1 DEF Fetch, Judged, Verdict
  <2>3. pc' = "first" \/ (pc' = "idle" /\ cached = None)
    BY <1>2 DEF Fetch
  <2>4. Settled'
    <3> SUFFICES ASSUME ~behind', (object # None)'
                 PROVE  pc' = "first" /\ current'
      BY <2>3 DEF Settled
    <3>1. ~behind /\ object # None /\ UNCHANGED cached
      BY <1>2 DEF Fetch
    <3> QED BY <1>2, <2>1, <2>3, <3>1 DEF Fetch
  <2> QED BY <1>2, <2>1, <2>2, <2>4 DEF Fetch, CacheAgrees, CopyIsJudged
<1>3. CASE PublishFirst
  <2>1. CASE ~queued' /\ ~behind' /\ faults' = 0 /\ object # None
    <3>1. ~behind /\ faults = 0 /\ ~queued
      BY <1>3, <2>1, FirstEffect DEF PublishFirst
    <3>2. current /\ Judged
      BY <1>3, <2>1, <3>1 DEF PublishFirst, Settled, CopyIsJudged
    <3>3. status' = status /\ status[First(verdict)] = verdict
      BY <1>3, <2>1, <3>2, FirstEffect
    <3> QED BY <1>3, <3>1, <3>2, <3>3
            DEF PublishFirst, Settled, CacheAgrees, CopyIsJudged, Judged, First
  <2>2. CASE ~(~queued' /\ ~behind' /\ faults' = 0 /\ object # None)
    BY <1>3, <2>2, FirstEffect DEF PublishFirst, Settled, CacheAgrees, CopyIsJudged
  <2> QED BY <2>1, <2>2
<1>4. CASE PublishSecond
  <2>1. CASE ~queued' /\ ~behind' /\ faults' = 0 /\ object # None /\ ~timer'
    <3>1. ~behind /\ faults = 0 /\ ~queued
      BY <1>4, <2>1, SecondEffect DEF PublishSecond
    <3>2. ~timer /\ verdict # "ClusterNotFound"
      BY <1>4, <2>1 DEF PublishSecond, Requeues
    <3>3. Judged /\ status[First(verdict)] = verdict
      BY <1>4, <2>1, <3>1 DEF PublishSecond, Settled
    <3>4. status' = status /\ status[Second(verdict)] = verdict
      BY <1>4, <2>1, <3>1, SecondEffect DEF PublishSecond, CacheAgrees
    <3>5. status["ready"] = verdict /\ status["invalid"] = verdict
      BY <3>3, <3>4 DEF First, Second
    <3>6. ConditionsAgreeAtRest'
      BY <1>4, <3>2, <3>3, <3>4, <3>5 DEF PublishSecond, ConditionsAgreeAtRest, Judged
    <3> QED BY <1>4, <3>1, <3>6
            DEF PublishSecond, Settled, CacheAgrees, CopyIsJudged
  <2>2. CASE ~(~queued' /\ ~behind' /\ faults' = 0 /\ object # None /\ ~timer')
    <3>1. CacheAgrees'
      BY <1>4, SecondEffect DEF PublishSecond, CacheAgrees
    <3> QED BY <1>4, <2>2, <3>1 DEF PublishSecond, Settled, CopyIsJudged
  <2> QED BY <2>1, <2>2
<1>5. CASE Deliver
  BY <1>5 DEF Deliver, CacheAgrees, CopyIsJudged, Settled, Judged
<1>6. CASE DeliverClusters
  BY <1>6 DEF DeliverClusters, CacheAgrees, CopyIsJudged, Settled, Judged,
              ConditionsAgreeAtRest, Pending
<1>7. CASE TimerFires
  BY <1>7 DEF TimerFires, CacheAgrees, CopyIsJudged, Settled, Judged
<1>8. CASE Restart
  <2>1. faults' # 0
    BY <1>8, FaultType DEF Restart
  <2> QED BY <1>8, <2>1 DEF Restart, CacheAgrees, CopyIsJudged, Settled
<1>9. ASSUME NEW spec \in Specs \cup {None}, PutObject(spec) PROVE ConditionsInv'
  BY <1>9 DEF PutObject, CacheAgrees, CopyIsJudged, Settled
<1>10. ASSUME NEW name \in Clusters, ToggleCluster(name) PROVE ConditionsInv'
  <2>1. everClusters \subseteq everClusters' /\ clusters' \subseteq everClusters'
    BY <1>10 DEF ToggleCluster
  <2>2. UNCHANGED <<object, cached, behind, cachedClusters, status, queued, timer, pc,
                    verdict, current, faults>>
    BY <1>10 DEF ToggleCluster
  <2>3. Judged => Judged'
    BY <2>1, <2>2 DEF Judged
  <2>4. ConditionsAgreeAtRest => ConditionsAgreeAtRest'
    BY <2>1, <2>2 DEF ConditionsAgreeAtRest, Pending
  <2> QED BY <2>1, <2>2, <2>3, <2>4 DEF CacheAgrees, CopyIsJudged, Settled
<1> QED BY <1>1, <1>2, <1>3, <1>4, <1>5, <1>6, <1>7, <1>8, <1>9, <1>10
    DEF Next, Reconcile

(* As long as no call has failed, a controller at rest has told one story  *)
(* in both conditions, and it is the object's.                             *)
THEOREM ConditionsAgree == Spec => []ConditionsAgreeAtRest
<1>1. TypeOK /\ ConditionsInv => ConditionsAgreeAtRest
  BY DEF ConditionsInv, Settled, ConditionsAgreeAtRest, Pending
<1> QED BY <1>1, InvInit, InvStep, TypeCorrect, PTL DEF Spec

(* No edit slips between the judgement of a spec and Ready=True on it.     *)
THEOREM ReadyIsJudged == Spec => ReadyJudgesTheSpecItIsOn
<1>1. TypeOK /\ ConditionsInv /\ [Next]_vars =>
        [status'["ready"] = "Valid" /\ status["ready"] # "Valid"
         => object \notin RejectedSpecs]_vars
  <2> SUFFICES ASSUME TypeOK, ConditionsInv, Next,
                      status'["ready"] = "Valid", status["ready"] # "Valid"
               PROVE  object \notin RejectedSpecs
    BY DEF vars
  <2>1. CASE PublishFirst
    <3>1. current /\ status' = [status EXCEPT ![First(verdict)] = verdict]
      BY <2>1, FirstEffect
    <3>2. verdict = "Valid"
      BY <3>1 DEF TypeOK, Conditions
    <3> QED BY <2>1, <3>1, <3>2 DEF PublishFirst, ConditionsInv, CopyIsJudged, Judged
  <2>2. CASE PublishSecond
    <3>1. status' = [status EXCEPT ![Second(verdict)] = verdict]
      BY <2>2, SecondEffect
    <3> QED BY <3>1 DEF TypeOK, Conditions, Second
  <2>3. ASSUME NEW spec \in Specs \cup {None}, PutObject(spec)
        PROVE  status'["ready"] # "Valid" \/ status' = status
    BY <2>3 DEF PutObject, Unset, Conditions
  <2>4. CASE Fetch \/ Deliver \/ DeliverClusters \/ TimerFires \/ Restart
    BY <2>4 DEF Fetch, Deliver, DeliverClusters, TimerFires, Restart
  <2>5. ASSUME NEW name \in Clusters, ToggleCluster(name) PROVE status' = status
    BY <2>5 DEF ToggleCluster
  <2> QED BY <2>1, <2>2, <2>3, <2>4, <2>5 DEF Next, Reconcile
<1> QED BY <1>1, InvInit, InvStep, TypeCorrect, PTL DEF Spec, ReadyJudgesTheSpecItIsOn

=============================================================================
