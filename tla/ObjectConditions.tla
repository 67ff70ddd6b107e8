-------------------------- MODULE ObjectConditions --------------------------
(***************************************************************************)
(* The controllers of RadiusClient and RadiusPolicy, for one object.  They *)
(* have the same shape: read the object, judge it, and publish the verdict *)
(* in two conditions, Ready and Invalid, by two updates of the status with *)
(* the object read again in between.  Every error of these updates is      *)
(* dropped.  The policy controller alone rejects specs (unknown stage or   *)
(* action type): for the client controller RejectedSpecs is empty.         *)
(*                                                                         *)
(* A condition is its reason: Ready is True for "Valid" and Invalid is     *)
(* True for the two other verdicts.                                        *)
(*                                                                         *)
(* The controllers watch their own kind only.  RadiusClusters are looked   *)
(* up in the cache of an informer that belongs to another controller.      *)
(***************************************************************************)
EXTENDS Integers

CONSTANTS
  Clusters,        \* names of RadiusClusters
  Specs,           \* values of the object's spec
  RefOf,           \* spec.clusterRef
  RejectedSpecs,   \* specs with a stage or an action type that is not known
  None,            \* the absent object
  MaxEdits,
  MaxFaults

ConstantsAssumption ==
  /\ RefOf \in [Specs -> Clusters]
  /\ RejectedSpecs \subseteq Specs
  /\ None \notin Specs
  /\ MaxEdits \in Nat /\ MaxFaults \in Nat

ASSUME Constants == ConstantsAssumption

VARIABLES
  object, cached,            \* the spec on the server and in the cache
  behind,                    \* the cache has not seen all of the object's events
  clusters, cachedClusters,  \* the RadiusClusters there are, and in the cache
  status,                    \* the conditions on the server
  queued, timer,             \* the object's key is in the queue, on the delayed list
  pc, verdict, current,      \* the worker, what it found, its copy is up to date
  everClusters,              \* RadiusClusters that have existed
  edits, faults

vars == <<object, cached, behind, clusters, cachedClusters, status, queued,
          timer, pc, verdict, current, everClusters, edits, faults>>
environment == <<object, clusters, everClusters, edits>>

Verdicts == {"Valid", "Rejected", "ClusterNotFound"}
Conditions == {"ready", "invalid"}
Unset == [c \in Conditions |-> "unset"]

Pending == queued \/ timer \/ behind

-----------------------------------------------------------------------------
Fault == faults < MaxFaults /\ faults' = faults + 1

(* Status().Update: refused if the copy is out of date, no event if it     *)
(* changes nothing, and whatever happens the caller goes on.               *)
Publish(fresh, condition) ==
  \/ /\ fresh
     /\ status' = [status EXCEPT ![condition] = verdict]
     /\ behind' = (behind \/ status' # status)
     /\ UNCHANGED faults
  \/ ~fresh /\ UNCHANGED <<status, behind, faults>>
  \/ Fault /\ UNCHANGED <<status, behind>>

VerdictOfIP(spec, known) ==   \* mutant
  IF RefOf[spec] \in known THEN "InvalidIP" ELSE "ClusterNotFound"
Verdict(spec, known) ==
  IF spec \in RejectedSpecs THEN "Rejected"
  ELSE IF RefOf[spec] \in known THEN "Valid" ELSE "ClusterNotFound"

(* A valid object becomes Ready before it stops being Invalid; any other   *)
(* becomes Invalid before it stops being Ready.                            *)
First(v) == IF v = "Valid" THEN "ready" ELSE "invalid"
SecondAgain(v) == First(v)   \* mutant
Second(v) == IF v = "Valid" THEN "invalid" ELSE "ready"

Fetch ==
  /\ pc = "idle" /\ queued
  /\ queued' = FALSE
  /\ \/ /\ cached = None
        /\ UNCHANGED <<pc, verdict, current>>
     \/ /\ cached # None
        /\ pc' = "first"
        /\ verdict' = Verdict(cached, cachedClusters)
        /\ current' = ~behind
  /\ UNCHANGED <<environment, cached, behind, cachedClusters, status, timer, faults>>

PublishFirstAfterReading ==   \* mutant: reads the object again
  /\ pc = "first"
  /\ cached # None /\ Publish(~behind, First(verdict))
  /\ pc' = "second"
  /\ UNCHANGED <<environment, cached, cachedClusters, queued, timer, verdict, current>>

PublishFirst ==
  /\ pc = "first"
  /\ Publish(current, First(verdict))
  /\ pc' = "second"
  /\ UNCHANGED <<environment, cached, cachedClusters, queued, timer, verdict, current>>

(* The object is read again, from the cache; then, only if its cluster was *)
(* not found, the key is put on the delayed list for 30 seconds.           *)
NeverRequeues == FALSE   \* mutant
Requeues == verdict = "ClusterNotFound"

PublishSecond ==
  /\ pc = "second"
  /\ \/ cached = None /\ UNCHANGED <<status, behind, faults>>
     \/ cached # None /\ Publish(~behind, Second(verdict))
  /\ pc' = "idle"
  /\ timer' = (timer \/ Requeues)
  /\ UNCHANGED <<environment, cached, cachedClusters, queued, verdict, current>>

Reconcile == Fetch \/ PublishFirst \/ PublishSecond

-----------------------------------------------------------------------------
Deliver ==
  /\ behind
  /\ cached' = object /\ behind' = FALSE
  /\ queued' = TRUE
  /\ UNCHANGED <<environment, cachedClusters, status, timer, pc, verdict, current, faults>>

DeliverClusters ==
  /\ cachedClusters # clusters
  /\ cachedClusters' = clusters
  /\ UNCHANGED <<environment, cached, behind, status, queued, timer, pc, verdict,
                 current, faults>>

TimerFires ==
  /\ timer
  /\ timer' = FALSE /\ queued' = TRUE
  /\ UNCHANGED <<environment, cached, behind, cachedClusters, status, pc, verdict,
                 current, faults>>

Restart ==
  /\ Fault
  /\ cached' = object /\ behind' = FALSE /\ cachedClusters' = clusters
  /\ queued' = (object # None) /\ timer' = FALSE
  /\ pc' = "idle"
  /\ UNCHANGED <<environment, status, verdict, current>>

-----------------------------------------------------------------------------
Edit == edits < MaxEdits /\ edits' = edits + 1

(* Users create, edit and delete the object ...                            *)
PutObject(spec) ==
  /\ Edit
  /\ object # spec
  /\ object' = spec /\ behind' = TRUE /\ current' = FALSE
  /\ status' = IF object = None \/ spec = None THEN Unset ELSE status
  /\ UNCHANGED <<cached, clusters, cachedClusters, queued, timer, pc, verdict,
                 everClusters, faults>>

(* ... and create and delete clusters.                                     *)
ToggleCluster(name) ==
  /\ Edit
  /\ clusters' = IF name \in clusters THEN clusters \ {name} ELSE clusters \cup {name}
  /\ everClusters' = everClusters \cup clusters'
  /\ UNCHANGED <<object, cached, behind, cachedClusters, status, queued, timer, pc,
                 verdict, current, faults>>

-----------------------------------------------------------------------------
Init ==
  /\ object \in Specs \cup {None} /\ cached = object /\ behind = FALSE
  /\ clusters \in SUBSET Clusters /\ cachedClusters = clusters
  /\ everClusters = clusters
  /\ status = Unset
  /\ queued = (object # None) /\ timer = FALSE
  /\ pc = "idle" /\ verdict = "Valid" /\ current = FALSE
  /\ edits = 0 /\ faults = 0

Next ==
  \/ Reconcile
  \/ Deliver
  \/ DeliverClusters
  \/ TimerFires
  \/ Restart
  \/ \E spec \in Specs \cup {None} : PutObject(spec)
  \/ \E name \in Clusters : ToggleCluster(name)

Spec == Init /\ [][Next]_vars

Fairness == /\ WF_vars(Reconcile) /\ WF_vars(Deliver)
            /\ WF_vars(DeliverClusters) /\ WF_vars(TimerFires)

FairSpec == Spec /\ Fairness

-----------------------------------------------------------------------------
(* Every variable keeps its type.                                          *)
TypeOK ==
  /\ object \in Specs \cup {None} /\ cached \in Specs \cup {None}
  /\ behind \in BOOLEAN
  /\ clusters \subseteq Clusters /\ cachedClusters \subseteq Clusters
  /\ everClusters \subseteq Clusters
  /\ status \in [Conditions -> Verdicts \cup {"unset"}]
  /\ queued \in BOOLEAN /\ timer \in BOOLEAN
  /\ pc \in {"idle", "first", "second"}
  /\ verdict \in Verdicts /\ current \in BOOLEAN
  /\ edits \in 0..MaxEdits /\ faults \in 0..MaxFaults

(* When a controller rests after no failed call, the two conditions tell   *)
(* one story although each was written on its own and half of the updates  *)
(* meet a conflict: both say that the spec is rejected, and it is, or both *)
(* say that it is valid, and its cluster has existed.  In particular, an   *)
(* object whose cluster was not found never rests.                         *)
ConditionsAgreeAtRest ==
  pc = "idle" /\ ~Pending /\ faults = 0 /\ object # None =>
    /\ status["ready"] = status["invalid"]
    /\ IF object \in RejectedSpecs
       THEN status["ready"] = "Rejected"
       ELSE status["ready"] = "Valid" /\ RefOf[object] \in everClusters

(* Ready=True is never written on a spec that was edited into one the      *)
(* controller rejects after it was judged: the first update carries the    *)
(* resourceVersion of the copy that was judged.                            *)
ReadyJudgesTheSpecItIsOn ==
  [][status'["ready"] = "Valid" /\ status["ready"] # "Valid"
     => object \notin RejectedSpecs]_vars

(* An object that waits for its cluster becomes Ready, and stops being     *)
(* Invalid, after the cluster appears, although nothing tells the          *)
(* controller that it did.                                                 *)
Acceptable == object # None /\ object \notin RejectedSpecs
ReadyOnceClusterExists ==
  <>[](Acceptable /\ RefOf[object] \in clusters) /\ [](faults = 0)
    => <>[](status["ready"] = "Valid" /\ status["invalid"] = "Valid")

-----------------------------------------------------------------------------
(* The inductive form of the properties at rest.  While nothing is pending *)
(* the cache shows the object, a running worker's copy is up to date and   *)
(* its verdict is for this spec, and its first update has been accepted.   *)
Judged == \/ verdict = "Rejected" /\ object \in RejectedSpecs
          \/ verdict = "Valid" /\ object \notin RejectedSpecs
                               /\ RefOf[object] \in everClusters
          \/ verdict = "ClusterNotFound" /\ object \notin RejectedSpecs

CopyIsJudged == pc = "first" /\ current => object # None /\ Judged

Settled ==
  ~queued /\ ~behind /\ faults = 0 /\ object # None =>
    /\ pc = "first" => current
    /\ pc = "second" => Judged /\ status[First(verdict)] = verdict
    /\ pc = "idle" /\ ~timer => ConditionsAgreeAtRest

CacheAgrees == ~behind => cached = object

ConditionsInv == /\ cachedClusters \subseteq everClusters /\ clusters \subseteq everClusters
                 /\ CacheAgrees /\ CopyIsJudged /\ Settled

=============================================================================
