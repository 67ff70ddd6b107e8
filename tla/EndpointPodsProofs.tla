-------------------------- MODULE EndpointPodsProofs --------------------------
(***************************************************************************)
(* Proofs about EndpointPods: an endpoint that every spec asks for keeps   *)
(* its pods.  A behaviour of EndpointPods is one of Endpoints, so the      *)
(* invariant of EndpointsProofs holds: a run deletes only what its own     *)
(* spec does not ask for, and no Deployment is written without replicas.   *)
(***************************************************************************)
EXTENDS EndpointPods, EndpointsProofs

(* Only a Deployment with replicas has a pod that is ready.                *)
ReadyHavePods == \A name \in ready : name \in Names /\ HasPods(name)

(* As far as objects go, a step is one of Endpoints.                       *)
LEMMA ObjectsStep == [PodsNext]_podVars => [Next]_vars
  BY DEF PodsNext, podVars, PodReady, CollectPods

LEMMA ObjectsInv == PodsSpec => []IInv
<1>1. PodsInit => Init
  BY DEF PodsInit
<1>2. PodsSpec => Spec
  BY <1>1, ObjectsStep, PTL DEF PodsSpec, Spec
<1> QED BY <1>2, InvHolds

(* What HasPods is after a step that leaves the objects alone.             *)
LEMMA SamePods ==
  ASSUME UNCHANGED vars, NEW name \in Names
  PROVE  HasPods(name)' <=> HasPods(name)
  BY DEF vars, objects, HasPods

LEMMA ReadyHavePodsStays == ReadyHavePods /\ [PodsNext]_podVars => ReadyHavePods'
<1> SUFFICES ASSUME ReadyHavePods, [PodsNext]_podVars PROVE ReadyHavePods'
  OBVIOUS
<1>1. CASE Next /\ Follow
  BY <1>1 DEF Follow, ReadyHavePods
<1>2. ASSUME NEW name \in Names, PodReady(name) PROVE ReadyHavePods'
  <2>1. UNCHANGED vars /\ HasPods(name) /\ ready' = ready \cup {name}
    BY <1>2 DEF PodReady
  <2> QED BY <1>2, <2>1, SamePods DEF ReadyHavePods
<1>3. ASSUME NEW name \in Names, CollectPods(name) PROVE ReadyHavePods'
  <2>1. UNCHANGED vars /\ ready' = ready
    BY <1>3 DEF CollectPods
  <2> QED BY <2>1, SamePods DEF ReadyHavePods
<1>4. CASE UNCHANGED podVars
  <2>1. UNCHANGED vars /\ ready' = ready
    BY <1>4 DEF podVars, pods
  <2> QED BY <2>1, SamePods DEF ReadyHavePods
<1> QED BY <1>1, <1>2, <1>3, <1>4 DEF PodsNext

(* No step takes away the Deployment of an endpoint that every spec asks   *)
(* for: a run deletes only names of the other topology.                    *)
LEMMA LastingDeploymentStays ==
  ASSUME IInv, Next, deletions' = 0, NEW name \in Lasting, store["deployment"][name] # None
  PROVE  store'["deployment"][name] # None
<1>1. /\ TypeOK /\ Suffix /\ Standing
      /\ name \in Names /\ "deployment" \in Kinds
  BY DEF IInv, Lasting, Kinds
<1>2. ASSUME NEW kind \in Kinds, NEW n \in Names, NEW value, Put(kind, n, value),
             value # None \/ <<kind, n>> # <<"deployment", name>>
      PROVE  store'["deployment"][name] # None
  BY <1>1, <1>2, PutIsNoticed
<1>3. CASE Step
  <2> DEFINE call == Head(todo)
  <2>1. call.kind \in Kinds /\ call.name \in Names
    BY <1>1, <1>3, StepWrites
  <2>2. Wanted(call) # None
    BY <1>1, <2>1, DesiredIsObject DEF Wanted, TypeOK
  <2>3. ASSUME call.op = "delete", call.kind = "deployment" PROVE call.name # name
    <3>1. deletions = 0 /\ run \in Specs /\ "deployment" \notin Extras
      BY <1>1, <1>3, StepInPlan DEF TypeOK, Extras
    <3>2. call.name \notin WantedBy(run)
      BY <1>1, <1>3, <2>3, <3>1, DeletesOthers
    <3> QED BY <3>1, <3>2 DEF Lasting
  <2> HIDE DEF call
  <2> QED BY <1>2, <1>3, <1>1, <2>1, <2>2, <2>3, StepWrites DEF call
<1>4. ASSUME NEW n \in Names, HPAScales(n) PROVE store'["deployment"][name] # None
  BY <1>1, <1>2, <1>4, ScaledIsObject
<1>5. ASSUME NEW kind \in Kinds, NEW n \in Names, DeleteObject(kind, n) PROVE FALSE
  BY <1>1, <1>5, Constants DEF DeleteObject, TypeOK, ConstantsAssumption
<1>6. CASE Start \/ DeliverSpec \/ TimerFires \/ Wake \/ Restart
  BY <1>6 DEF Start, DeliverSpec, TimerFires, Wake, Restart, objects
<1>7. ASSUME NEW kind \in Kinds, Deliver(kind) PROVE store'["deployment"][name] # None
  BY <1>7 DEF Deliver
<1>8. ASSUME NEW new \in Specs, EditSpec(new) PROVE store'["deployment"][name] # None
  BY <1>8 DEF EditSpec, objects
<1> QED BY <1>3, <1>4, <1>5, <1>6, <1>7, <1>8 DEF Next, Reconcile

(* A Deployment on the server has at least one replica.                    *)
LEMMA DeploymentsHavePods ==
  ASSUME NEW server \in Objects, NEW name \in Names, server["deployment"][name] # None
  PROVE  server["deployment"][name].replicas > 0
<1>1. server["deployment"][name] \in [spec: Specs, replicas: Nat \ {0}]
  BY ObjectsByKind DEF Kinds, ObjectOf
<1> QED BY <1>1

(* An endpoint that every spec asks for keeps its pods through every       *)
(* update, every change of the topology around it, failed runs, runs from  *)
(* an old spec, restarts of the operator and whatever autoscalers write,   *)
(* as long as nobody else deletes Deployments.                             *)
THEOREM LastingEndpointsAreServed == PodsSpec => LastingEndpointsKeepPods
<1>1. ASSUME IInv, ReadyHavePods, [PodsNext]_podVars, deletions' = 0,
             NEW name \in Lasting, name \in ready
      PROVE  name \in ready'
  <2>1. CASE Next /\ Follow
    <3>1. name \in Names /\ store["deployment"][name] # None
      BY <1>1 DEF ReadyHavePods, HasPods
    <3>2. store'["deployment"][name] # None
      BY <1>1, <2>1, <3>1, LastingDeploymentStays
    <3>3. TypeOK'
      BY <1>1, <2>1, NextType DEF IInv
    <3>4. HasPods(name)'
      BY <3>1, <3>2, <3>3, DeploymentsHavePods DEF HasPods, TypeOK
    <3> QED BY <1>1, <2>1, <3>2, <3>3, <3>4 DEF Follow
  <2>2. CASE UNCHANGED ready
    BY <1>1, <2>2
  <2>3. ASSUME NEW n \in Names, PodReady(n) PROVE name \in ready'
    BY <1>1, <2>3 DEF PodReady
  <2> QED BY <1>1, <2>1, <2>2, <2>3 DEF PodsNext, CollectPods, podVars, pods
<1>2. IInv /\ ReadyHavePods /\ [PodsNext]_podVars =>
        [deletions' = 0 => \A name \in Lasting : name \in ready => name \in ready']_podVars
  BY <1>1
<1>3. PodsSpec => []ReadyHavePods
  <2>1. PodsInit => ReadyHavePods
    BY DEF PodsInit, ReadyHavePods
  <2> QED BY <2>1, ReadyHavePodsStays, PTL DEF PodsSpec
<1> QED BY <1>2, <1>3, ObjectsInv, PTL DEF PodsSpec, LastingEndpointsKeepPods

=============================================================================
