---------------------------- MODULE EndpointPods ----------------------------
(***************************************************************************)
(* The pods of the endpoints.  Endpoints speaks of objects on the API      *)
(* server; whether anybody is answered depends on pods, which come to be   *)
(* and go in their own time:                                               *)
(*                                                                         *)
(*   ready    the endpoints whose Deployment has a pod that is ready       *)
(*   leaving  those with ready pods that no Deployment wants any more      *)
(*                                                                         *)
(* Deployment controller, kubelet and garbage collector belong to          *)
(* Kubernetes.  Of the first only what the strategy in                     *)
(* reconcileOneDeployment asks for is kept: with maxUnavailable 0 a        *)
(* Deployment that is given another template or another replica count      *)
(* keeps a ready pod.  Pods do not fail by themselves.                     *)
(***************************************************************************)
EXTENDS Endpoints

VARIABLES ready, leaving

pods == <<ready, leaving>>
podVars == <<vars, pods>>

HasPods(name) ==
  store["deployment"][name] # None /\ store["deployment"][name].replicas > 0

(* What a step on the objects means for pods: those of a Deployment that   *)
(* is deleted, or scaled to none, are left to the garbage collector; with  *)
(* the strategy of reconcileOneDeployment any other change keeps one.      *)
Follow == LET kept == {name \in ready : HasPods(name)'}
          IN ready' = kept /\ leaving' = leaving \cup (ready \ kept)

(* The init containers of a first pod are done and its probe succeeds.     *)
PodReady(name) ==
  /\ HasPods(name) /\ name \notin ready
  /\ ready' = ready \cup {name}
  /\ UNCHANGED <<vars, leaving>>

CollectPods(name) ==
  /\ name \in leaving
  /\ leaving' = leaving \ {name}
  /\ UNCHANGED <<vars, ready>>

PodsInit == Init /\ ready = {} /\ leaving = {}

PodsNext ==
  \/ Next /\ Follow
  \/ \E name \in Names : PodReady(name) \/ CollectPods(name)

PodsSpec == PodsInit /\ [][PodsNext]_podVars

-----------------------------------------------------------------------------
(* An endpoint that every spec asks for keeps its pods: no update, no      *)
(* change of the topology around it, no run from an old spec and no        *)
(* autoscaler takes its Deployment or its last replica away, as long as    *)
(* nobody else deletes Deployments.                                        *)
Lasting == {name \in Names : \A s \in Specs : name \in WantedBy(s)}
LastingEndpointsKeepPods ==
  [][deletions' = 0 => \A name \in Lasting : name \in ready => name \in ready']_podVars

(* At least one healthy pod serves traffic at all times once there is one, *)
(* whatever is updated.                                                    *)
SomePodServes ==
  [][deletions' = 0 /\ ready \cup leaving # {} => (ready \cup leaving)' # {}]_podVars

=============================================================================
