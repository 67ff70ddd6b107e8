------------------------------ MODULE Endpoints ------------------------------
(***************************************************************************)
(* The workloads of one RadiusCluster.  Its spec is in one of two          *)
(* topologies: unified, one Deployment and Service for everything, or      *)
(* split, one pair per role that spec.services names.  Each pair may have  *)
(* an autoscaler (HPA), the cluster a disruption budget (PDB).  This       *)
(* module follows the API calls that move it from one spec to the next:    *)
(*                                                                         *)
(*   reconcileDeploymentsAndServices, cleanupStaleResources, reconcileHPAs,*)
(*   reconcilePDB                                                          *)
(*                                                                         *)
(* against caches that lag, calls that fail, and the HPA controller, which *)
(* writes the replica count of the same Deployments.  What the rest of     *)
(* Reconcile does is ClusterReconcile; here it is only a reason to run     *)
(* again (Wake).                                                           *)
(***************************************************************************)
EXTENDS Integers, Sequences

CONSTANTS
  Specs,          \* values of RadiusCluster.spec
  Unified,        \* the endpoint of the unified topology
  Auth, Acct, CoA,   \* those of the roles of the split topology
  UnifiedSpecs,   \* the specs without spec.services
  ServicesOf,     \* the roles of spec.services of the others
  AutoscaledOf,   \* the endpoints whose autoscaling is enabled
  ReplicasOf,     \* the replicas field of every endpoint
  WithPDB,        \* the specs with spec.pdb
  ScaledTo,       \* what the HPA controller scales a Deployment to
  None,           \* the absent object
  MaxEdits, MaxDeletions, MaxFaults

RoleNames == {Auth, Acct, CoA}
Names == {Unified} \cup RoleNames

ConstantsAssumption ==
  /\ Unified \notin RoleNames
  /\ UnifiedSpecs \subseteq Specs
  /\ ServicesOf \in [Specs \ UnifiedSpecs -> SUBSET RoleNames]
  /\ AutoscaledOf \in [Specs -> SUBSET Names]
  /\ ReplicasOf \in [Specs -> [Names -> Nat]]
  /\ WithPDB \subseteq Specs
  /\ ScaledTo \subseteq Nat \ {0}
  /\ None \notin [spec: Specs] \cup [spec: Specs, replicas: Nat]
  /\ MaxEdits \in Nat /\ MaxDeletions \in Nat /\ MaxFaults \in Nat

ASSUME Constants == ConstantsAssumption

VARIABLES
  spec, cachedSpec, specBehind,   \* the cluster's spec on the server and in the cache
  store, cache,                   \* by kind and name, the objects, and in the caches
  stale,                          \* the objects whose cached copy is not the server's
  queued, timer,                  \* the key is in the queue, on the delayed list
  todo, run,                      \* the calls the worker has to make, for which spec
  edits, deletions, faults

cluster == <<spec, cachedSpec, specBehind>>
objects == <<store, cache, stale>>
worker == <<queued, timer, todo, run>>
vars == <<cluster, objects, worker, edits, deletions, faults>>

-----------------------------------------------------------------------------
Kinds == {"deployment", "service", "hpa", "pdb"}
Watched == Kinds

(* A spec may have these or not.                                           *)
Extras == {"hpa", "pdb"}

IsUnified(s) == s \in UnifiedSpecs

IfNamed(s, role) == IF role \in ServicesOf[s] THEN <<role>> ELSE << >>

BuildEndpoints(s) ==
  IF IsUnified(s) THEN <<Unified>>
  ELSE IfNamed(s, Auth) \o IfNamed(s, Acct) \o IfNamed(s, CoA)

(* cleanupStaleResources: the names of the other topology.                 *)
StaleSuffixes(s) == IF IsUnified(s) THEN <<Auth, Acct, CoA>> ELSE <<Unified>>

(* A call of the plan: what to do to the object of a kind and name.        *)
Call(op, kind, name) == [op |-> op, kind |-> kind, name |-> name]

DeploymentsOnly(op, names) ==   \* mutant
  [i \in 1..Len(names) |-> Call(op, "deployment", names[i])]
Pairs(op, names) ==
  [i \in 1..(2 * Len(names)) |->
     Call(op, IF i % 2 = 1 THEN "deployment" ELSE "service", names[(i + 1) \div 2])]

(* An endpoint whose autoscaling is disabled has its HPA deleted.          *)
Autoscalers(s, names) ==
  [i \in 1..Len(names) |->
     Call(IF names[i] \in AutoscaledOf[s] THEN "apply" ELSE "delete", "hpa", names[i])]

(* The PDB is the cluster's, whatever its topology; spec.replicas, which   *)
(* in the split topology nothing else reads, calls for one as well.        *)
Budgeted(s) == s \in WithPDB \/ ReplicasOf[s][Unified] > 1
Budget(s) == <<Call(IF Budgeted(s) THEN "apply" ELSE "delete", "pdb", Unified)>>

CleanUpFirst(s) ==   \* mutant
  Pairs("delete", StaleSuffixes(s)) \o Pairs("apply", BuildEndpoints(s))
    \o Autoscalers(s, BuildEndpoints(s)) \o Budget(s)
LeaveServices(s) ==   \* mutant
  Pairs("apply", BuildEndpoints(s)) \o DeploymentsOnly("delete", StaleSuffixes(s))
    \o Autoscalers(s, BuildEndpoints(s)) \o Budget(s)
Plan(s) == Pairs("apply", BuildEndpoints(s)) \o Pairs("delete", StaleSuffixes(s))
             \o Autoscalers(s, BuildEndpoints(s)) \o Budget(s)

(* Without a replica count, which is how the operator leaves it to the     *)
(* HPA, the API server fills in 1.                                         *)
UnclampedReplicas(s, name) ==   \* mutant
  IF name \in AutoscaledOf[s] THEN 1 ELSE ReplicasOf[s][name]
Replicas(s, name) == IF name \in AutoscaledOf[s] \/ ReplicasOf[s][name] < 1
                     THEN 1 ELSE ReplicasOf[s][name]

(* Services, HPAs and the PDB are what the spec makes them.                *)
Desired(s, kind, name) ==
  IF kind = "deployment" THEN [spec |-> s, replicas |-> Replicas(s, name)] ELSE [spec |-> s]

-----------------------------------------------------------------------------
Fault == faults < MaxFaults /\ faults' = faults + 1

Put(kind, name, value) ==
  IF store[kind][name] = value THEN UNCHANGED <<store, stale>>
  ELSE /\ store' = [store EXCEPT ![kind][name] = value]
       /\ stale' = stale \cup {<<kind, name>>}

Cached(call) == cache[call.kind][call.name]
Present(call) == store[call.kind][call.name] # None

(* CreateOrUpdate creates what the cache does not have and updates what it *)
(* has, with the cached resourceVersion.  The desired Deployment and       *)
(* Service never equal the cached one, whose defaults they leave out.      *)
Wanted(call) == Desired(run, call.kind, call.name)
SkippedIfSameSpec(call) == Cached(call) # None /\ Cached(call).spec = run   \* mutant
Skipped(call) == call.kind \in Extras /\ Cached(call) = Wanted(call)
Writable(call) == IF Cached(call) = None THEN ~Present(call)
                  ELSE <<call.kind, call.name>> \notin stale

(* A Deployment or Service that is already gone is as good as deleted; for *)
(* an HPA and the PDB that is an error.                                    *)
Deleted(call) == Present(call) \/ call.kind \notin Extras

(* Either the rest of the plan, or an error and the delayed list.          *)
Advance == todo' = Tail(todo) /\ UNCHANGED <<timer, faults>>
FailQuietly == todo' = << >> /\ UNCHANGED timer   \* mutant
Fail == todo' = << >> /\ timer' = TRUE

Start ==
  /\ todo = << >> /\ queued
  /\ queued' = FALSE
  /\ run' = cachedSpec
  /\ todo' = Plan(cachedSpec)
  /\ UNCHANGED <<cluster, objects, timer, edits, deletions, faults>>

Applying(call) ==
  /\ call.op = "apply"
  /\ \/ Skipped(call) /\ Advance /\ UNCHANGED <<store, stale>>
     \/ /\ ~Skipped(call) /\ Writable(call)
        /\ Put(call.kind, call.name, Wanted(call)) /\ Advance
     \/ /\ ~Skipped(call) /\ ~Writable(call)
        /\ Fail /\ UNCHANGED <<store, stale, faults>>
     \/ /\ ~Skipped(call) /\ Fault /\ Fail
        /\ \/ UNCHANGED <<store, stale>>
           \/ Writable(call) /\ Put(call.kind, call.name, Wanted(call))

(* Delete goes by name, whatever the server has there.                     *)
Deleting(call) ==
  /\ call.op = "delete"
  /\ \/ Cached(call) = None /\ Advance /\ UNCHANGED <<store, stale>>
     \/ /\ Cached(call) # None /\ Deleted(call)
        /\ Put(call.kind, call.name, None) /\ Advance
     \/ /\ Cached(call) # None /\ ~Deleted(call)
        /\ Fail /\ UNCHANGED <<store, stale, faults>>
     \/ /\ Cached(call) # None /\ Fault /\ Fail
        /\ \/ UNCHANGED <<store, stale>>
           \/ Put(call.kind, call.name, None)

Step == /\ todo # << >>
        /\ Applying(Head(todo)) \/ Deleting(Head(todo))
        /\ UNCHANGED <<cluster, cache, queued, run, edits, deletions>>

Reconcile == Start \/ Step

-----------------------------------------------------------------------------
(* The informer of a kind catches up.                                      *)
Deliver(kind) ==
  /\ \E name \in Names : <<kind, name>> \in stale
  /\ cache' = [cache EXCEPT ![kind] = store[kind]]
  /\ stale' = {object \in stale : object[1] # kind}
  /\ queued' = (queued \/ kind \in Watched)
  /\ UNCHANGED <<cluster, store, timer, todo, run, edits, deletions, faults>>

DeliverSpec ==
  /\ specBehind
  /\ cachedSpec' = spec /\ specBehind' = FALSE /\ queued' = TRUE
  /\ UNCHANGED <<spec, objects, timer, todo, run, edits, deletions, faults>>

TimerFires ==
  /\ timer
  /\ timer' = FALSE /\ queued' = TRUE
  /\ UNCHANGED <<cluster, objects, todo, run, edits, deletions, faults>>

(* Any other event of the cluster: its status, clients, policies, RBAC.    *)
Wake ==
  /\ ~queued /\ queued' = TRUE
  /\ UNCHANGED <<cluster, objects, timer, todo, run, edits, deletions, faults>>

Restart ==
  /\ Fault
  /\ cachedSpec' = spec /\ specBehind' = FALSE
  /\ cache' = store /\ stale' = {}
  /\ queued' = TRUE /\ timer' = FALSE /\ todo' = << >>
  /\ UNCHANGED <<spec, store, run, edits, deletions>>

-----------------------------------------------------------------------------
EditSpec(new) ==
  /\ edits < MaxEdits /\ edits' = edits + 1
  /\ new # spec /\ spec' = new /\ specBehind' = TRUE
  /\ UNCHANGED <<cachedSpec, objects, worker, deletions, faults>>

DeleteObject(kind, name) ==
  /\ deletions < MaxDeletions /\ deletions' = deletions + 1
  /\ store[kind][name] # None /\ Put(kind, name, None)
  /\ UNCHANGED <<cluster, cache, worker, edits, faults>>

(* The HPA controller writes the scale of the Deployment the HPA names.    *)
HPAScales(name) ==
  /\ store["hpa"][name] # None /\ store["deployment"][name] # None
  /\ \E n \in ScaledTo :
       Put("deployment", name, [store["deployment"][name] EXCEPT !.replicas = n])
  /\ UNCHANGED <<cluster, cache, worker, edits, deletions, faults>>

-----------------------------------------------------------------------------
Init ==
  /\ spec \in Specs /\ cachedSpec = spec /\ specBehind = FALSE
  /\ store = [kind \in Kinds |-> [name \in Names |-> None]]
  /\ cache = store /\ stale = {}
  /\ queued = TRUE /\ timer = FALSE
  /\ todo = << >> /\ run = spec
  /\ edits = 0 /\ deletions = 0 /\ faults = 0

Next ==
  \/ Reconcile
  \/ \E kind \in Kinds : Deliver(kind)
  \/ DeliverSpec
  \/ TimerFires
  \/ Wake
  \/ Restart
  \/ \E new \in Specs : EditSpec(new)
  \/ \E kind \in Kinds, name \in Names : DeleteObject(kind, name)
  \/ \E name \in Names : HPAScales(name)

Spec == Init /\ [][Next]_vars

Fairness == /\ WF_vars(Reconcile) /\ WF_vars(TimerFires) /\ WF_vars(DeliverSpec)
            /\ \A kind \in Kinds : WF_vars(Deliver(kind))

FairSpec == Spec /\ Fairness

-----------------------------------------------------------------------------
Objects == [deployment: [Names -> [spec: Specs, replicas: Nat \ {0}] \cup {None}],
            service: [Names -> [spec: Specs] \cup {None}],
            hpa: [Names -> [spec: Specs] \cup {None}],
            pdb: [Names -> [spec: Specs] \cup {None}]]

Calls == [op: {"apply", "delete"}, kind: Kinds, name: Names]

(* Every variable keeps its type; no Deployment is ever written with       *)
(* fewer than one replica.                                                 *)
TypeOK ==
  /\ spec \in Specs /\ cachedSpec \in Specs /\ specBehind \in BOOLEAN
  /\ store \in Objects /\ cache \in Objects
  /\ stale \subseteq Kinds \X Names
  /\ queued \in BOOLEAN /\ timer \in BOOLEAN
  /\ todo \in Seq(Calls) /\ run \in Specs
  /\ edits \in 0..MaxEdits /\ deletions \in 0..MaxDeletions /\ faults \in 0..MaxFaults

Pending == queued \/ timer \/ specBehind \/ \E object \in stale : object[1] \in Watched
AtRest == todo = << >> /\ ~Pending

WantedBy(s) == IF IsUnified(s) THEN {Unified} ELSE ServicesOf[s]
UnwantedBy(s) == IF IsUnified(s) THEN RoleNames ELSE {Unified}

(* Whatever specs, failures and deletions came before, an operator at rest *)
(* has given every endpoint of the spec its Deployment, its Service and,   *)
(* exactly if it is autoscaled, its HPA, and has left no Deployment and no *)
(* Service of the other topology.  The cluster has a PDB exactly if it is  *)
(* to have one.                                                            *)
TopologyAtRest ==
  AtRest =>
    /\ \A name \in WantedBy(spec) :
         /\ store["deployment"][name] # None /\ store["deployment"][name].spec = spec
         /\ store["service"][name] = [spec |-> spec]
         /\ store["hpa"][name] = IF name \in AutoscaledOf[spec] THEN [spec |-> spec] ELSE None
    /\ \A name \in UnwantedBy(spec) :
         store["deployment"][name] = None /\ store["service"][name] = None
    /\ store["pdb"][Unified] = IF Budgeted(spec) THEN [spec |-> spec] ELSE None

(* spec.replicas takes effect when autoscaling is off, although the HPA is *)
(* deleted after the Deployment is written and may scale it in between.    *)
ReplicasAtRest ==
  AtRest => \A name \in WantedBy(spec) \ AutoscaledOf[spec] :
              store["deployment"][name].replicas = Replicas(spec, name)

(* The objects of the new topology come before those of the old one go: a  *)
(* role that every spec serves has a Deployment and a Service at any time, *)
(* also when a run fails half way or works from an old spec, as long as    *)
(* nobody else deletes them.  That is the order of the API calls only;     *)
(* whether the new Deployment has a pod by then is in EndpointPods.        *)
HasObjects(name) == store["deployment"][name] # None /\ store["service"][name] # None
HasEndpoint(role) == HasObjects(Unified) \/ HasObjects(role)
AlwaysWanted == {role \in RoleNames : \A s \in Specs : IsUnified(s) \/ role \in ServicesOf[s]}
ReplacementCreatedFirst ==
  [][deletions' = 0 =>
       \A role \in AlwaysWanted : HasEndpoint(role) => HasEndpoint(role)']_vars

(* The objects of the last spec come to be, and those of the other         *)
(* topology cease to be, whatever happened before, while the HPA           *)
(* controller and the operator write the same Deployments.                 *)
TopologyConverges ==
  <>[](/\ \A name \in WantedBy(spec) : HasObjects(name)
       /\ \A name \in UnwantedBy(spec) :
            store["deployment"][name] = None /\ store["service"][name] = None)

(* When autoscaling is set to false, any existing HPA is deleted.          *)
HPAOnlyIfAutoscaled ==
  AtRest => \A name \in Names : store["hpa"][name] # None => name \in AutoscaledOf[spec]

(* With autoscaling enabled the HPA controls the replica count: the        *)
(* operator's own calls leave the count of a Deployment it scales alone.   *)
ReplicasLeftToHPA ==
  [][\A name \in Names :
       /\ store["hpa"][name] # None
       /\ store["deployment"][name] # None /\ store'["deployment"][name] # None
       /\ Step /\ run = spec /\ name \in AutoscaledOf[spec]
       => store'["deployment"][name].replicas = store["deployment"][name].replicas]_vars

=============================================================================
