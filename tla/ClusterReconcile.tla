-------------------------- MODULE ClusterReconcile --------------------------
(***************************************************************************)
(* The RadiusCluster controller for one RadiusCluster, in the unified      *)
(* topology (one ConfigMap, one Deployment), between the API server it     *)
(* writes to and the informer caches it reads from:                        *)
(*                                                                         *)
(*   store    the objects on the API server                                *)
(*   cache    the objects as the informers of the manager hold them        *)
(*   behind   the kinds whose watch events have not all reached the cache  *)
(*   queued   the work queue holds the cluster's key                       *)
(*   timer    the queue's delayed list holds it (RequeueAfter, or the      *)
(*            rate-limited retry after an error)                           *)
(*   pc       where the one worker stands in Reconcile                     *)
(*   run      what this call of Reconcile has read so far                  *)
(*   current  the copy of the cluster in memory has the resourceVersion    *)
(*            the server has                                               *)
(*                                                                         *)
(* Everything is read from the caches; every write goes to the server and  *)
(* carries the resourceVersion of the cached copy, so a write based on a   *)
(* copy that is behind is refused with a conflict.                         *)
(*                                                                         *)
(* The bounds are MaxEdits (what users and the rest of the cluster do) and *)
(* MaxFaults (API calls that fail, restarts of the operator).              *)
(***************************************************************************)
EXTENDS Integers, FiniteSets, Sequences, Functions

CONSTANTS
  Clients,        \* names of RadiusClients that may refer to the cluster
  Policies,       \* names of RadiusPolicies that may refer to the cluster
  ClusterSpecs,   \* values of RadiusCluster.spec
  ClientSpecs,    \* values of RadiusClient.spec
  PolicySpecs,    \* values of RadiusPolicy.spec
  Secrets,        \* names of Secrets in the namespace
  SecretsOf,      \* the Secrets a cluster or client spec refers to
  ImageOf,        \* spec.image of a cluster spec
  ConfigOf,       \* what of a cluster spec is rendered into config files
  TypedInvalid,   \* specs Render rejects with one of the three Invalid* types
  Unrenderable,   \* specs Render rejects with any other (wrapped) error
  None,           \* the absent object
  MaxEdits,
  MaxFaults

ConstantsAssumption ==
  /\ IsFiniteSet(Clients)
  /\ SecretsOf \in [ClusterSpecs \cup ClientSpecs -> SUBSET Secrets]
  /\ None \notin ClusterSpecs \cup ClientSpecs \cup PolicySpecs
  /\ MaxEdits \in Nat /\ MaxFaults \in Nat

ASSUME Constants == ConstantsAssumption

VARIABLES store, cache, behind, status, queued, timer,
          pc, run, current, everSecrets, uids, edits, faults

serverVars == <<store, status>>
controlVars == <<pc, run, current>>
budgets == <<everSecrets, uids, edits>>
vars == <<store, cache, behind, status, queued, timer,
          pc, run, current, everSecrets, uids, edits, faults>>

-----------------------------------------------------------------------------
(* Kinds of objects.  The manager's informers cover all of them; Secrets   *)
(* are read through the cache but SetupWithManager does not watch them.    *)

Children == {"configMap", "deployment"}
WatchedButClients == {"cluster", "policies"} \cup Children   \* mutant
WatchedButCluster == {"clients", "policies"} \cup Children   \* mutant
Watched == {"cluster", "clients", "policies"} \cup Children
Kinds == {"cluster", "clients", "policies", "secrets"} \cup Children

ClientMaps == [Clients -> ClientSpecs \cup {None}]
PolicyMaps == [Policies -> PolicySpecs \cup {None}]
Present(objects) == {o \in DOMAIN objects : objects[o] # None}

(* An informer's List walks a Go map: the clients come in any order.       *)
Listings(S) == Bijection(1..Cardinality(S), S)

(* What one call of Reconcile has read: the cluster, its clients in the    *)
(* order List returned them, its policies.                                 *)
Runs == [uid: Nat, spec: ClusterSpecs \cup {None}, clients: ClientMaps,
         order: Seq(Clients), policies: PolicyMaps]

NoRun == [uid |-> 0, spec |-> None, clients |-> [c \in Clients |-> None],
          order |-> << >>, policies |-> [p \in Policies |-> None]]

(* The specs that went into a run, and the Secrets they refer to.          *)
ElementsOf(r) == {r.spec} \cup {r.clients[c] : c \in Present(r.clients)}
                          \cup {r.policies[p] : p \in Present(r.policies)}

SecretRefs(spec, clients) ==
  SecretsOf[spec] \cup UNION {SecretsOf[clients[c]] : c \in Present(clients)}

(* A child carries the uid of its controller reference, 0 if it has none.  *)
(* The rendered files; the config-hash annotation is a digest of them.     *)
Files(r) == [config |-> ConfigOf[r.spec], clients |-> r.clients,
             order |-> r.order, policies |-> r.policies]

ConfigMapOf(r) == [uid |-> r.uid, files |-> Files(r),
                   refs |-> SecretRefs(r.spec, r.clients)]
UnownedDeploymentOf(r) == [uid |-> 0, spec |-> r.spec, files |-> Files(r),   \* mutant
                           refs |-> SecretRefs(r.spec, r.clients)]
DeploymentOf(r) == [uid |-> r.uid, spec |-> r.spec, files |-> Files(r),
                    refs |-> SecretRefs(r.spec, r.clients)]
ChildOf(kind, r) == IF kind = "configMap" THEN ConfigMapOf(r) ELSE DeploymentOf(r)

NoStatus == [available |-> FALSE, progressing |-> FALSE, degraded |-> "no", image |-> None]

-----------------------------------------------------------------------------
(* Writes to the API server.                                               *)

Put(kind, value) ==
  /\ store' = [store EXCEPT ![kind] = value]
  /\ behind' = behind \cup {kind}

Fault == faults < MaxFaults /\ faults' = faults + 1

(* Status().Update with a copy of the cluster.  An update that changes     *)
(* nothing makes no event; every caller ignores the error.                 *)
PutStatus(fresh, new) ==
  \/ /\ fresh
     /\ status' = new
     /\ behind' = IF new = status THEN behind ELSE behind \cup {"cluster"}
     /\ UNCHANGED faults
  \/ ~fresh /\ UNCHANGED <<status, behind, faults>>
  \/ Fault /\ UNCHANGED <<status, behind>>

(* controllerutil.CreateOrUpdate.  The object is looked up in the cache; a *)
(* ConfigMap whose cached copy is already as desired is not written, while *)
(* a Deployment (whose defaults the desired spec leaves out) always is.    *)
SkippedIfPresent(kind) == kind = "configMap" /\ cache[kind] # None   \* mutant
Skipped(kind) == kind = "configMap" /\ cache[kind] = ChildOf(kind, run)

Writable(kind) == IF cache[kind] = None THEN store[kind] = None
                                        ELSE kind \notin behind

Apply(kind) ==
  IF store[kind] = ChildOf(kind, run) THEN UNCHANGED <<store, behind>>
                                      ELSE Put(kind, ChildOf(kind, run))

-----------------------------------------------------------------------------
(* Reconcile.                                                              *)

Goto(label) == pc' = label

(* The two ways Reconcile returns: done; or, for an error as for         *)
(* RequeueAfter, with the key on the delayed list.                        *)
ReturnNil == Goto("idle") /\ run' = NoRun /\ current' = FALSE /\ UNCHANGED timer
Retry == Goto("idle") /\ run' = NoRun /\ current' = FALSE /\ timer' = TRUE

(* Take the key off the queue, get the cluster, set Progressing=True.      *)
Fetch ==
  /\ pc = "idle" /\ queued
  /\ queued' = FALSE
  /\ \/ /\ cache["cluster"] = None
        /\ UNCHANGED <<pc, status, behind, faults>>
     \/ /\ cache["cluster"] # None
        /\ PutStatus("cluster" \notin behind, [status EXCEPT !.progressing = TRUE])
        /\ Goto("get")
  /\ UNCHANGED <<store, cache, timer, run, current, budgets>>

(* Get the cluster again; a cluster that is gone by now is an error.       *)
GetCluster ==
  /\ pc = "get"
  /\ \/ /\ cache["cluster"] = None
        /\ Retry
     \/ /\ cache["cluster"] # None
        /\ run' = [NoRun EXCEPT !.uid = cache["cluster"].uid,
                                !.spec = cache["cluster"].spec]
        /\ current' = ("cluster" \notin behind)
        /\ Goto("clients")
        /\ UNCHANGED timer
  /\ UNCHANGED <<serverVars, cache, behind, queued, budgets, faults>>

ListClients ==
  /\ pc = "clients"
  /\ \E order \in Listings(Present(cache["clients"])) :
       run' = [run EXCEPT !.clients = cache["clients"], !.order = order]
  /\ Goto("policies")
  /\ UNCHANGED <<serverVars, cache, behind, queued, timer, current, budgets, faults>>

ListPolicies ==
  /\ pc = "policies"
  /\ run' = [run EXCEPT !.policies = cache["policies"]]
  /\ Goto("secrets")
  /\ UNCHANGED <<serverVars, cache, behind, queued, timer, current, budgets, faults>>

(* Look up every referenced Secret, then render.  isInvalidError looks at  *)
(* the outermost error only, and Render meets the wrapped errors first.    *)
SecretsFoundForCluster == SecretsOf[run.spec] \subseteq cache["secrets"]   \* mutant
SecretsFound == SecretRefs(run.spec, run.clients) \subseteq cache["secrets"]
Renders(elements) == elements \cap (TypedInvalid \cup Unrenderable) = {}
RejectsTyped(elements) == /\ elements \cap TypedInvalid # {}
                          /\ elements \cap Unrenderable = {}

Resolve ==
  /\ pc = "secrets"
  /\ \/ ~SecretsFound /\ Goto("missingSecret") /\ UNCHANGED <<run, current, timer>>
     \/ /\ SecretsFound
        /\ \/ Renders(ElementsOf(run)) /\ Goto("rbac") /\ UNCHANGED <<run, current, timer>>
           \/ /\ RejectsTyped(ElementsOf(run))
              /\ Goto("invalidSpec") /\ UNCHANGED <<run, current, timer>>
           \/ ElementsOf(run) \cap Unrenderable # {} /\ Retry
  /\ UNCHANGED <<serverVars, cache, behind, queued, budgets, faults>>

(* Report Degraded.  A missing Secret is tried again after 30 seconds, an  *)
(* invalid spec is not; the error of the status update is dropped.         *)
ReportMissingSecretOnce ==   \* mutant: no RequeueAfter
  /\ pc = "missingSecret"
  /\ PutStatus(current, [status EXCEPT !.degraded = "MissingSecret"])
  /\ ReturnNil
  /\ UNCHANGED <<store, cache, queued, budgets>>

ReportMissingSecret ==
  /\ pc = "missingSecret"
  /\ PutStatus(current, [status EXCEPT !.degraded = "MissingSecret"])
  /\ Retry
  /\ UNCHANGED <<store, cache, queued, budgets>>

ReportInvalidSpec ==
  /\ pc = "invalidSpec"
  /\ PutStatus(current, [status EXCEPT !.degraded = "InvalidSpec"])
  /\ ReturnNil
  /\ UNCHANGED <<store, cache, queued, budgets>>

(* ServiceAccount, Role and RoleBinding before the ConfigMap; Services,    *)
(* HPAs and the PDB after the Deployment: here, calls that may fail.       *)
ReconcileOthers(from, to) ==
  /\ pc = from
  /\ \/ Goto(to) /\ UNCHANGED <<run, current, timer, faults>>
     \/ Fault /\ Retry
  /\ UNCHANGED <<serverVars, cache, behind, queued, budgets>>

ReconcileChild(kind, to) ==
  /\ pc = kind
  /\ \/ /\ Skipped(kind)
        /\ Goto(to) /\ UNCHANGED <<store, behind, run, current, timer, faults>>
     \/ /\ ~Skipped(kind) /\ Writable(kind)
        /\ Apply(kind) /\ Goto(to) /\ UNCHANGED <<run, current, timer, faults>>
     \/ /\ ~Skipped(kind) /\ ~Writable(kind)
        /\ Retry /\ UNCHANGED <<store, behind, faults>>
     \/ /\ ~Skipped(kind) /\ Fault
        /\ \/ UNCHANGED <<store, behind>>
           \/ Writable(kind) /\ Apply(kind)
        /\ Retry
  /\ UNCHANGED <<status, cache, queued, budgets>>

(* readyReplicas, currentImage, podRestarts: only once the Deployment is   *)
(* in the cache, and with the image of a cluster that is read again here.  *)
UpdateFields ==
  /\ pc = "fields"
  /\ \/ /\ cache["deployment"] = None
        /\ Goto("flush") /\ UNCHANGED <<status, behind, faults, run, current, timer>>
     \/ /\ cache["deployment"] # None /\ cache["cluster"] = None
        /\ Retry /\ UNCHANGED <<status, behind, faults>>
     \/ /\ cache["deployment"] # None /\ cache["cluster"] # None
        /\ PutStatus("cluster" \notin behind,
                     [status EXCEPT !.image = ImageOf[cache["cluster"].spec]])
        /\ Goto("flush") /\ UNCHANGED <<run, current, timer>>
  /\ UNCHANGED <<store, cache, queued, budgets>>

CompleteByReason(s) == [s EXCEPT !.degraded = "AllSecretsPresent",   \* mutant
                                 !.available = TRUE, !.progressing = FALSE]
CompleteStillProgressing(s) == [s EXCEPT !.degraded = "no", !.available = TRUE]   \* mutant
Complete(s) == [s EXCEPT !.degraded = "no", !.available = TRUE, !.progressing = FALSE]

Flush ==
  /\ pc = "flush"
  /\ \/ /\ cache["cluster"] = None
        /\ Retry /\ UNCHANGED <<status, behind, faults>>
     \/ /\ cache["cluster"] # None
        /\ PutStatus("cluster" \notin behind, Complete(status))
        /\ ReturnNil
  /\ UNCHANGED <<store, cache, queued, budgets>>

ReconcileDeploymentFirst ==   \* mutant
  \/ Fetch
  \/ GetCluster
  \/ ListClients
  \/ ListPolicies
  \/ Resolve
  \/ ReportMissingSecret
  \/ ReportInvalidSpec
  \/ ReconcileOthers("rbac", "deployment")
  \/ ReconcileChild("deployment", "configMap")
  \/ ReconcileChild("configMap", "others")
  \/ ReconcileOthers("others", "fields")
  \/ UpdateFields
  \/ Flush

Reconcile ==
  \/ Fetch
  \/ GetCluster
  \/ ListClients
  \/ ListPolicies
  \/ Resolve
  \/ ReportMissingSecret
  \/ ReportInvalidSpec
  \/ ReconcileOthers("rbac", "configMap")
  \/ ReconcileChild("configMap", "deployment")
  \/ ReconcileChild("deployment", "others")
  \/ ReconcileOthers("others", "fields")
  \/ UpdateFields
  \/ Flush

-----------------------------------------------------------------------------
(* The manager: watches, delayed requeues, restarts.                       *)

(* The informer of a kind catches up and its handler enqueues the cluster. *)
Deliver(kind) ==
  /\ kind \in behind
  /\ cache' = [cache EXCEPT ![kind] = store[kind]]
  /\ behind' = behind \ {kind}
  /\ queued' = (queued \/ kind \in Watched)
  /\ UNCHANGED <<serverVars, timer, controlVars, budgets, faults>>

TimerFires ==
  /\ timer
  /\ timer' = FALSE
  /\ queued' = TRUE
  /\ UNCHANGED <<serverVars, cache, behind, controlVars, budgets, faults>>

(* The new process lists every kind and gets an event for every object.    *)
Sighted == \/ \E k \in {"cluster"} \cup Children : store[k] # None
           \/ \E k \in {"clients", "policies"} : Present(store[k]) # {}

Restart ==
  /\ Fault
  /\ cache' = store /\ behind' = {}
  /\ queued' = Sighted /\ timer' = FALSE
  /\ Goto("idle") /\ run' = NoRun /\ current' = FALSE
  /\ UNCHANGED <<serverVars, budgets>>

-----------------------------------------------------------------------------
(* Users, and the controllers of Kubernetes.                               *)

Edit == edits < MaxEdits /\ edits' = edits + 1

EnvironmentLeaves == UNCHANGED <<cache, queued, timer, pc, run, faults>>

EditCluster(spec) ==
  /\ Edit
  /\ store["cluster"] # None /\ store["cluster"].spec # spec
  /\ Put("cluster", [uid |-> store["cluster"].uid, spec |-> spec])
  /\ current' = FALSE
  /\ UNCHANGED <<status, everSecrets, uids>> /\ EnvironmentLeaves

DeleteCluster ==
  /\ Edit
  /\ store["cluster"] # None
  /\ Put("cluster", None)
  /\ current' = FALSE /\ status' = NoStatus
  /\ UNCHANGED <<everSecrets, uids>> /\ EnvironmentLeaves

(* The same name again is a new object, with a new uid.                    *)
CreateCluster(spec) ==
  /\ Edit
  /\ store["cluster"] = None
  /\ uids' = uids + 1
  /\ Put("cluster", [uid |-> uids', spec |-> spec])
  /\ current' = FALSE /\ status' = NoStatus
  /\ UNCHANGED everSecrets /\ EnvironmentLeaves

EditObject(kind, o, spec) ==
  /\ Edit
  /\ store[kind][o] # spec
  /\ Put(kind, [store[kind] EXCEPT ![o] = spec])
  /\ UNCHANGED <<status, current, everSecrets, uids>> /\ EnvironmentLeaves

EditSecrets(secrets) ==
  /\ Edit
  /\ secrets # store["secrets"]
  /\ Put("secrets", secrets)
  /\ everSecrets' = everSecrets \cup secrets
  /\ UNCHANGED <<status, current, uids>> /\ EnvironmentLeaves

DeleteChild(kind) ==
  /\ Edit
  /\ store[kind] # None
  /\ Put(kind, None)
  /\ UNCHANGED <<status, current, everSecrets, uids>> /\ EnvironmentLeaves

(* The Deployment controller writes the Deployment's status.               *)
DeploymentProgresses ==
  /\ Edit
  /\ store["deployment"] # None
  /\ Put("deployment", store["deployment"])
  /\ UNCHANGED <<status, current, everSecrets, uids>> /\ EnvironmentLeaves

(* The garbage collector deletes a child whose owner, by uid, is gone.     *)
Orphaned(kind) == /\ store[kind] # None /\ store[kind].uid # 0
                  /\ ~ /\ store["cluster"] # None
                       /\ store["cluster"].uid = store[kind].uid

CollectGarbage(kind) ==
  /\ Orphaned(kind)
  /\ Put(kind, None)
  /\ UNCHANGED <<status, current, budgets>> /\ EnvironmentLeaves

Environment ==
  \/ \E spec \in ClusterSpecs : EditCluster(spec) \/ CreateCluster(spec)
  \/ DeleteCluster
  \/ \E c \in Clients, spec \in ClientSpecs \cup {None} : EditObject("clients", c, spec)
  \/ \E p \in Policies, spec \in PolicySpecs \cup {None} : EditObject("policies", p, spec)
  \/ \E secrets \in SUBSET Secrets : EditSecrets(secrets)
  \/ \E kind \in Children : DeleteChild(kind) \/ CollectGarbage(kind)
  \/ DeploymentProgresses

-----------------------------------------------------------------------------
(* The operator starts on a cluster it has never reconciled.               *)
Init ==
  /\ \E spec \in ClusterSpecs, clients \in ClientMaps,
        policies \in PolicyMaps, secrets \in SUBSET Secrets :
       /\ store = [k \in Kinds |->
            CASE k = "cluster"  -> [uid |-> 1, spec |-> spec]
              [] k = "clients"  -> clients
              [] k = "policies" -> policies
              [] k = "secrets"  -> secrets
              [] OTHER          -> None]
       /\ everSecrets = secrets
  /\ cache = store /\ behind = {}
  /\ status = NoStatus
  /\ queued = TRUE /\ timer = FALSE
  /\ pc = "idle" /\ run = NoRun /\ current = FALSE
  /\ uids = 1 /\ edits = 0 /\ faults = 0

Next ==
  \/ Reconcile
  \/ \E kind \in Kinds : Deliver(kind)
  \/ TimerFires
  \/ Restart
  \/ Environment

Spec == Init /\ [][Next]_vars

(* The worker runs, events arrive, timers fire and orphans are collected;  *)
(* nothing obliges a user to edit or a call to fail.                       *)
Fairness ==
  /\ WF_vars(Reconcile)
  /\ WF_vars(TimerFires)
  /\ \A kind \in Kinds : WF_vars(Deliver(kind))
  /\ \A kind \in Children : WF_vars(CollectGarbage(kind))

FairSpec == Spec /\ Fairness

-----------------------------------------------------------------------------
(* Properties.                                                             *)

ClusterValues == [uid: Nat, spec: ClusterSpecs] \cup {None}
FilesType == [config: {ConfigOf[s] : s \in ClusterSpecs}, clients: ClientMaps,
              order: Seq(Clients), policies: PolicyMaps]
ConfigMaps == [uid: Nat, files: FilesType, refs: SUBSET Secrets] \cup {None}
Deployments == [uid: Nat, spec: ClusterSpecs, files: FilesType,
                refs: SUBSET Secrets] \cup {None}

HasType(kind, value) ==
  /\ kind = "cluster"    => value \in ClusterValues
  /\ kind = "clients"    => value \in ClientMaps
  /\ kind = "policies"   => value \in PolicyMaps
  /\ kind = "secrets"    => value \subseteq Secrets
  /\ kind = "configMap"  => value \in ConfigMaps
  /\ kind = "deployment" => value \in Deployments

IsStore(s) == /\ s = [k \in Kinds |-> s[k]]
              /\ \A k \in Kinds : HasType(k, s[k])

Statuses == [available: BOOLEAN, progressing: BOOLEAN,
             degraded: {"no", "MissingSecret", "InvalidSpec"},
             image: {ImageOf[s] : s \in ClusterSpecs} \cup {None}]

Labels == {"idle", "get", "clients", "policies", "secrets", "missingSecret",
           "invalidSpec", "rbac", "configMap", "deployment", "others",
           "fields", "flush"}

(* Every variable keeps its type.                                          *)
TypeOK ==
  /\ IsStore(store) /\ IsStore(cache)
  /\ behind \subseteq Kinds
  /\ status \in Statuses
  /\ queued \in BOOLEAN /\ timer \in BOOLEAN
  /\ pc \in Labels
  /\ run \in Runs
  /\ current \in BOOLEAN
  /\ everSecrets \subseteq Secrets
  /\ uids \in Nat /\ edits \in 0..MaxEdits /\ faults \in 0..MaxFaults

(* Something will make the worker look at the cluster again.               *)
Pending == queued \/ timer \/ behind \cap Watched # {}

(* What a run would read if it read the server, given an order of clients. *)
Wanted(order) == [uid |-> store["cluster"].uid, spec |-> store["cluster"].spec,
                  clients |-> store["clients"], order |-> order,
                  policies |-> store["policies"]]

Orders == Listings(Present(store["clients"]))

(* The ConfigMap and the Deployment both carry the current inputs, with    *)
(* the same listing of the clients: the hash is the ConfigMap's.           *)
Applied == /\ store["cluster"] # None
           /\ \E order \in Orders :
                \A k \in Children : store[k] = ChildOf(k, Wanted(order))

Rejected == RejectsTyped(ElementsOf(Wanted(<< >>)))

AfterReads == Labels \ {"idle", "get", "clients", "policies"}

(* A run that works on inputs that have changed since it read them (the    *)
(* spec, a client, a policy, the cluster's identity) is always followed by *)
(* another: no edit made between the reads and the writes of Reconcile is  *)
(* forgotten.                                                              *)
StaleReadIsFollowedUp ==
  pc \in AfterReads /\ ~Pending =>
    store["cluster"] # None /\ run = Wanted(run.order)

(* When the operator has nothing left to do, the children are exactly what *)
(* the current objects render to, whatever failed, was deleted, was        *)
(* recreated under the same name or was written from a stale copy before;  *)
(* or the objects are rejected by the renderer with a typed error.         *)
NoLostWakeup ==
  pc = "idle" /\ ~Pending /\ store["cluster"] # None => Applied \/ Rejected

(* Configuration that refers to a Secret is published only if the Secret   *)
(* has existed: checking comes before writing, on the same list of clients.*)
PublishedSecretsExist ==
  \A k \in Children : store[k] # None => store[k].refs \subseteq everSecrets

(* An invalid spec is not tried again, so its report must not get lost: if *)
(* no call failed, an operator at rest has the condition on the server     *)
(* although the update that sets it may conflict and its error is ignored. *)
InvalidSpecReported ==
  /\ pc = "idle" /\ ~Pending /\ faults = 0
  /\ store["cluster"] # None /\ ~Applied
  => status.degraded = "InvalidSpec"

(* The inductive form of the two properties above: while nothing is        *)
(* pending, what the run has read is what the server has, the children it  *)
(* has passed are the ones it wants, and the operator has a reason to rest.*)
ReadsCurrent ==
  /\ pc \notin {"idle", "get"} =>
       /\ store["cluster"] # None /\ current
       /\ run.uid = store["cluster"].uid /\ run.spec = store["cluster"].spec
  /\ pc \notin {"idle", "get", "clients"} =>
       run.clients = store["clients"] /\ run.order \in Orders
  /\ pc \in AfterReads => run.policies = store["policies"]
  /\ pc = "invalidSpec" => RejectsTyped(ElementsOf(run))

ChildrenCurrent ==
  /\ pc \in {"deployment", "others", "fields", "flush"} =>
       store["configMap"] = ConfigMapOf(run)
  /\ pc \in {"others", "fields", "flush"} => store["deployment"] = DeploymentOf(run)

MayRest == pc = "idle" /\ store["cluster"] # None =>
             \/ Applied
             \/ Rejected /\ (faults = 0 => status.degraded = "InvalidSpec")

CaughtUp == ~Pending => ReadsCurrent /\ ChildrenCurrent /\ MayRest

(* A kind none of whose events is outstanding is in the cache as it is.    *)
CacheAgrees == \A k \in Kinds \ behind : cache[k] = store[k]

(* What the inductive form of PublishedSecretsExist adds.                  *)
Resolved == {"rbac", "configMap", "deployment", "others", "fields", "flush"}
SecretsRemembered ==
  /\ store["secrets"] \subseteq everSecrets /\ cache["secrets"] \subseteq everSecrets
  /\ pc \in Resolved => SecretRefs(run.spec, run.clients) \subseteq everSecrets

Deployable == /\ store["cluster"] # None
              /\ Renders(ElementsOf(Wanted(<< >>)))
              /\ SecretRefs(store["cluster"].spec, store["clients"]) \subseteq store["secrets"]

MissesSecret == /\ store["cluster"] # None
                /\ ~(SecretRefs(store["cluster"].spec, store["clients"]) \subseteq store["secrets"])

(* Once the objects stay acceptable, they get applied and stay applied:    *)
(* also when the last edit is to a Secret, which nobody watches, and when  *)
(* the order of the clients flips between runs.                            *)
AppliedModuloOrder ==
  /\ store["cluster"] # None
  /\ \A k \in Children : \E order \in Orders : store[k] = ChildOf(k, Wanted(order))
EventuallyApplied == <>[]Deployable => <>[]AppliedModuloOrder

(* A Secret that stays missing is reported, unless the spec is rejected    *)
(* anyway and if no call fails.  Nobody watches Secrets: this rests on the *)
(* operator running again because of its own writes to the status.         *)
MissingSecretReported ==
  <>[](MissesSecret /\ ~Rejected) /\ [](faults = 0)
    => <>[](status.degraded = "MissingSecret")

(* A deleted cluster leaves no children behind, even if a run that had     *)
(* read it before creates some after the deletion.                         *)
DeletedClusterLeavesNothing ==
  <>[](store["cluster"] = None) => <>[](\A k \in Children : store[k] = None)

(* If no call fails, an acceptable cluster is reported available, not      *)
(* degraded and not progressing, again and again.                          *)
HealthyStatus == status.available /\ ~status.progressing /\ status.degraded = "no"
StatusRecovers == <>[]Deployable /\ [](faults = 0) => []<>HealthyStatus

(* The same inputs give the same configuration, so a Deployment whose pod  *)
(* template changes has seen its inputs change.                            *)
TemplateInputs(d) == <<d.uid, d.spec, d.files.clients, d.files.policies>>
RolloutOnlyOnChange ==
  [][store["deployment"] # None /\ store'["deployment"] # None
     /\ store'["deployment"] # store["deployment"]
     => TemplateInputs(store'["deployment"]) # TemplateInputs(store["deployment"])]_vars

(* Running Reconcile again with the same inputs changes nothing, so the    *)
(* operator comes to rest.                                                 *)
ComesToRest == <>[]Deployable => <>[](pc = "idle" /\ ~queued)

=============================================================================
