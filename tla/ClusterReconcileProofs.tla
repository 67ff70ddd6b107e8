----------------------- MODULE ClusterReconcileProofs -----------------------
(***************************************************************************)
(* Proofs about ClusterReconcile, for every set of clients, policies,      *)
(* specs and Secrets and every value of the two budgets.                   *)
(***************************************************************************)
EXTENDS ClusterReconcile, FiniteSetTheorems, SequenceTheorems, TLAPS

-----------------------------------------------------------------------------
(* Lemmas about the operators.                                             *)

(* Storing a value of a kind's type keeps a store a store.                 *)
LEMMA StoreWrite ==
  ASSUME NEW s, IsStore(s), NEW kind \in Kinds, NEW value, HasType(kind, value)
  PROVE  IsStore([s EXCEPT ![kind] = value])
BY DEF IsStore

(* A listing of some of the clients is a sequence of clients.              *)
LEMMA ListingType ==
  ASSUME NEW S \in SUBSET Clients, NEW order \in Listings(S)
  PROVE  order \in Seq(Clients)
<1>1. IsFiniteSet(S)
  BY Constants, FS_Subset DEF ConstantsAssumption
<1>2. Cardinality(S) \in Nat
  BY <1>1, FS_CardinalityType
<1>3. order \in [1..Cardinality(S) -> S]
  BY DEF Listings, Bijection, Injection
<1>4. order \in [1..Cardinality(S) -> Clients]
  BY <1>3
<1> QED BY <1>2, <1>4, SeqDef

(* The Secrets of a typed run are Secrets.                                 *)
LEMMA SecretRefsType ==
  ASSUME NEW spec \in ClusterSpecs, NEW clients \in ClientMaps
  PROVE  SecretRefs(spec, clients) \in SUBSET Secrets
<1>1. \A c \in Present(clients) : clients[c] \in ClientSpecs
  BY DEF Present, ClientMaps
<1>2. \A x \in ClusterSpecs \cup ClientSpecs : SecretsOf[x] \subseteq Secrets
  BY Constants DEF ConstantsAssumption
<1> QED BY <1>1, <1>2 DEF SecretRefs

(* The ConfigMap made from a run that has read a cluster is well typed.    *)
LEMMA RunConfigType ==
  ASSUME NEW r \in Runs, r.spec \in ClusterSpecs
  PROVE  ConfigMapOf(r) \in [uid : Nat, files : FilesType, refs : SUBSET Secrets]
<1>1. Files(r) \in FilesType
  BY DEF Files, FilesType, Runs
<1>2. SecretRefs(r.spec, r.clients) \in SUBSET Secrets
  BY SecretRefsType DEF Runs
<1> QED BY <1>1, <1>2 DEF ConfigMapOf, Runs

(* The children made from a run that has read a cluster are well typed.    *)
LEMMA ChildType ==
  ASSUME NEW r \in Runs, r.spec \in ClusterSpecs, NEW kind \in Children
  PROVE  HasType(kind, ChildOf(kind, r))
<1>1. Files(r) \in FilesType
  BY DEF Files, FilesType, Runs
<1>2. SecretRefs(r.spec, r.clients) \in SUBSET Secrets
  BY SecretRefsType DEF Runs
<1>3. ConfigMapOf(r) \in ConfigMaps
  BY RunConfigType DEF ConfigMaps
<1>4. DeploymentOf(r) \in Deployments
  BY <1>1, <1>2 DEF DeploymentOf, Deployments, Runs
<1> QED BY <1>3, <1>4 DEF ChildOf, HasType, Children

LEMMA NoRunType == NoRun \in Runs
BY DEF NoRun, Runs, ClientMaps, PolicyMaps

-----------------------------------------------------------------------------
(* Type correctness.                                                       *)

LEMMA InitType == Init => TypeOK
<1> SUFFICES ASSUME Init PROVE TypeOK
  OBVIOUS
<1>1. PICK spec \in ClusterSpecs, clients \in ClientMaps,
           policies \in PolicyMaps, secrets \in SUBSET Secrets :
        /\ store = [k \in Kinds |->
             CASE k = "cluster"  -> [uid |-> 1, spec |-> spec]
               [] k = "clients"  -> clients
               [] k = "policies" -> policies
               [] k = "secrets"  -> secrets
               [] OTHER          -> None]
        /\ everSecrets = secrets
  BY DEF Init
<1>2. [uid |-> 1, spec |-> spec] \in ClusterValues
  BY DEF ClusterValues
<1>3. None \in ConfigMaps /\ None \in Deployments
  BY DEF ConfigMaps, Deployments
<1>4. \A k \in Kinds : HasType(k, store[k])
  BY <1>1, <1>2, <1>3 DEF HasType, Kinds, Watched, Children
<1>5. IsStore(store)
  BY <1>1, <1>4 DEF IsStore
<1> QED
  <2>1. NoStatus \in Statuses
    BY DEF NoStatus, Statuses
  <2>2. IsStore(cache) /\ everSecrets \subseteq Secrets
    BY <1>1, <1>5 DEF Init
  <2>3. uids \in Nat /\ edits \in 0..MaxEdits /\ faults \in 0..MaxFaults
    BY Constants DEF Init, ConstantsAssumption
  <2> QED BY <1>5, <2>1, <2>2, <2>3, NoRunType DEF Init, TypeOK, Labels

(* A fault stays within its budget.                                        *)
LEMMA FaultType ==
  ASSUME TypeOK, Fault
  PROVE  faults' \in 0..MaxFaults
BY Constants DEF Fault, TypeOK, ConstantsAssumption

(* A call that writes the status writes a status.                          *)
LEMMA PutStatusType ==
  ASSUME TypeOK, NEW fresh \in BOOLEAN, NEW new \in Statuses, PutStatus(fresh, new)
  PROVE  status' \in Statuses /\ behind' \subseteq Kinds /\ faults' \in 0..MaxFaults
BY FaultType DEF PutStatus, TypeOK, Kinds, Watched

(* Changing one field of a status leaves a status.                         *)
LEMMA StatusFields ==
  ASSUME TypeOK
  PROVE  /\ [status EXCEPT !.progressing = TRUE] \in Statuses
         /\ [status EXCEPT !.degraded = "MissingSecret"] \in Statuses
         /\ [status EXCEPT !.degraded = "InvalidSpec"] \in Statuses
         /\ Complete(status) \in Statuses
         /\ \A s \in ClusterSpecs : [status EXCEPT !.image = ImageOf[s]] \in Statuses
BY DEF TypeOK, Statuses, Complete

(* A run that has read the cluster holds a spec.                           *)
RunHasSpec == pc \notin {"idle", "get"} => run.spec \in ClusterSpecs

LEMMA ReconcileType ==
  ASSUME TypeOK, RunHasSpec, Reconcile
  PROVE  TypeOK' /\ RunHasSpec'
<1> USE DEF Goto, Retry, ReturnNil, Labels, serverVars, budgets
<1>1. CASE Fetch
  <2>1. CASE UNCHANGED <<pc, status, behind, faults>>
    BY <1>1, <2>1 DEF Fetch, TypeOK, RunHasSpec, IsStore
  <2>2. CASE PutStatus("cluster" \notin behind, [status EXCEPT !.progressing = TRUE])
             /\ Goto("get")
    BY <1>1, <2>2, PutStatusType, StatusFields DEF Fetch, TypeOK, RunHasSpec, IsStore
  <2> QED BY <1>1, <2>1, <2>2 DEF Fetch
<1>2. CASE GetCluster
  <2>1. CASE Retry
    BY <1>2, <2>1, NoRunType DEF GetCluster, TypeOK, RunHasSpec, IsStore
  <2>2. CASE cache["cluster"] # None /\ pc' = "clients"
    <3>1. cache["cluster"] \in [uid: Nat, spec: ClusterSpecs]
      BY <2>2 DEF TypeOK, IsStore, HasType, Kinds, Watched, ClusterValues
    <3>2. run' \in Runs /\ run'.spec \in ClusterSpecs
      BY <1>2, <2>2, <3>1, NoRunType DEF GetCluster, Runs
    <3> QED BY <1>2, <2>2, <3>2 DEF GetCluster, TypeOK, RunHasSpec, IsStore
  <2> QED BY <1>2, <2>1, <2>2 DEF GetCluster
<1>3. CASE ListClients
  <2>1. cache["clients"] \in ClientMaps
    BY DEF TypeOK, IsStore, HasType, Kinds, Watched
  <2>2. Present(cache["clients"]) \in SUBSET Clients
    BY <2>1 DEF Present, ClientMaps
  <2>3. run' \in Runs /\ run'.spec = run.spec
    BY <1>3, <2>1, <2>2, ListingType DEF ListClients, TypeOK, Runs
  <2> QED BY <1>3, <2>3 DEF ListClients, TypeOK, RunHasSpec, IsStore
<1>4. CASE ListPolicies
  <2>1. cache["policies"] \in PolicyMaps
    BY DEF TypeOK, IsStore, HasType, Kinds, Watched
  <2>2. run' \in Runs /\ run'.spec = run.spec
    BY <1>4, <2>1 DEF ListPolicies, TypeOK, Runs
  <2> QED BY <1>4, <2>2 DEF ListPolicies, TypeOK, RunHasSpec, IsStore
<1>5. CASE Resolve
  BY <1>5, NoRunType DEF Resolve, TypeOK, RunHasSpec, IsStore
<1>6. CASE ReportMissingSecret
  BY <1>6, NoRunType, PutStatusType, StatusFields DEF ReportMissingSecret, TypeOK, RunHasSpec, IsStore
<1>7. CASE ReportInvalidSpec
  BY <1>7, NoRunType, PutStatusType, StatusFields DEF ReportInvalidSpec, TypeOK, RunHasSpec, IsStore
<1>8. ASSUME NEW from \in {"rbac", "others"}, NEW to \in {"configMap", "fields"},
             ReconcileOthers(from, to)
      PROVE  TypeOK' /\ RunHasSpec'
  BY <1>8, NoRunType, FaultType DEF ReconcileOthers, TypeOK, RunHasSpec, IsStore
<1>9. ASSUME NEW kind \in Children, NEW to \in {"deployment", "others"},
             ReconcileChild(kind, to)
      PROVE  TypeOK' /\ RunHasSpec'
  <2>1. kind \in Kinds
    BY DEF Kinds, Watched
  <2>2. HasType(kind, ChildOf(kind, run))
    BY <1>9, ChildType DEF ReconcileChild, Children, TypeOK, RunHasSpec
  <2>3. IsStore(store') /\ behind' \subseteq Kinds
    BY <1>9, <2>1, <2>2, StoreWrite DEF ReconcileChild, Apply, Put, TypeOK
  <2>4. UNCHANGED faults \/ Fault
    BY <1>9 DEF ReconcileChild
  <2>5. faults' \in 0..MaxFaults
    BY <2>4, FaultType DEF TypeOK
  <2>6. run' \in Runs /\ pc' \in Labels /\ timer' \in BOOLEAN /\ current' \in BOOLEAN
    BY <1>9, NoRunType DEF ReconcileChild, TypeOK
  <2>7. pc' = "idle" \/ run' = run
    BY <1>9 DEF ReconcileChild
  <2>8. pc \notin {"idle", "get"}
    BY <1>9 DEF ReconcileChild, Children
  <2>9. UNCHANGED <<status, cache, queued, everSecrets, uids, edits>>
    BY <1>9 DEF ReconcileChild
  <2> QED BY <2>3, <2>5, <2>6, <2>7, <2>8, <2>9 DEF TypeOK, RunHasSpec, IsStore
<1>10. CASE UpdateFields
  <2>1. cache["cluster"] # None => cache["cluster"].spec \in ClusterSpecs
    BY DEF TypeOK, IsStore, HasType, Kinds, Watched, ClusterValues
  <2> QED BY <1>10, <2>1, NoRunType, PutStatusType, StatusFields
          DEF UpdateFields, TypeOK, RunHasSpec, IsStore
<1>11. CASE Flush
  BY <1>11, NoRunType, PutStatusType, StatusFields DEF Flush, TypeOK, RunHasSpec, IsStore
<1> QED
  BY <1>1, <1>2, <1>3, <1>4, <1>5, <1>6, <1>7, <1>8, <1>9, <1>10, <1>11
  DEF Reconcile, Children

LEMMA ManagerType ==
  ASSUME TypeOK, RunHasSpec,
         TimerFires \/ Restart \/ \E kind \in Kinds : Deliver(kind)
  PROVE  TypeOK' /\ RunHasSpec'
<1> USE DEF serverVars, controlVars, budgets
<1>1. CASE TimerFires
  BY <1>1 DEF TimerFires, TypeOK, RunHasSpec, IsStore
<1>2. CASE Restart
  <2>1. Sighted \in BOOLEAN
    BY DEF Sighted
  <2> QED BY <1>2, <2>1, NoRunType, FaultType
          DEF Restart, Goto, Labels, TypeOK, RunHasSpec, IsStore
<1>3. ASSUME NEW kind \in Kinds, Deliver(kind)
      PROVE  TypeOK' /\ RunHasSpec'
  <2>1. IsStore(cache')
    BY <1>3, StoreWrite DEF Deliver, TypeOK, IsStore
  <2> QED BY <1>3, <2>1 DEF Deliver, TypeOK, RunHasSpec, IsStore
<1> QED BY <1>1, <1>2, <1>3

LEMMA EditType ==
  ASSUME TypeOK, Edit
  PROVE  edits' \in 0..MaxEdits
BY Constants DEF Edit, TypeOK, ConstantsAssumption

(* A step of the environment puts one value of one kind on the server, and *)
(* touches nothing of the worker's but the freshness of its copy.  Only an *)
(* edit of Secrets puts a kind nobody watches.                             *)
Writes(kind) == \E value : HasType(kind, value) /\ Put(kind, value)

LEMMA EnvironmentWrites ==
  ASSUME TypeOK, Environment
  PROVE  /\ \/ \E kind \in Watched : Writes(kind)
            \/ Writes("secrets") /\ \E secrets \in SUBSET Secrets : EditSecrets(secrets)
         /\ UNCHANGED <<cache, queued, timer, pc, run, faults>>
<1> USE DEF EnvironmentLeaves, Kinds, Watched, Children
<1>1. /\ HasType("cluster", store["cluster"]) /\ HasType("clients", store["clients"])
      /\ HasType("policies", store["policies"]) /\ HasType("deployment", store["deployment"])
  BY DEF TypeOK, IsStore
<1>2. HasType("cluster", None) /\ \A kind \in Children : HasType(kind, None)
  BY DEF HasType, ClusterValues, ConfigMaps, Deployments
<1>3. ASSUME NEW spec \in ClusterSpecs, EditCluster(spec) \/ CreateCluster(spec)
      PROVE  /\ Writes("cluster")
             /\ UNCHANGED <<cache, queued, timer, pc, run, faults>>
  <2>1. CASE EditCluster(spec)
    <3>1. store["cluster"].uid \in Nat
      BY <1>1, <2>1 DEF EditCluster, HasType, ClusterValues
    <3>2. HasType("cluster", [uid |-> store["cluster"].uid, spec |-> spec])
      BY <3>1 DEF HasType, ClusterValues
    <3> QED BY <2>1, <3>2 DEF EditCluster, Writes
  <2>2. CASE CreateCluster(spec)
    <3>1. HasType("cluster", [uid |-> uids', spec |-> spec])
      BY <2>2 DEF CreateCluster, HasType, ClusterValues, TypeOK
    <3> QED BY <2>2, <3>1 DEF CreateCluster, Writes
  <2> QED BY <1>3, <2>1, <2>2
<1>4. ASSUME DeleteCluster
      PROVE  /\ Writes("cluster")
             /\ UNCHANGED <<cache, queued, timer, pc, run, faults>>
  BY <1>4, <1>2 DEF DeleteCluster, Writes
<1>5. ASSUME NEW c \in Clients, NEW spec \in ClientSpecs \cup {None},
             EditObject("clients", c, spec)
      PROVE  /\ Writes("clients")
             /\ UNCHANGED <<cache, queued, timer, pc, run, faults>>
  <2>1. HasType("clients", [store["clients"] EXCEPT ![c] = spec])
    BY <1>1 DEF HasType, ClientMaps
  <2> QED BY <1>5, <2>1 DEF EditObject, Writes
<1>6. ASSUME NEW p \in Policies, NEW spec \in PolicySpecs \cup {None},
             EditObject("policies", p, spec)
      PROVE  /\ Writes("policies")
             /\ UNCHANGED <<cache, queued, timer, pc, run, faults>>
  <2>1. HasType("policies", [store["policies"] EXCEPT ![p] = spec])
    BY <1>1 DEF HasType, PolicyMaps
  <2> QED BY <1>6, <2>1 DEF EditObject, Writes
<1>7. ASSUME NEW secrets \in SUBSET Secrets, EditSecrets(secrets)
      PROVE  /\ Writes("secrets")
             /\ UNCHANGED <<cache, queued, timer, pc, run, faults>>
  <2>1. HasType("secrets", secrets)
    BY DEF HasType
  <2> QED BY <1>7, <2>1 DEF EditSecrets, Writes
<1>8. ASSUME NEW kind \in Children, DeleteChild(kind) \/ CollectGarbage(kind)
      PROVE  /\ Writes(kind)
             /\ UNCHANGED <<cache, queued, timer, pc, run, faults>>
  BY <1>8, <1>2 DEF DeleteChild, CollectGarbage, Writes
<1>9. ASSUME DeploymentProgresses
      PROVE  /\ Writes("deployment")
             /\ UNCHANGED <<cache, queued, timer, pc, run, faults>>
  BY <1>9, <1>1 DEF DeploymentProgresses, Writes
<1>10. {"cluster", "clients", "policies", "deployment"} \subseteq Watched
       /\ Children \subseteq Watched
  OBVIOUS
<1> HIDE DEF EnvironmentLeaves, Kinds, Watched, Children
<1> QED BY <1>3, <1>4, <1>5, <1>6, <1>7, <1>8, <1>9, <1>10 DEF Environment

LEMMA EnvironmentType ==
  ASSUME TypeOK, RunHasSpec, Environment
  PROVE  TypeOK' /\ RunHasSpec'
<1>0. PICK kind \in Kinds : Writes(kind)
  BY EnvironmentWrites DEF Kinds, Watched
<1>1. PICK value : HasType(kind, value) /\ Put(kind, value)
  BY <1>0 DEF Writes
<1>2. UNCHANGED <<cache, queued, timer, pc, run, faults>>
  BY EnvironmentWrites
<1>3. IsStore(store') /\ behind' \subseteq Kinds
  BY <1>1, StoreWrite DEF Put, TypeOK
<1>4. status' \in Statuses /\ current' \in BOOLEAN
  <2>1. NoStatus \in Statuses
    BY DEF NoStatus, Statuses
  <2> QED BY <2>1 DEF Environment, EditCluster, CreateCluster, DeleteCluster, EditObject,
           EditSecrets, DeleteChild, CollectGarbage, DeploymentProgresses, TypeOK
<1>5. everSecrets' \subseteq Secrets /\ uids' \in Nat
  <2>1. UNCHANGED everSecrets \/ \E s \in SUBSET Secrets : everSecrets' = everSecrets \cup s
    BY DEF Environment, EditCluster, CreateCluster, DeleteCluster, EditObject,
           EditSecrets, DeleteChild, CollectGarbage, DeploymentProgresses, budgets
  <2>2. UNCHANGED uids \/ uids' = uids + 1
    BY DEF Environment, EditCluster, CreateCluster, DeleteCluster, EditObject,
           EditSecrets, DeleteChild, CollectGarbage, DeploymentProgresses, budgets
  <2> QED BY <2>1, <2>2 DEF TypeOK
<1>6. edits' \in 0..MaxEdits
  <2>1. Edit \/ UNCHANGED edits
    BY DEF Environment, EditCluster, CreateCluster, DeleteCluster, EditObject,
           EditSecrets, DeleteChild, CollectGarbage, DeploymentProgresses, budgets
  <2> QED BY <2>1, EditType DEF TypeOK
<1> QED BY <1>2, <1>3, <1>4, <1>5, <1>6 DEF TypeOK, RunHasSpec, IsStore

(* Every variable keeps its type, and a run past GetCluster has a spec.    *)
THEOREM TypeCorrect == Spec => [](TypeOK /\ RunHasSpec)
<1>1. Init => TypeOK /\ RunHasSpec
  BY InitType DEF Init, RunHasSpec
<1>2. TypeOK /\ RunHasSpec /\ [Next]_vars => TypeOK' /\ RunHasSpec'
  <2> SUFFICES ASSUME TypeOK, RunHasSpec, [Next]_vars
               PROVE  TypeOK' /\ RunHasSpec'
    OBVIOUS
  <2>1. CASE UNCHANGED vars
    BY <2>1 DEF vars, TypeOK, RunHasSpec, IsStore
  <2>2. CASE Next
    BY <2>2, ReconcileType, ManagerType, EnvironmentType DEF Next
  <2> QED BY <2>1, <2>2
<1> QED BY <1>1, <1>2, PTL DEF Spec

-----------------------------------------------------------------------------
(* The caches.                                                             *)

LEMMA CacheAgreesStep ==
  ASSUME TypeOK, CacheAgrees, [Next]_vars
  PROVE  CacheAgrees'
<1> USE DEF serverVars, controlVars, budgets
<1>1. CASE UNCHANGED vars
  BY <1>1 DEF vars, CacheAgrees
<1>2. ASSUME Environment PROVE CacheAgrees'
  <2>0. PICK kind \in Kinds : Writes(kind)
    BY <1>2, EnvironmentWrites DEF Kinds, Watched
  <2>1. PICK value : Put(kind, value)
    BY <2>0 DEF Writes
  <2> QED BY <1>2, <2>1, EnvironmentWrites DEF Put, CacheAgrees, TypeOK, IsStore
<1>3. ASSUME NEW kind \in Kinds, Deliver(kind) PROVE CacheAgrees'
  BY <1>3 DEF Deliver, CacheAgrees, TypeOK, IsStore
<1>4. CASE TimerFires
  BY <1>4 DEF TimerFires, CacheAgrees
<1>5. CASE Restart
  BY <1>5 DEF Restart, CacheAgrees
<1>6. ASSUME NEW kind \in Children, NEW to, ReconcileChild(kind, to)
      PROVE  CacheAgrees'
  <2>1. kind \in Kinds
    BY DEF Kinds, Watched
  <2>2. UNCHANGED <<store, behind>> \/ Put(kind, ChildOf(kind, run))
    BY <1>6 DEF ReconcileChild, Apply
  <2>3. UNCHANGED cache
    BY <1>6 DEF ReconcileChild
  <2> QED BY <2>1, <2>2, <2>3 DEF Put, CacheAgrees, TypeOK, IsStore
<1>7. ASSUME Reconcile, UNCHANGED <<store, cache>>, behind \subseteq behind'
      PROVE  CacheAgrees'
  BY <1>7 DEF CacheAgrees
<1>8. ASSUME Reconcile PROVE CacheAgrees'
  <2>1. \A fresh, new : PutStatus(fresh, new) => behind \subseteq behind'
    BY DEF PutStatus
  <2>2. CASE Fetch
    BY <2>1, <2>2, <1>7, <1>8 DEF Fetch
  <2>3. CASE ReportMissingSecret \/ ReportInvalidSpec
    BY <2>1, <2>3, <1>7, <1>8 DEF ReportMissingSecret, ReportInvalidSpec
  <2>4. CASE UpdateFields
    BY <2>1, <2>4, <1>7, <1>8 DEF UpdateFields
  <2>5. CASE Flush
    BY <2>1, <2>5, <1>7, <1>8 DEF Flush
  <2>6. CASE GetCluster \/ ListClients \/ ListPolicies \/ Resolve
    BY <2>6, <1>7, <1>8 DEF GetCluster, ListClients, ListPolicies, Resolve
  <2>7. ASSUME NEW from, NEW to, ReconcileOthers(from, to) PROVE CacheAgrees'
    BY <2>7, <1>7, <1>8 DEF ReconcileOthers
  <2> QED BY <1>6, <1>8, <2>2, <2>3, <2>4, <2>5, <2>6, <2>7 DEF Reconcile, Children
<1> QED BY <1>1, <1>2, <1>3, <1>4, <1>5, <1>8 DEF Next

-----------------------------------------------------------------------------
(* No wakeup is lost.                                                      *)

(* A write to a watched kind leaves an event to deliver.                   *)
LEMMA WatchedWritePends ==
  ASSUME NEW kind \in Watched, NEW value, Put(kind, value)
  PROVE  Pending'
BY DEF Put, Pending

(* When nothing is pending, what the caches show is what the server has.   *)
LEMMA QuietCache ==
  ASSUME CacheAgrees, ~Pending
  PROVE  \A k \in Watched : cache[k] = store[k] /\ k \notin behind
BY DEF CacheAgrees, Pending, Kinds, Watched

(* A step that only adds events does not make the operator quiet.          *)
LEMMA QuietBefore ==
  ASSUME ~Pending', behind \subseteq behind', UNCHANGED queued,
         UNCHANGED timer
  PROVE  ~Pending
BY DEF Pending

(* A run that has read the current objects wants what they want.           *)
LEMMA RunIsWanted ==
  ASSUME TypeOK, RunHasSpec, ReadsCurrent, pc \in AfterReads
  PROVE  run = Wanted(run.order) /\ run.order \in Orders
BY DEF TypeOK, Runs, ReadsCurrent, AfterReads, Labels, Wanted

LEMMA RetryPends == Retry => Pending'
BY DEF Retry, Pending

LEMMA StatusEvents ==
  ASSUME NEW fresh, NEW new, PutStatus(fresh, new)
  PROVE  behind \subseteq behind'
BY DEF PutStatus

LEMMA CaughtUpEnvironment ==
  ASSUME TypeOK, CaughtUp, Environment
  PROVE  CaughtUp'
<1>1. CASE \E kind \in Watched : Writes(kind)
  BY <1>1, WatchedWritePends DEF Writes, CaughtUp
<1>2. ASSUME NEW secrets \in SUBSET Secrets, EditSecrets(secrets)
      PROVE  CaughtUp'
  <2>1. \A k \in Watched : store'[k] = store[k]
    BY <1>2 DEF EditSecrets, Put, TypeOK, IsStore, Kinds, Watched, Children
  <2>2. behind' \cap Watched = behind \cap Watched
    BY <1>2 DEF EditSecrets, Put, Watched, Children
  <2>3. UNCHANGED <<queued, timer, pc, run, faults, status, current>>
    BY <1>2 DEF EditSecrets, EnvironmentLeaves
  <2>4. Pending' = Pending
    BY <2>2, <2>3 DEF Pending
  <2> USE DEF Watched, Children
  <2>5. /\ store'["cluster"] = store["cluster"] /\ store'["clients"] = store["clients"]
        /\ store'["policies"] = store["policies"]
        /\ store'["configMap"] = store["configMap"]
        /\ store'["deployment"] = store["deployment"]
    BY <2>1
  <2>6. Orders' = Orders /\ \A order : Wanted(order)' = Wanted(order)
    BY <2>5 DEF Orders, Wanted
  <2>7. Applied' = Applied /\ Rejected' = Rejected
    BY <2>5, <2>6 DEF Applied, Rejected, Wanted
  <2>8. ReadsCurrent => ReadsCurrent'
    BY <2>3, <2>5, <2>6 DEF ReadsCurrent
  <2>9. ChildrenCurrent => ChildrenCurrent'
    BY <2>3, <2>5 DEF ChildrenCurrent
  <2>10. MayRest => MayRest'
    BY <2>3, <2>5, <2>7 DEF MayRest
  <2> QED BY <2>4, <2>8, <2>9, <2>10 DEF CaughtUp
<1> QED BY <1>1, <1>2, EnvironmentWrites

(* With the server's objects unchanged, so is what the operator wants.     *)
LEMMA SameObjects ==
  ASSUME UNCHANGED store
  PROVE  /\ Orders' = Orders /\ Applied' = Applied /\ Rejected' = Rejected
         /\ \A order : Wanted(order)' = Wanted(order)
BY DEF Orders, Applied, Rejected, Wanted

LEMMA CaughtUpManager ==
  ASSUME TypeOK, CaughtUp,
         TimerFires \/ Restart \/ \E kind \in Kinds : Deliver(kind)
  PROVE  CaughtUp'
<1> USE DEF serverVars, controlVars, budgets
<1>1. CASE TimerFires
  BY <1>1 DEF TimerFires, CaughtUp, Pending
<1>2. CASE Restart
  <2>1. ~Pending' => store'["cluster"] = None
    BY <1>2 DEF Restart, Pending, Sighted
  <2> QED BY <1>2, <2>1
          DEF Restart, Goto, CaughtUp, ReadsCurrent, ChildrenCurrent, MayRest, AfterReads
<1>3. ASSUME NEW kind \in Watched, Deliver(kind) PROVE CaughtUp'
  BY <1>3 DEF Deliver, CaughtUp, Pending
<1>4. CASE Deliver("secrets")
  <2>1. Pending' = Pending
    BY <1>4 DEF Deliver, Pending, Watched, Children
  <2>2. UNCHANGED <<store, status, pc, run, current, faults>>
    BY <1>4 DEF Deliver
  <2> QED BY <2>1, <2>2, SameObjects DEF CaughtUp, ReadsCurrent, ChildrenCurrent, MayRest
<1> QED BY <1>1, <1>2, <1>3, <1>4 DEF Kinds, Watched

(* The steps up to Render read; they leave the server's objects alone.     *)
LEMMA CaughtUpReads ==
  ASSUME TypeOK, CacheAgrees, CaughtUp,
         Fetch \/ GetCluster \/ ListClients \/ ListPolicies \/ Resolve
  PROVE  CaughtUp'
<1> SUFFICES ASSUME ~Pending'
             PROVE  ReadsCurrent' /\ ChildrenCurrent' /\ MayRest'
  BY DEF CaughtUp
<1> USE DEF serverVars, budgets, Goto
<1>1. CASE Fetch
  <2>1. CASE cache["cluster"] = None /\ UNCHANGED <<pc, behind>>
    <3>1. store["cluster"] = None
      BY <1>1, <2>1 DEF CacheAgrees, Pending, Kinds, Watched
    <3> QED BY <1>1, <2>1, <3>1
            DEF Fetch, ReadsCurrent, ChildrenCurrent, MayRest, AfterReads
  <2>2. CASE pc' = "get"
    BY <2>2 DEF ReadsCurrent, ChildrenCurrent, MayRest, AfterReads
  <2> QED BY <1>1, <2>1, <2>2 DEF Fetch
<1>2. CASE GetCluster
  <2>1. ~Retry
    BY RetryPends
  <2>2. pc' = "clients" /\ cache["cluster"] # None /\ UNCHANGED <<store, behind, queued, timer>>
    BY <1>2, <2>1 DEF GetCluster
  <2>3. cache["cluster"] = store["cluster"] /\ "cluster" \notin behind
    BY <2>2, QuietBefore, QuietCache DEF Watched
  <2>4. run'.uid = store["cluster"].uid /\ run'.spec = store["cluster"].spec /\ current'
    BY <1>2, <2>1, <2>3 DEF GetCluster, NoRun
  <2> QED BY <2>2, <2>3, <2>4 DEF ReadsCurrent, ChildrenCurrent, MayRest, AfterReads
<1>3. CASE ListClients
  <2>1. ~Pending
    BY <1>3, QuietBefore DEF ListClients
  <2>2. cache["clients"] = store["clients"]
    BY <2>1, QuietCache DEF Watched
  <2>3. /\ run'.clients = store["clients"] /\ run'.order \in Orders
        /\ run'.uid = run.uid /\ run'.spec = run.spec
    BY <1>3, <2>2 DEF ListClients, Orders, TypeOK, Runs
  <2>4. pc = "clients" /\ pc' = "policies" /\ UNCHANGED <<store, current>>
    BY <1>3 DEF ListClients
  <2>5. ReadsCurrent
    BY <2>1 DEF CaughtUp
  <2> QED BY <2>3, <2>4, <2>5, SameObjects
          DEF ReadsCurrent, ChildrenCurrent, MayRest, AfterReads
<1>4. CASE ListPolicies
  <2>1. ~Pending
    BY <1>4, QuietBefore DEF ListPolicies
  <2>2. cache["policies"] = store["policies"]
    BY <2>1, QuietCache DEF Watched
  <2>3. /\ run'.policies = store["policies"] /\ run'.order = run.order
        /\ run'.uid = run.uid /\ run'.spec = run.spec /\ run'.clients = run.clients
    BY <1>4, <2>2 DEF ListPolicies, TypeOK, Runs
  <2>4. pc = "policies" /\ pc' = "secrets" /\ UNCHANGED <<store, current>>
    BY <1>4 DEF ListPolicies
  <2>5. ReadsCurrent
    BY <2>1 DEF CaughtUp
  <2> QED BY <2>3, <2>4, <2>5, SameObjects
          DEF ReadsCurrent, ChildrenCurrent, MayRest, AfterReads
<1>5. CASE Resolve
  <2>1. ~Retry
    BY RetryPends
  <2>2. /\ pc = "secrets" /\ pc' \in {"missingSecret", "rbac", "invalidSpec"}
        /\ UNCHANGED <<store, behind, queued, timer, run, current>>
        /\ pc' = "invalidSpec" => RejectsTyped(ElementsOf(run))
    BY <1>5, <2>1 DEF Resolve
  <2>3. ReadsCurrent
    BY <2>2, QuietBefore DEF CaughtUp
  <2>4. pc \in AfterReads /\ (RejectsTyped(ElementsOf(run)))' = RejectsTyped(ElementsOf(run))
    BY <2>2 DEF AfterReads, Labels, RejectsTyped, ElementsOf
  <2> QED BY <2>2, <2>3, <2>4, SameObjects DEF ReadsCurrent, ChildrenCurrent, MayRest
<1> QED BY <1>1, <1>2, <1>3, <1>4, <1>5

(* A step that goes on from one label to the next, with the run as it was  *)
(* and the objects on the server unchanged, keeps what the run has read.   *)
LEMMA StillCurrent ==
  ASSUME ReadsCurrent, pc \in AfterReads, pc' \in AfterReads, pc' # "invalidSpec",
         UNCHANGED <<run, current>>, Orders' = Orders,
         \A k \in {"cluster", "clients", "policies"} : store'[k] = store[k]
  PROVE  ReadsCurrent'
BY DEF ReadsCurrent, AfterReads, Labels

LEMMA CaughtUpReports ==
  ASSUME TypeOK, RunHasSpec, CaughtUp,
         ReportMissingSecret \/ ReportInvalidSpec \/ UpdateFields \/ Flush
  PROVE  CaughtUp'
<1> SUFFICES ASSUME ~Pending'
             PROVE  ReadsCurrent' /\ ChildrenCurrent' /\ MayRest'
  BY DEF CaughtUp
<1> USE DEF budgets, Goto
<1>0. ~Retry
  BY RetryPends
<1>1. CASE ReportMissingSecret
  BY <1>0, <1>1 DEF ReportMissingSecret
<1>2. CASE ReportInvalidSpec
  <2>1. /\ pc = "invalidSpec" /\ pc' = "idle"
        /\ PutStatus(current, [status EXCEPT !.degraded = "InvalidSpec"])
        /\ UNCHANGED <<store, queued, timer>>
    BY <1>2 DEF ReportInvalidSpec, ReturnNil
  <2>2. ~Pending
    BY <2>1, StatusEvents, QuietBefore
  <2>3. ReadsCurrent /\ pc \in AfterReads
    BY <2>1, <2>2 DEF CaughtUp, AfterReads, Labels
  <2>4. run = Wanted(run.order)
    BY <2>3, RunIsWanted
  <2>5. ElementsOf(Wanted(<< >>)) = ElementsOf(run)
    BY <2>4 DEF ElementsOf, Wanted
  <2>6. Rejected'
    BY <2>1, <2>3, <2>5, SameObjects DEF Rejected, ReadsCurrent
  <2>7. faults' = 0 => status'.degraded = "InvalidSpec"
    <3>1. current
      BY <2>1, <2>3 DEF ReadsCurrent
    <3>2. Fault => faults' # 0
      BY DEF Fault, TypeOK
    <3>3. [status EXCEPT !.degraded = "InvalidSpec"].degraded = "InvalidSpec"
      BY DEF TypeOK, Statuses
    <3> QED BY <2>1, <3>1, <3>2, <3>3 DEF PutStatus
  <2> QED BY <2>1, <2>6, <2>7 DEF ReadsCurrent, ChildrenCurrent, MayRest, AfterReads
<1>3. CASE UpdateFields
  <2>1. /\ pc = "fields" /\ pc' = "flush"
        /\ UNCHANGED <<store, queued, timer, run, current>>
        /\ behind \subseteq behind'
    BY <1>0, <1>3, StatusEvents DEF UpdateFields
  <2>2. ReadsCurrent /\ ChildrenCurrent
    BY <2>1, QuietBefore DEF CaughtUp
  <2> QED BY <2>1, <2>2, SameObjects, StillCurrent
          DEF ChildrenCurrent, MayRest, AfterReads, Labels, ConfigMapOf, DeploymentOf, Files
<1>4. CASE Flush
  <2>1. /\ pc = "flush" /\ pc' = "idle"
        /\ UNCHANGED <<store, queued, timer>>
        /\ behind \subseteq behind'
    BY <1>0, <1>4, StatusEvents DEF Flush, ReturnNil
  <2>2. ReadsCurrent /\ ChildrenCurrent
    BY <2>1, QuietBefore DEF CaughtUp
  <2>3. run = Wanted(run.order) /\ run.order \in Orders
    BY <2>1, <2>2, RunIsWanted DEF AfterReads, Labels
  <2>4. Applied
    BY <2>1, <2>2, <2>3 DEF Applied, ReadsCurrent, ChildrenCurrent, Children, ChildOf
  <2> QED BY <2>1, <2>4, SameObjects DEF ReadsCurrent, ChildrenCurrent, MayRest, AfterReads
<1> QED BY <1>1, <1>2, <1>3, <1>4

LEMMA CaughtUpWrites ==
  ASSUME TypeOK, RunHasSpec, CacheAgrees, CaughtUp,
         NEW kind \in Children, NEW to,
         <<kind, to>> \in {<<"configMap", "deployment">>, <<"deployment", "others">>},
         ReconcileChild(kind, to)
  PROVE  CaughtUp'
<1> SUFFICES ASSUME ~Pending'
             PROVE  ReadsCurrent' /\ ChildrenCurrent' /\ MayRest'
  BY DEF CaughtUp
<1>1. ~Retry
  BY RetryPends
<1>2. kind \in Watched
  BY DEF Watched
<1>3. ~Put(kind, ChildOf(kind, run))
  BY <1>2, WatchedWritePends
<1>4. /\ pc = kind /\ pc' = to
      /\ UNCHANGED <<store, behind, queued, timer, run, current>>
      /\ \/ cache[kind] = ChildOf(kind, run)
         \/ store[kind] = ChildOf(kind, run)
  BY <1>1, <1>3 DEF ReconcileChild, Skipped, Apply, Goto
<1>5. ~Pending
  BY <1>4, QuietBefore
<1>6. store[kind] = ChildOf(kind, run)
  BY <1>2, <1>4, <1>5, QuietCache
<1>7. ReadsCurrent /\ ChildrenCurrent
  BY <1>5 DEF CaughtUp
<1>8. ReadsCurrent'
  BY <1>4, <1>7, SameObjects, StillCurrent DEF AfterReads, Labels, Children
<1>9. ChildrenCurrent'
  BY <1>4, <1>6, <1>7
  DEF ChildrenCurrent, ChildOf, Children, ConfigMapOf, DeploymentOf, Files
<1> QED BY <1>4, <1>8, <1>9 DEF MayRest, Children

LEMMA CaughtUpOthers ==
  ASSUME TypeOK, CaughtUp, NEW from, NEW to,
         <<from, to>> \in {<<"rbac", "configMap">>, <<"others", "fields">>},
         ReconcileOthers(from, to)
  PROVE  CaughtUp'
<1> SUFFICES ASSUME ~Pending'
             PROVE  ReadsCurrent' /\ ChildrenCurrent' /\ MayRest'
  BY DEF CaughtUp
<1>1. /\ pc = from /\ pc' = to
      /\ UNCHANGED <<store, behind, queued, timer, run, current>>
  BY RetryPends DEF ReconcileOthers, Goto, serverVars
<1>2. ReadsCurrent /\ ChildrenCurrent
  BY <1>1, QuietBefore DEF CaughtUp
<1>3. ReadsCurrent'
  BY <1>1, <1>2, SameObjects, StillCurrent DEF AfterReads, Labels
<1>4. ChildrenCurrent'
  BY <1>1, <1>2 DEF ChildrenCurrent, ConfigMapOf, DeploymentOf, Files
<1> QED BY <1>1, <1>3, <1>4 DEF MayRest

CaughtUpInv == CacheAgrees /\ CaughtUp

LEMMA CaughtUpInit == Init => CaughtUpInv
BY DEF Init, CaughtUpInv, CacheAgrees, CaughtUp, Pending

LEMMA CaughtUpStep ==
  ASSUME TypeOK, RunHasSpec, CaughtUpInv, [Next]_vars
  PROVE  CaughtUpInv'
<1>1. CacheAgrees'
  BY CacheAgreesStep DEF CaughtUpInv
<1>2. CaughtUp'
  <2> USE DEF CaughtUpInv
  <2>1. CASE UNCHANGED vars
    BY <2>1, SameObjects
    DEF vars, CaughtUp, Pending, ReadsCurrent, ChildrenCurrent, MayRest
  <2>2. ASSUME Reconcile PROVE CaughtUp'
    BY <2>2, CaughtUpReads, CaughtUpReports, CaughtUpWrites, CaughtUpOthers
    DEF Reconcile, Children
  <2> QED BY <2>1, <2>2, CaughtUpManager, CaughtUpEnvironment DEF Next
<1> QED BY <1>1, <1>2 DEF CaughtUpInv

(* Whatever is edited, fails, is restarted, deleted or recreated, and in   *)
(* whichever order events arrive, the operator never rests on children     *)
(* that do not carry the current inputs, unless the renderer rejects them. *)
THEOREM NoWakeupIsLost == Spec => []NoLostWakeup
<1>1. Init => TypeOK /\ RunHasSpec /\ CaughtUpInv
  BY InitType, CaughtUpInit DEF Init, RunHasSpec
<1>2. TypeOK /\ RunHasSpec /\ CaughtUpInv /\ [Next]_vars => CaughtUpInv'
  BY CaughtUpStep
<1>3. CaughtUpInv => NoLostWakeup
  BY DEF CaughtUpInv, CaughtUp, MayRest, NoLostWakeup
<1> QED BY <1>1, <1>2, <1>3, TypeCorrect, PTL DEF Spec

(* An edit that falls between the reads and the writes of a run is seen by *)
(* a later run.                                                            *)
THEOREM StaleReadsAreFollowedUp == Spec => []StaleReadIsFollowedUp
<1>1. Init => CaughtUpInv
  BY CaughtUpInit
<1>2. TypeOK /\ RunHasSpec /\ CaughtUpInv /\ [Next]_vars => CaughtUpInv'
  BY CaughtUpStep
<1>3. TypeOK /\ RunHasSpec /\ CaughtUpInv => StaleReadIsFollowedUp
  <2> SUFFICES ASSUME TypeOK, RunHasSpec, CaughtUpInv, pc \in AfterReads, ~Pending
               PROVE  store["cluster"] # None /\ run = Wanted(run.order)
    BY DEF StaleReadIsFollowedUp
  <2>1. ReadsCurrent
    BY DEF CaughtUpInv, CaughtUp
  <2> QED BY <2>1, RunIsWanted DEF ReadsCurrent, AfterReads
<1> QED BY <1>1, <1>2, <1>3, TypeCorrect, PTL DEF Spec

(* As long as no call has failed, an operator at rest has reported the     *)
(* invalid spec it rests on.                                               *)
THEOREM InvalidSpecsAreReported == Spec => []InvalidSpecReported
<1>1. Init => CaughtUpInv
  BY CaughtUpInit
<1>2. TypeOK /\ RunHasSpec /\ CaughtUpInv /\ [Next]_vars => CaughtUpInv'
  BY CaughtUpStep
<1>3. CaughtUpInv => InvalidSpecReported
  BY DEF CaughtUpInv, CaughtUp, MayRest, InvalidSpecReported
<1> QED BY <1>1, <1>2, <1>3, TypeCorrect, PTL DEF Spec

-----------------------------------------------------------------------------
(* Published configuration refers to Secrets that exist or existed.        *)

SecretsInv == SecretsRemembered /\ PublishedSecretsExist

LEMMA SecretsInit == Init => SecretsInv
BY DEF Init, SecretsInv, SecretsRemembered, PublishedSecretsExist, Resolved,
       Children, Kinds, Watched

(* A step that leaves the Secrets, the children and the memory of Secrets  *)
(* alone, and does not resolve anew, keeps the invariant.                  *)
LEMMA SecretsKept ==
  ASSUME SecretsInv, UNCHANGED <<store, everSecrets>>,
         cache'["secrets"] \in {cache["secrets"], store["secrets"]},
         pc' \in Resolved => pc \in Resolved /\ UNCHANGED run
  PROVE  SecretsInv'
BY DEF SecretsInv, SecretsRemembered, PublishedSecretsExist

LEMMA SecretsStep ==
  ASSUME TypeOK, SecretsInv, [Next]_vars
  PROVE  SecretsInv'
<1> USE DEF serverVars, controlVars, budgets, Goto, Retry, ReturnNil, Resolved
<1>1. CASE UNCHANGED vars
  BY <1>1, SecretsKept DEF vars
<1>2. CASE Fetch
  BY <1>2, SecretsKept DEF Fetch
<1>3. CASE GetCluster \/ ListClients \/ ListPolicies
  BY <1>3, SecretsKept DEF GetCluster, ListClients, ListPolicies
<1>4. CASE Resolve
  <2>1. CASE pc' = "rbac"
    BY <1>4, <2>1 DEF Resolve, SecretsFound, SecretsInv, SecretsRemembered,
                      PublishedSecretsExist
  <2> QED BY <1>4, <2>1, SecretsKept DEF Resolve
<1>5. CASE ReportMissingSecret \/ ReportInvalidSpec
  BY <1>5, SecretsKept DEF ReportMissingSecret, ReportInvalidSpec
<1>6. ASSUME NEW from \in {"rbac", "others"}, NEW to, ReconcileOthers(from, to)
      PROVE  SecretsInv'
  BY <1>6, SecretsKept DEF ReconcileOthers
<1>7. ASSUME NEW kind \in Children, NEW to, ReconcileChild(kind, to)
      PROVE  SecretsInv'
  <2>1. pc \in Resolved
    BY <1>7 DEF ReconcileChild, Children
  <2>2. UNCHANGED <<cache, everSecrets>> /\ (pc' = "idle" \/ UNCHANGED run)
    BY <1>7 DEF ReconcileChild
  <2>3. CASE UNCHANGED store
    BY <2>1, <2>2, <2>3, SecretsKept
  <2>4. CASE Put(kind, ChildOf(kind, run))
    <3>1. ChildOf(kind, run).refs = SecretRefs(run.spec, run.clients)
      BY DEF ChildOf, ConfigMapOf, DeploymentOf
    <3>2. store'["secrets"] = store["secrets"] /\ store'[kind] = ChildOf(kind, run)
          /\ \A k \in Children \ {kind} : store'[k] = store[k]
      BY <2>4 DEF Put, TypeOK, IsStore, Kinds, Watched, Children
    <3> QED BY <2>1, <2>2, <3>1, <3>2
            DEF SecretsInv, SecretsRemembered, PublishedSecretsExist
  <2> QED BY <1>7, <2>3, <2>4 DEF ReconcileChild, Apply
<1>8. CASE UpdateFields
  BY <1>8, SecretsKept DEF UpdateFields
<1>9. CASE Flush
  BY <1>9, SecretsKept DEF Flush
<1>10. ASSUME NEW kind \in Kinds, Deliver(kind) PROVE SecretsInv'
  BY <1>10, SecretsKept DEF Deliver, TypeOK, IsStore
<1>11. CASE TimerFires
  BY <1>11, SecretsKept DEF TimerFires
<1>12. CASE Restart
  BY <1>12, SecretsKept DEF Restart
<1>13. CASE Environment
  <2>1. UNCHANGED <<cache, pc, run>>
    BY <1>13, EnvironmentWrites
  <2>2. ASSUME NEW secrets \in SUBSET Secrets, EditSecrets(secrets)
        PROVE  SecretsInv'
    BY <2>1, <2>2 DEF EditSecrets, Put, TypeOK, IsStore, Kinds, Watched, Children,
       SecretsInv, SecretsRemembered, PublishedSecretsExist
  <2>3. ASSUME UNCHANGED everSecrets, NEW kind \in Watched, NEW value, Put(kind, value),
               kind \in Children => value = None \/ value = store[kind]
        PROVE  SecretsInv'
    <3>1. store'["secrets"] = store["secrets"]
      BY <2>3 DEF Put, TypeOK, IsStore, Kinds, Watched, Children
    <3>2. \A k \in Children : store'[k] \in {None, store[k]}
      BY <2>3 DEF Put, TypeOK, IsStore, Kinds, Watched, Children
    <3> QED BY <2>1, <2>3, <3>1, <3>2 DEF SecretsInv, SecretsRemembered, PublishedSecretsExist
  <2>4. CASE DeleteCluster \/ DeploymentProgresses
    BY <2>3, <2>4 DEF DeleteCluster, DeploymentProgresses, Watched, Children
  <2>5. ASSUME NEW spec \in ClusterSpecs, EditCluster(spec) \/ CreateCluster(spec)
        PROVE  SecretsInv'
    BY <2>3, <2>5 DEF EditCluster, CreateCluster, Watched, Children
  <2>6. ASSUME NEW kind \in {"clients", "policies"}, NEW o, NEW spec, EditObject(kind, o, spec)
        PROVE  SecretsInv'
    BY <2>3, <2>6 DEF EditObject, Watched, Children
  <2>7. ASSUME NEW kind \in Children, DeleteChild(kind) \/ CollectGarbage(kind)
        PROVE  SecretsInv'
    BY <2>3, <2>7 DEF DeleteChild, CollectGarbage, Watched, Children
  <2> QED BY <1>13, <2>2, <2>4, <2>5, <2>6, <2>7 DEF Environment
<1> QED BY <1>1, <1>2, <1>3, <1>4, <1>5, <1>6, <1>7, <1>8, <1>9, <1>10, <1>11, <1>12, <1>13
    DEF Next, Reconcile, Children

(* A ConfigMap or Deployment refers only to Secrets that have existed.     *)
THEOREM PublishedSecretsExisted == Spec => []PublishedSecretsExist
<1>1. Init => SecretsInv
  BY SecretsInit
<1>2. TypeOK /\ SecretsInv /\ [Next]_vars => SecretsInv'
  BY SecretsStep
<1>3. SecretsInv => PublishedSecretsExist
  BY DEF SecretsInv
<1> QED BY <1>1, <1>2, <1>3, TypeCorrect, PTL DEF Spec

=============================================================================
