------------------------ MODULE ClusterPublisherProofs ------------------------
(***************************************************************************)
(* The proof that the RadiusCluster controller implements Publisher.  What *)
(* the controller has read is told by where it stands and by run; that it  *)
(* rests only on what is settled is CaughtUp, the inductive invariant of   *)
(* ClusterReconcileProofs; that it publishes only what can be rendered is  *)
(* RendersRun.                                                             *)
(***************************************************************************)
EXTENDS ClusterPublisher, ClusterReconcileProofs

-----------------------------------------------------------------------------
(* The refinement mapping.                                                 *)

(* A run that has only fetched the cluster has read nothing yet.           *)
LEMMA DraftBlank ==
  ASSUME NEW r, NEW label \in {"idle", "get"}
  PROVE  DraftAt(label, r) = Abstract!Blank /\ StageAt(label) = "reading"
BY DEF DraftAt, HasRead, Abstract!Blank, StageAt, AfterReads, Labels, Parts

(* After the last read the draft is all the run has read.                  *)
LEMMA DraftAfter ==
  ASSUME NEW r, NEW label \in AfterReads
  PROVE  DraftAt(label, r) = [part \in Parts |-> ReadingOf(part, r)]
BY DEF DraftAt, HasRead, AfterReads, Labels, Parts

(* What is rendered from a complete draft is what the run renders.         *)
LEMMA DraftRun ==
  ASSUME NEW r, NEW draft, draft = [part \in Parts |-> ReadingOf(part, r)]
  PROVE  /\ ElementsOf(RunOf(draft)) = ElementsOf(r)
         /\ ConfigFor(draft) = ConfigMapOf(r)
         /\ WorkloadFor(draft) = DeploymentOf(r)
<1>1. /\ RunOf(draft).uid = r.uid /\ RunOf(draft).spec = r.spec
      /\ RunOf(draft).clients = r.clients /\ RunOf(draft).order = r.order
      /\ RunOf(draft).policies = r.policies
  BY DEF RunOf, ReadingOf, Parts
<1> QED BY <1>1 DEF ElementsOf, ConfigFor, WorkloadFor, ConfigMapOf, DeploymentOf, Files

(* The operator starts on a cluster it has never reconciled.               *)
LEMMA AbstractInit == Init => Abstract!Init
<1> SUFFICES ASSUME Init PROVE Abstract!Init
  OBVIOUS
<1>1. store["configMap"] = None /\ store["deployment"] = None
  BY DEF Init, Kinds, Watched, Children
<1>2. cache = store /\ pc = "idle" /\ queued
  BY DEF Init
<1> QED BY <1>1, <1>2, DraftBlank DEF Abstract!Init, Awake, Pending

(* What the controller rests on is settled for the abstract specification. *)
LEMMA SettledAtRest ==
  ASSUME store["cluster"] = None \/ Applied \/ Rejected
  PROVE  Abstract!Settled
<1> DEFINE drafts == Abstract!DraftsOf(Inputs(store))
<1>1. ASSUME NEW d \in drafts
      PROVE  \A part \in Parts : d[part] \in Readings(part, store[part])
  BY <1>1 DEF Abstract!DraftsOf, Inputs
<1>2. CASE store["cluster"] = None
  <2>1. Readings("cluster", store["cluster"]) = {}
    BY <1>2 DEF Readings
  <2>2. drafts = {}
    BY <1>1, <2>1 DEF Parts
  <2> QED BY <2>2 DEF Abstract!Settled
<1>3. CASE store["cluster"] # None /\ Rejected
  <2>1. ASSUME NEW d \in drafts PROVE Refused(d)
    <3>1. d["cluster"] = <<"cluster", store["cluster"].uid, store["cluster"].spec>>
      BY <1>1, <1>3, <2>1 DEF Readings, Parts
    <3>2. \E order : d["clients"] = <<"clients", store["clients"], order>>
      BY <1>1, <2>1 DEF Readings, Parts
    <3>3. d["policies"] = <<"policies", store["policies"]>>
      BY <1>1, <2>1 DEF Readings, Parts
    <3>4. ElementsOf(RunOf(d)) = ElementsOf(Wanted(<< >>))
      BY <3>1, <3>2, <3>3 DEF RunOf, ElementsOf, Wanted
    <3> QED BY <1>3, <3>4 DEF Refused, Rejected
  <2> QED BY <2>1 DEF Abstract!Settled
<1>4. CASE store["cluster"] # None /\ Applied
  <2>1. PICK order \in Orders : \A k \in Children : store[k] = ChildOf(k, Wanted(order))
    BY <1>4 DEF Applied
  <2> DEFINE d == [part \in Parts |-> ReadingOf(part, Wanted(order))]
  <2>2. \A part \in Parts : d[part] \in Readings(part, store[part])
    BY <1>4, <2>1 DEF ReadingOf, Readings, Wanted, Parts, Orders
  <2>3. d \in drafts
    BY <2>2 DEF Abstract!DraftsOf, Inputs
  <2>4. ConfigFor(d) = store["configMap"] /\ WorkloadFor(d) = store["deployment"]
    BY <2>1, DraftRun DEF ChildOf, Children
  <2> QED BY <2>3, <2>4 DEF Abstract!Settled
<1> QED BY <1>2, <1>3, <1>4

(* A run that ends, with the objects on the server as they were: another   *)
(* follows, or the controller rests on what it may rest on.                *)
LEMMA RunEnds ==
  ASSUME Awake, pc' = "idle", UNCHANGED <<store, cache>>, CaughtUpInv'
  PROVE  Abstract!Again \/ Abstract!Rest
<1>1. DraftAt(pc, run)' = Abstract!Blank /\ StageAt(pc)' = "reading"
  BY DraftBlank
<1>2. CASE Pending'
  BY <1>1, <1>2 DEF Abstract!Again, Abstract!EndRun, Abstract!inputs, Abstract!outputs, Awake
<1>3. CASE ~Pending'
  <2>1. (store["cluster"] = None \/ Applied \/ Rejected)'
    BY <1>3 DEF CaughtUpInv, CaughtUp, MayRest
  <2>2. store["cluster"] = None \/ Applied \/ Rejected
    BY <2>1, SameObjects
  <2>3. ~Awake'
    BY <1>3 DEF Awake
  <2> QED BY <1>1, <2>2, <2>3, SettledAtRest
          DEF Abstract!Rest, Abstract!EndRun, Abstract!inputs, Abstract!outputs
<1> QED BY <1>2, <1>3


-----------------------------------------------------------------------------
(* The steps.                                                              *)

(* The labels after the reads are reached with what has been rendered.     *)
RendersRun == pc \in Resolved => Renders(ElementsOf(run))

LEMMA RendersStep ==
  ASSUME RendersRun, [Next]_vars
  PROVE  RendersRun'
<1> USE DEF RendersRun, Resolved, Goto, Retry, ReturnNil, Renders, ElementsOf
<1>1. CASE UNCHANGED vars
  BY <1>1 DEF vars
<1>2. CASE Reconcile
  BY <1>2 DEF Reconcile, Fetch, GetCluster, ListClients, ListPolicies, Resolve,
     ReportMissingSecret, ReportInvalidSpec, ReconcileOthers, ReconcileChild,
     UpdateFields, Flush
<1>3. CASE TimerFires \/ Restart \/ \E kind \in Kinds : Deliver(kind)
  BY <1>3 DEF TimerFires, Restart, Deliver, controlVars
<1>4. CASE Environment
  BY <1>4 DEF Environment, EditCluster, CreateCluster, DeleteCluster, EditObject,
     EditSecrets, DeleteChild, CollectGarbage, DeploymentProgresses, EnvironmentLeaves
<1> QED BY <1>1, <1>2, <1>3, <1>4 DEF Next

(* A step of a run that neither reads nor writes and does not end.         *)
LEMMA GoesOn ==
  ASSUME pc # "idle", UNCHANGED <<store, cache>>,
         \/ {pc, pc'} \subseteq {"idle", "get"}
         \/ {pc, pc'} \subseteq AfterReads /\ run' = run /\ StageAt(pc') = StageAt(pc),
         pc' # "idle"
  PROVE  UNCHANGED Abstract!vars
BY DraftBlank, DraftAfter
   DEF Abstract!vars, Awake

(* Getting the cluster and listing read a part each, or the run ends.      *)
LEMMA ReadsImplement ==
  ASSUME TypeOK, CaughtUpInv', GetCluster \/ ListClients \/ ListPolicies
  PROVE  [Abstract!Next]_Abstract!vars
<1> USE DEF Goto, serverVars
<1>1. Awake /\ UNCHANGED <<store, cache>>
  BY DEF GetCluster, ListClients, ListPolicies, Awake
<1>2. CASE Retry
  BY <1>1, <1>2, RunEnds DEF Retry, Abstract!Next, Abstract!Run
<1>3. ASSUME NEW part \in Parts, NEW r,
             r \in Readings(part, cache[part]),
             DraftAt(pc, run)[part] = None,
             DraftAt(pc', run') = [DraftAt(pc, run) EXCEPT ![part] = r],
             StageAt(pc) = "reading", StageAt(pc') = "reading", pc' # "idle"
      PROVE  [Abstract!Next]_Abstract!vars
  <2>1. Abstract!Read(part)
    BY <1>1, <1>3 DEF Abstract!Read, Abstract!inputs, Abstract!outputs, Inputs, Awake
  <2> QED BY <2>1 DEF Abstract!Next, Abstract!Run
<1>4. CASE GetCluster /\ ~Retry
  <2>1. /\ pc = "get" /\ pc' = "clients" /\ cache["cluster"] # None
        /\ run'.uid = cache["cluster"].uid /\ run'.spec = cache["cluster"].spec
    BY <1>4 DEF GetCluster, NoRun
  <2> DEFINE r == <<"cluster", cache["cluster"].uid, cache["cluster"].spec>>
  <2>2. r \in Readings("cluster", cache["cluster"])
    BY <2>1 DEF Readings
  <2>3. DraftAt(pc, run)["cluster"] = None
    BY <2>1 DEF DraftAt, HasRead, Parts
  <2>4. DraftAt(pc', run') = [DraftAt(pc, run) EXCEPT !["cluster"] = r]
    BY <2>1 DEF DraftAt, HasRead, ReadingOf, Parts, AfterReads, Labels
  <2> QED BY <1>3, <2>1, <2>2, <2>3, <2>4 DEF StageAt, Parts
<1>5. CASE ListClients
  <2>1. PICK order \in Listings(Present(cache["clients"])) :
          run' = [run EXCEPT !.clients = cache["clients"], !.order = order]
    BY <1>5 DEF ListClients
  <2>2. /\ pc = "clients" /\ pc' = "policies"
        /\ run'.uid = run.uid /\ run'.spec = run.spec
        /\ run'.clients = cache["clients"] /\ run'.order = order
    BY <1>5, <2>1 DEF ListClients, TypeOK, Runs
  <2> DEFINE r == <<"clients", cache["clients"], order>>
  <2>3. r \in Readings("clients", cache["clients"])
    BY <2>1 DEF Readings
  <2>4. DraftAt(pc, run)["clients"] = None
    BY <2>2 DEF DraftAt, HasRead, Parts
  <2>5. DraftAt(pc', run') = [DraftAt(pc, run) EXCEPT !["clients"] = r]
    BY <2>2 DEF DraftAt, HasRead, ReadingOf, Parts, AfterReads, Labels
  <2> QED BY <1>3, <2>2, <2>3, <2>4, <2>5 DEF StageAt, Parts
<1>6. CASE ListPolicies
  <2>1. /\ pc = "policies" /\ pc' = "secrets"
        /\ run'.uid = run.uid /\ run'.spec = run.spec /\ run'.clients = run.clients
        /\ run'.order = run.order /\ run'.policies = cache["policies"]
    BY <1>6 DEF ListPolicies, TypeOK, Runs
  <2> DEFINE r == <<"policies", cache["policies"]>>
  <2>2. r \in Readings("policies", cache["policies"])
    BY DEF Readings
  <2>3. DraftAt(pc, run)["policies"] = None
    BY <2>1 DEF DraftAt, HasRead, Parts, AfterReads, Labels
  <2>4. DraftAt(pc', run') = [DraftAt(pc, run) EXCEPT !["policies"] = r]
    BY <2>1 DEF DraftAt, HasRead, ReadingOf, Parts, AfterReads, Labels
  <2> QED BY <1>3, <2>1, <2>2, <2>3, <2>4 DEF StageAt, Parts
<1> QED BY <1>2, <1>4, <1>5, <1>6 DEF ListClients, ListPolicies


(* The steps of a run that leave the objects on the server alone: they go  *)
(* on, or the run ends.                                                    *)
LEMMA OthersImplement ==
  ASSUME TypeOK, CaughtUpInv, CaughtUpInv',
         \/ Fetch \/ Resolve \/ ReportMissingSecret \/ ReportInvalidSpec
         \/ ReconcileOthers("rbac", "configMap") \/ ReconcileOthers("others", "fields")
         \/ UpdateFields \/ Flush
  PROVE  [Abstract!Next]_Abstract!vars
<1> USE DEF Goto, ReturnNil, Retry, serverVars
<1>1. UNCHANGED <<store, cache>> /\ Awake
  BY DEF Fetch, Resolve, ReportMissingSecret, ReportInvalidSpec, ReconcileOthers,
         UpdateFields, Flush, Awake, Pending
<1>2. CASE pc' = "idle"
  BY <1>1, <1>2, RunEnds DEF Abstract!Next, Abstract!Run
<1>3. CASE pc' # "idle"
  <2>1. CASE Fetch
    <3>1. pc = "idle" /\ pc' = "get"
      BY <1>3, <2>1 DEF Fetch
    <3>2. DraftAt(pc, run) = DraftAt(pc, run)' /\ StageAt(pc) = StageAt(pc')
      BY <3>1, DraftBlank
    <3> QED BY <1>1, <3>1, <3>2 DEF Abstract!vars, Awake
  <2>2. CASE ~Fetch
    <3>1. pc # "idle" /\ {pc, pc'} \subseteq AfterReads /\ run' = run
      BY <1>3, <2>2 DEF Resolve, ReportMissingSecret, ReportInvalidSpec,
         ReconcileOthers, UpdateFields, Flush, AfterReads, Labels
    <3>2. StageAt(pc') = StageAt(pc)
      BY <1>3, <2>2 DEF Resolve, ReportMissingSecret, ReportInvalidSpec,
         ReconcileOthers, UpdateFields, Flush, StageAt
    <3> QED BY <1>1, <1>3, <3>1, <3>2, GoesOn
  <2> QED BY <2>1, <2>2
<1> QED BY <1>2, <1>3

(* A complete draft is the run it was read by.                             *)
LEMMA CompleteDraft ==
  ASSUME TypeOK, RunHasSpec, RendersRun, pc \in {"configMap", "deployment"}
  PROVE  /\ DraftAt(pc, run) = [part \in Parts |-> ReadingOf(part, run)]
         /\ Abstract!Complete /\ Accepted(DraftAt(pc, run))
         /\ ConfigFor(DraftAt(pc, run)) = ConfigMapOf(run)
         /\ WorkloadFor(DraftAt(pc, run)) = DeploymentOf(run)
<1>1. DraftAt(pc, run) = [part \in Parts |-> ReadingOf(part, run)]
  BY DraftAfter DEF AfterReads, Labels
<1>2. run.uid \in Nat /\ run.spec \in ClusterSpecs /\ run.clients \in ClientMaps
      /\ run.order \in Seq(Clients) /\ run.policies \in PolicyMaps
  BY DEF TypeOK, RunHasSpec, Runs
<1>3. \A part \in Parts : ReadingOf(part, run) \in PossibleReadings
  BY <1>2 DEF ReadingOf, PossibleReadings, Parts
<1>4. Abstract!Complete
  BY <1>1, <1>3, NoneIsNoReading DEF Abstract!Complete
<1>5. Renders(ElementsOf(run))
  BY DEF RendersRun, Resolved
<1> QED BY <1>1, <1>4, <1>5, DraftRun DEF Accepted

(* Writing a child publishes the configuration or the workload.            *)
LEMMA WritesImplement ==
  ASSUME TypeOK, RunHasSpec, RendersRun, CaughtUpInv',
         NEW kind \in Children, NEW to,
         <<kind, to>> \in {<<"configMap", "deployment">>, <<"deployment", "others">>},
         ReconcileChild(kind, to)
  PROVE  [Abstract!Next]_Abstract!vars
<1>1. pc = kind /\ Awake /\ UNCHANGED cache
  BY DEF ReconcileChild, Awake, Children
<1>2. \/ pc' = to /\ run' = run
      \/ Retry
  BY DEF ReconcileChild, Goto
<1>3. /\ \/ Retry /\ UNCHANGED store
         \/ UNCHANGED store /\ (Skipped(kind) \/ store[kind] = ChildOf(kind, run))
         \/ store'[kind] = ChildOf(kind, run)
      /\ \A k \in Kinds \ {kind} : store'[k] = store[k]
  <2>1. \/ Retry /\ UNCHANGED store
        \/ UNCHANGED store /\ Skipped(kind)
        \/ Apply(kind)
    BY DEF ReconcileChild
  <2> QED BY <2>1 DEF Apply, Put, TypeOK, IsStore, Kinds, Watched, Children
<1>4. CASE Retry /\ UNCHANGED store
  BY <1>1, <1>4, RunEnds DEF Retry, Goto, Abstract!Next, Abstract!Run
<1>5. Retry => Abstract!EndRun
  BY DraftBlank DEF Retry, Goto, Abstract!EndRun
<1>6. Awake'
  BY <1>2 DEF Retry, Awake, Pending
<1>7. CASE kind = "configMap" /\ ~(Retry /\ UNCHANGED store)
  <2>1. \/ store'["configMap"] = ConfigMapOf(run)
        \/ /\ cache["configMap"] # None /\ cache["configMap"] = ConfigMapOf(run)
           /\ UNCHANGED store
    <3>1. run \in Runs /\ run.spec \in ClusterSpecs
      BY <1>1, <1>7 DEF TypeOK, RunHasSpec
    <3>2. ConfigMapOf(run) \in PossibleConfigs
      BY <3>1, RunConfigType DEF PossibleConfigs
    <3> QED BY <1>3, <1>7, <3>2, NoneIsNoReading DEF Skipped, ChildOf
  <2>2. Inputs(store)' = Inputs(store) /\ store'["deployment"] = store["deployment"]
    BY <1>3, <1>7 DEF Inputs, Parts, Kinds, Watched, Children
  <2>3. pc' = "deployment" /\ run' = run => StageAt(pc') = "configured" /\ DraftAt(pc, run)' = DraftAt(pc, run)
    BY <1>1, <1>7, DraftAfter DEF StageAt, AfterReads, Labels
  <2>4. StageAt(pc) = "reading"
    BY <1>1, <1>7 DEF StageAt
  <2>5. Abstract!PublishConfig
    BY <1>1, <1>2, <1>5, <1>6, <1>7, <2>1, <2>2, <2>3, <2>4, CompleteDraft
    DEF Abstract!PublishConfig, Abstract!inputs
  <2> QED BY <2>5 DEF Abstract!Next, Abstract!Run
<1>8. CASE kind = "deployment" /\ ~(Retry /\ UNCHANGED store)
  <2>1. store'["deployment"] = DeploymentOf(run)
    BY <1>3, <1>8 DEF Skipped, ChildOf
  <2>2. Inputs(store)' = Inputs(store) /\ store'["configMap"] = store["configMap"]
    BY <1>3, <1>8 DEF Inputs, Parts, Kinds, Watched, Children
  <2>3. pc' = "others" /\ run' = run => StageAt(pc') = "published" /\ DraftAt(pc, run)' = DraftAt(pc, run)
    BY <1>1, <1>8, DraftAfter DEF StageAt, AfterReads, Labels
  <2>4. StageAt(pc) = "configured"
    BY <1>1, <1>8 DEF StageAt
  <2>5. Abstract!PublishWorkload
    BY <1>1, <1>2, <1>5, <1>6, <1>8, <2>1, <2>2, <2>3, <2>4, CompleteDraft
    DEF Abstract!PublishWorkload, Abstract!inputs
  <2> QED BY <2>5 DEF Abstract!Next, Abstract!Run
<1> QED BY <1>4, <1>7, <1>8 DEF Children


(* An event brings a part or the ConfigMap to the cache; a new process     *)
(* starts a run from nothing.                                              *)
LEMMA ManagerImplements ==
  ASSUME TypeOK, CaughtUpInv, CaughtUpInv',
         TimerFires \/ Restart \/ \E kind \in Kinds : Deliver(kind)
  PROVE  [Abstract!Next]_Abstract!vars
<1> USE DEF serverVars, controlVars
<1>1. CASE TimerFires
  BY <1>1 DEF TimerFires, Abstract!vars, Awake, Pending
<1>2. CASE Restart
  <2>1. /\ pc' = "idle" /\ cache' = store /\ UNCHANGED store
        /\ DraftAt(pc, run)' = Abstract!Blank /\ StageAt(pc)' = "reading"
    BY <1>2, DraftBlank DEF Restart, Goto
  <2>2. Awake' \/ Abstract!Settled
    <3>1. ~Awake' => (store["cluster"] = None \/ Applied \/ Rejected)'
      BY <2>1 DEF Awake, CaughtUpInv, CaughtUp, MayRest
    <3> QED BY <2>1, <3>1, SameObjects, SettledAtRest
  <2>3. Awake' \in BOOLEAN
    BY DEF Awake, Pending, TypeOK
  <2>4. Abstract!Restart
    BY <2>1, <2>2, <2>3 DEF Abstract!Restart, Abstract!EndRun
  <2> QED BY <2>4 DEF Abstract!Next
<1>3. ASSUME NEW kind \in Kinds, Deliver(kind)
      PROVE  [Abstract!Next]_Abstract!vars
  <2>1. /\ UNCHANGED <<store, pc, run>>
        /\ cache'[kind] = store[kind]
        /\ \A k \in Kinds \ {kind} : cache'[k] = cache[k]
    BY <1>3 DEF Deliver, TypeOK, IsStore
  <2>2. Awake' = Awake
    <3>1. CASE kind \in Watched
      BY <1>3, <3>1 DEF Deliver, Awake, Pending
    <3>2. CASE kind \notin Watched
      BY <1>3, <3>2 DEF Deliver, Awake, Pending
    <3> QED BY <3>1, <3>2
  <2>3. CASE kind \in Parts
    <3>1. /\ Inputs(cache)' = [Inputs(cache) EXCEPT ![kind] = Inputs(store)[kind]]
          /\ cache'["configMap"] = cache["configMap"]
      BY <2>1, <2>3 DEF Inputs, Parts, Kinds, Watched, Children
    <3>2. Abstract!Learn(kind)
      BY <2>1, <2>2, <3>1 DEF Abstract!Learn, Abstract!outputs
    <3> QED BY <2>3, <3>2 DEF Abstract!Next
  <2>4. CASE kind \notin Parts
    <3>1. Inputs(cache)' = Inputs(cache)
      BY <2>1, <2>4 DEF Inputs, Parts, Kinds, Watched
    <3>2. CASE kind = "configMap"
      BY <2>1, <2>2, <3>1, <3>2 DEF Abstract!Next, Abstract!LearnConfig, Abstract!inputs
    <3>3. CASE kind # "configMap"
      <4>1. cache'["configMap"] = cache["configMap"]
        BY <2>1, <3>3 DEF Kinds, Watched, Children
      <4> QED BY <2>1, <2>2, <3>1, <4>1 DEF Abstract!vars
    <3> QED BY <3>2, <3>3
  <2> QED BY <2>3, <2>4
<1> QED BY <1>1, <1>2, <1>3

(* An edit changes a part, a deletion loses an output; edits of Secrets    *)
(* are not seen.                                                           *)
LEMMA EnvironmentImplements ==
  ASSUME TypeOK, Environment
  PROVE  [Abstract!Next]_Abstract!vars
<1>1. UNCHANGED <<cache, queued, timer, pc, run>>
  BY EnvironmentWrites
<1>2. ASSUME NEW kind \in Kinds, NEW value, Put(kind, value)
      PROVE  store'[kind] = value /\ \A k \in Kinds \ {kind} : store'[k] = store[k]
  BY <1>2 DEF Put, TypeOK, IsStore
<1>3. ASSUME NEW part \in Parts, NEW value, Put(part, value)
      PROVE  Abstract!Change(part)
  <2>1. /\ Inputs(store)' = [Inputs(store) EXCEPT ![part] = Inputs(store)'[part]]
        /\ store'["configMap"] = store["configMap"]
        /\ store'["deployment"] = store["deployment"]
    BY <1>2, <1>3 DEF Inputs, Parts, Kinds, Watched, Children
  <2>2. Awake'
    BY <1>3, WatchedWritePends DEF Awake, Parts, Watched
  <2> QED BY <1>1, <2>1, <2>2 DEF Abstract!Change, Abstract!outputs
<1>4. ASSUME NEW kind \in Children, NEW value, Put(kind, value)
      PROVE  Inputs(store)' = Inputs(store) /\ Awake'
  <2>1. Inputs(store)' = Inputs(store)
    BY <1>2, <1>4 DEF Inputs, Parts, Kinds, Watched, Children
  <2> QED BY <1>4, <2>1, WatchedWritePends DEF Awake, Watched
<1>5. ASSUME NEW kind \in Children, DeleteChild(kind) \/ CollectGarbage(kind)
      PROVE  Abstract!Lose
  <2>1. Put(kind, None)
    BY <1>5 DEF DeleteChild, CollectGarbage
  <2> QED BY <1>1, <1>2, <1>4, <2>1
          DEF Abstract!Lose, Abstract!inputs, Kinds, Watched, Children
<1>6. CASE DeploymentProgresses
  <2>1. Put("deployment", store["deployment"])
    BY <1>6 DEF DeploymentProgresses
  <2>2. UNCHANGED <<store["configMap"], store["deployment"]>>
    BY <1>2, <2>1 DEF Kinds, Watched, Children
  <2>3. Abstract!Wake
    BY <1>1, <1>4, <2>1, <2>2
    DEF Abstract!Wake, Abstract!inputs, Abstract!outputs, Children
  <2> QED BY <2>3 DEF Abstract!Next
<1>7. ASSUME NEW secrets \in SUBSET Secrets, EditSecrets(secrets)
      PROVE  UNCHANGED Abstract!vars
  <2>1. Put("secrets", secrets)
    BY <1>7 DEF EditSecrets
  <2>2. \A k \in Watched : store'[k] = store[k]
    BY <1>2, <2>1 DEF Kinds, Watched, Children
  <2>3. behind' \cap Watched = behind \cap Watched
    BY <2>1 DEF Put, Watched, Children
  <2>4. Awake' = Awake
    BY <1>1, <2>3 DEF Awake, Pending
  <2> QED BY <1>1, <2>2, <2>4 DEF Abstract!vars, Inputs, Parts, Watched, Children
<1>8. ASSUME \/ DeleteCluster
             \/ \E spec \in ClusterSpecs : EditCluster(spec) \/ CreateCluster(spec)
             \/ \E c \in Clients, spec \in ClientSpecs \cup {None} : EditObject("clients", c, spec)
             \/ \E p \in Policies, spec \in PolicySpecs \cup {None} : EditObject("policies", p, spec)
      PROVE  \E part \in Parts : Abstract!Change(part)
  <2>1. \E part \in Parts : \E value : Put(part, value)
    BY <1>8 DEF DeleteCluster, EditCluster, CreateCluster, EditObject, Parts
  <2> QED BY <1>3, <2>1
<1> QED BY <1>5, <1>6, <1>7, <1>8 DEF Environment, Abstract!Next

(* Every behaviour of the controller is one of Publisher, for all sets of  *)
(* objects and specs and all budgets of edits and faults.                  *)
THEOREM ControllerImplementsPublisher == Spec => ImplementsPublisher
<1>1. Init => Abstract!Init
  BY AbstractInit
<1>2. Init => TypeOK /\ RunHasSpec /\ CaughtUpInv /\ RendersRun
  BY InitType, CaughtUpInit DEF Init, RunHasSpec, RendersRun, Resolved
<1>3. TypeOK /\ RunHasSpec /\ CaughtUpInv /\ RendersRun /\ [Next]_vars
        => CaughtUpInv' /\ RendersRun'
  BY CaughtUpStep, RendersStep
<1>4. TypeOK /\ RunHasSpec /\ CaughtUpInv /\ CaughtUpInv' /\ RendersRun /\ [Next]_vars
        => [Abstract!Next]_Abstract!vars
  <2> SUFFICES ASSUME TypeOK, RunHasSpec, CaughtUpInv, CaughtUpInv', RendersRun, [Next]_vars
               PROVE  [Abstract!Next]_Abstract!vars
    OBVIOUS
  <2>1. CASE UNCHANGED vars
    BY <2>1 DEF vars, Abstract!vars, Awake, Pending
  <2>2. CASE Reconcile
    BY <2>2, ReadsImplement, OthersImplement, WritesImplement DEF Reconcile, Children
  <2> QED BY <2>1, <2>2, ManagerImplements, EnvironmentImplements DEF Next
<1> QED BY <1>1, <1>2, <1>3, <1>4, TypeCorrect, PTL DEF Spec, ImplementsPublisher, Abstract!Spec


=============================================================================
