# A TLA+ model of the FreeRADIUS Kubernetes operator

The operator turns three custom resources into FreeRADIUS pods: a
`RadiusCluster` (image, modules, topology), the `RadiusClient`s allowed to talk
to it and the `RadiusPolicy`s it applies. Its code is sequential; what makes it
hard is where it runs: it reads from caches that lag behind the API server, its
writes are refused when its copy is old, it is woken by events it partly causes
itself, it shares objects with other controllers, and it may be restarted
between any two calls. This directory models that, checks it with TLC and
proves the central results with TLAPS.

## Inventory

| Component | State it keeps | Operations | Correct if |
|:--|:--|:--|:--|
| RadiusCluster controller (`internal/controller/radiuscluster_controller.go`) | none of its own; the cluster's status, a ConfigMap, Deployments, Services, HPAs, a PDB, RBAC objects | `Reconcile`: read, check Secrets, render, write the children, report | what is written corresponds to the objects when nothing is left to do; no edit is forgotten; status tells the truth |
| its endpoints (`buildEndpoints` ... `cleanupStaleResources`, `reconcileHPAs`) | Deployments, Services, HPAs by name | create, update, delete per endpoint | a change of topology completes, leaves nothing, interrupts nobody (it does); the HPA controls what it should (it does not always) |
| RadiusClient, RadiusPolicy controllers | conditions Ready and Invalid | judge, publish two conditions | the conditions agree with each other and with the object |
| Status reporter (`internal/status`) | none | read-modify-write of one status | an update from an old copy is refused, not merged |
| Work queue, informers (controller-runtime, used in `SetupWithManager`) | queue, delayed list, caches | deliver, requeue, retry | every relevant change wakes the controller |
| Renderer (`internal/renderer`) | none, a function | `Render`, validation, ordering of policies | the same objects give the same files; which error is reported does not depend on how objects are listed |
| Pods: init containers, `render-clients` (`cmd/operator/render_clients.go`) | files of a pod | unflatten the ConfigMap, list clients, insert Secrets | a pod ends up with the files, clients and passwords of the current objects |
| metrics, process wiring, API types | counters, flags, types | - | - |

Interactions. Users write the three resources and Secrets. The informers bring
them, and the children (which the controller owns), to the cluster controller's
queue; clients and policies are mapped to the cluster they refer to; Secrets
are read through a cache but wake nobody. The HPA controller writes the replica
count of the operator's Deployments; the Deployment controller writes their
status; the garbage collector deletes children whose owner, by uid, is gone.
The client and policy controllers look the cluster up in the cache and are
woken by their own kind only.

Hard behaviours: reads before writes, with edits in between; stale caches and
conflicts; dropped errors of status updates; requeue timers as the only
wake-up; deletion and re-creation under one name; failures and restarts between
two writes; pods that read files, clients and Secrets at three moments of their
own; two writers of one field; two conditions written one at a time.
`PROJECT.json` lists them line by line under `hazards`, with the properties
that cover each.

## Modules

| Module | Models |
|:--|:--|
| `ClusterReconcile` | the cluster controller for one cluster, unified topology, with its caches, queue, timer, status and the two children that carry configuration |
| `ClusterReconcileProofs` | proofs about it |
| `ObjectConditions` | the client and the policy controller for one object |
| `ObjectConditionsProofs` | proofs about it |
| `Endpoints` | Deployments, Services, HPAs and the PDB of both topologies, and the HPA controller |
| `EndpointsProofs` | proofs about it |
| `EndpointPods` | which of the endpoints have pods that are ready, on top of `Endpoints` |
| `EndpointPodsProofs` | proofs about it |
| `Publisher` | abstract: what a controller with two dependent outputs promises |
| `ClusterPublisher` | the refinement mapping from `ClusterReconcile` to `Publisher` |
| `ClusterPublisherProofs` | the proof that it is one |
| `Rendering` | functions only: validation, rendering, hash, list of Secrets, and what init containers make of the files |
| `RenderingProofs` | lemmas about these functions |
| `Pods` | `Publisher` with `Rendering` for its data, and pods on top of it |
| `PodsProofs` | proofs about it |
| `MC...` | constants and symmetry for TLC |

How they compose: `ClusterPublisher` shows that the controller with all its
caches, conflicts and crashes is a `Publisher`. `Pods` then puts the pods on
`Publisher` rather than on the controller itself, so that what pods can run
with is explored without the interleavings that the refinement has already
shown to be invisible. `ObjectConditions` and `Endpoints` share nothing with
the rest but the API server and are checked on their own.

Operators whose comment says *mutant* are wrong variants of the definition that
follows them. They are used nowhere in the specification; each property is run
against one of them to see that it can fail.

### ClusterReconcile

`store` is what the API server has, by kind; `cache` is what the informers
have; `behind` are the kinds with events on their way. A write puts its kind
into `behind`; `Deliver(kind)` brings the cache up to date and, for the kinds of
`SetupWithManager`, sets `queued`. `timer` stands for both `RequeueAfter` and
the rate-limited retry after an error. `pc` is the place in `Reconcile`, `run`
what it has read, `current` whether its in-memory cluster still has the
server's resourceVersion.

| Action | Code |
|:--|:--|
| `Fetch` | first `Get`, `SetProgressing(true)` |
| `GetCluster`, `ListClients`, `ListPolicies` | the reads after it |
| `Resolve` | loop over Secrets, `Render`, `isInvalidError` |
| `ReportMissingSecret`, `ReportInvalidSpec` | the two `SetDegraded` exits |
| `ReconcileOthers` | RBAC before, Services, HPAs, PDB after |
| `ReconcileChild` | `CreateOrUpdate` of the ConfigMap, of the Deployment |
| `UpdateFields`, `Flush` | `UpdateClusterStatus`, final conditions |
| `Deliver`, `TimerFires`, `Restart` | manager and queue |
| `EditCluster` ... `CollectGarbage` | users, Deployment controller, garbage collector |

Abstractions:

- A spec is a model value; constants say which Secrets it refers to, what of it
  is rendered, and whether `Render` rejects it, and with a bare `Invalid*Error`
  or a wrapped error. Config files are the inputs they are rendered from, in the
  order in which the clients were listed; the hash is a digest of them.
- An informer jumps to the newest state of its kind. Intermediate states would
  be reads that are older still, and are followed by another delivery.
- All Secrets of a run are looked up in one step.
- Messages, `readyReplicas` and `podRestarts` are left out; the status keeps
  Available, Progressing, the reason of Degraded, and the image. The `Get` and
  the status update of `UpdateFields` and of `Flush` are one step: if anything
  happens in between, the update is refused, which `PutStatus` allows when
  `behind` and which a failed call gives otherwise.
- An update that the server accepts but whose answer is lost is an outcome of
  `ReconcileChild`; for a status update it is the same as an accepted one,
  because the caller ignores the error.
- A ConfigMap equal to its cached copy is not written. A Deployment is always
  written, because the server fills in defaults the desired spec lacks; a write
  that changes nothing makes no event.

### ObjectConditions

One object, the clusters it may refer to, both in the server's and the cached
version, and two conditions. The controller judges the cached object and
publishes in two updates, `PublishFirst` and `PublishSecond`, the second with a
copy read again from the cache. Client controller: `RejectedSpecs = {}`; policy
controller: specs with an unknown stage or action type. A condition is its
reason; status and reason are written together and determine each other.

### Endpoints

`Plan(spec)` is the list of calls one run makes, in the order of the code: for
every endpoint its Deployment and Service, then the deletions of
`cleanupStaleResources`, then the HPAs, then the PDB. The roles are the three
that `buildEndpoints` names, in its order. `Step` executes the first of the list
or fails, which ends the run and requeues. `stale` holds the objects whose
cached copy is not the server's. `HPAScales` is the HPA controller. The rest of
the operator is `Wake`: a run for some other reason, at any time, or never (it
has no fairness), so nothing here depends on the operator waking itself.
An object carries the spec it was made from, a Deployment its replica count as
well; ports, annotations and the budget's numbers follow from the spec.
`Extras` are the kinds a spec may have or not, HPAs and the PDB: the code leaves
one that is equal to its cached copy alone, and takes the deletion of one that
is gone already for an error, both unlike Deployments and Services.

The split topology is that of the Go types, of `example/split-mode` and of the
documentation. The CRD in `config/crd/radius.operator.io_radiusclusters.yaml` has
no `spec.services`: an API server with that CRD drops the field, and the
operator only ever sees unified clusters until the CRD is generated anew.

### EndpointPods

Objects on the API server answer nobody. `ready` are the endpoints whose
Deployment has a ready pod, `leaving` those whose ready pods no Deployment wants
any more. `PodReady` and `CollectPods` are Kubernetes, in its own time; `Follow`
says what every step of `Endpoints` means for pods: a Deployment that is deleted
leaves its pods to the garbage collector, one that is changed keeps a ready pod,
which is what `maxUnavailable: 0` asks of the Deployment controller. Pods do not
fail by themselves.

### Publisher and ClusterPublisher

`Publisher` reads parts one at a time from caches (`Read`), publishes the
configuration they render to (`PublishConfig`), then the workload that is to
run with it (`PublishWorkload`), may end a run at any point and start another
(`Again`), and may stop only when what is published is what the objects ask
for, or they are rejected (`Rest`). It has no conflicts, no queue, no timer, no
status and no Secrets. `ClusterPublisher` maps the controller to it: the parts
are the cluster, its clients and its policies; the draft is what the run has
read, told by `pc` (`HasRead`, `DraftAt`); the stage is told by `pc` too; the
controller is awake while it runs or something is pending. A step that only
concerns Secrets, the status or the queue is a stutter; a conflict or a failed
call is `Again`; a write whose answer is lost is the publication that ends its
run.

### Rendering

| Operator | Code |
|:--|:--|
| `ValidClient`, `ValidModule`, `ValidPolicy`, `CheckedFields` | `sanitize.go` |
| `ModuleVerdict`, `SiteVerdict`, `Verdicts`, `Verdict` | the errors of `Render`, in the order it meets them, and `isInvalidError` |
| `RadiusdConf`, `Effective` | `radiusd.go`, with its defaults for settings that are zero |
| `ClientsConf` | `clients.go` |
| `ModulePaths`, `ModuleFile`, `FilesOf` | `modules.go`: the later of two modules of one name has the file |
| `StageSites`, `ByPriority`, `Sites` | `sites.go`: sorted by priority, ties as listed |
| `CoreFile`, `Render` | `renderer.go` |
| `Key`, `ConfigMapData` | `/` written as `__` in a key, and read back by the shell script of config-init |
| `ConfigHash`, `collectSecretRefs`, `Template` | `computeConfigHash`, `collectSecretRefs`, the pod template |
| `ContextsOf` | `buildRenderContext`, for every order in which the lists may come |
| `WellFormed` | what the API types make sure of: a list of modules, passwords only in the sections that have a field for one, objects that go by their names |
| `LooksInto`, `Unresolved` | the files config-init runs `sed` on |
| `LiveClients`, `UnresolvedClients` | `renderClientsToFile`, `resolveFileRefs` |

A file is the values it is made of and the references to Secrets in it. A field
is right or wrong (`bad`), a value of a policy plain, a regular expression or
neither. Three verdicts tell apart what the controller does: `ok`, `typed` (one
of the three `Invalid*Error` types, reported and not tried again), `error`
(anything else, a wrapped `Invalid*Error` too, tried again). The first failure in
`Verdicts` decides. A set has `Listings`, the orders in which it may come: the
cache lists objects in any of them. Nothing here is recursive, so that all of it
can be proved about.

### Pods

The operator is `Publisher`; `Controller` and `CatchUp` are its steps, of which
only those that cut a run short count as mishaps. `Inputs` are the objects there
may be, `Edited` what one edit makes of them, and `history` lists the values
every part has had: properties and proofs speak of it, no action reads it. A pod remembers the template
it was made from and everything it has read: config-init reads the ConfigMap and
the mounted Secrets (`ConfigInit`), render-clients the RadiusClients and the
Secrets as they are mounted by then (`RenderClients`). `CreatePod` and
`RetirePod` are the Deployment controller with `maxSurge` 1 and
`maxUnavailable` 0, which `reconcileOneDeployment` sets. `Evict`, `EditObjects`
and `RotateSecret` happen at any time. The kubelet is assumed to mount the
ConfigMap as it is on the API server when the pod starts, as it does with its
default way of watching; a kubelet with a stale copy would add the same gap
between template and files that `PodsMatchInputs` excludes for an edit that is
taken back.

## Runs

| Run | Checks | Instance |
|:--|:--|:--|
| `ClusterSafety` | `TypeOK`, `NoLostWakeup`, `StaleReadIsFollowedUp`, `PublishedSecretsExist`, `InvalidSpecReported` | 2 clients (symmetric), a valid and an invalid cluster spec, 1 Secret, 2 edits, 1 fault |
| `ClusterLiveness` | `EventuallyApplied`, `MissingSecretReported`, `StatusRecovers`, `DeletedClusterLeavesNothing`, `ImplementsPublisher` | 1 client (valid, or with an IP the renderer rejects), 1 policy, 1 Secret, 1 edit, 1 fault |
| `Conditions` | `TypeOK`, `ConditionsAgreeAtRest`, `ReadyJudgesTheSpecItIsOn`, `ReadyOnceClusterExists` | 2 clusters, 3 specs of which one rejected, 3 edits, 1 fault |
| `Topology` | `TypeOK`, `TopologyAtRest`, `ReplicasAtRest`, `ReplacementCreatedFirst`, `TopologyConverges` | unified with a PDB; split with two roles; split with one, autoscaled, with a PDB by its replica count; 1 edit, 1 deletion, 1 fault |
| `Pods` | `TypeOK`, `VerdictByElement`, `SitesIgnoreListing`, `ModulesLoaded`, `PodsMatchInputs`, `PasswordsMounted`, `ClientsMounted`, `PodsConverge` | 1 replica; one family of objects with 2 edits, rotations, evictions or failures; 106 other combinations as they are |
| `ClusterRest` | `ComesToRest` is violated | no edit, no fault |
| `ClusterRollout` | `RolloutOnlyOnChange` is violated | 2 clients, no edit, no fault |
| `StaleHPA` | `HPAOnlyIfAutoscaled` is violated | split to unified, no fault |
| `ScaledReplicas` | `ReplicasLeftToHPA` is violated | one spec, no edit, no fault |
| `ServingThroughout` | `SomePodServes` is violated | unified to split or back, no fault |
| `Rotation` | `RotationReachesPods` is violated | one Secret changes once |
| `PodFiles` | `PodsAsRendered` is violated, in each of its three parts | SQL modules called backup and sql__eu, 2 clients, the Secret of one without its key, no edit |

Every initial state is a cluster the operator has not reconciled yet; the runs
of the cluster and of the two small controllers start with any combination of
the objects around it, the others with those their MC module lists.

What the passing runs show. An operator with nothing left to do has applied the
objects there are, or they are rejected, whatever was edited, deleted,
recreated, refused or lost before (`NoLostWakeup`). No edit between the reads
and the writes of a run is forgotten (`StaleReadIsFollowedUp`).
`PublishedSecretsExist` holds because the check and the writes use one list of
clients. `InvalidSpecReported`: an invalid spec is not retried, so its report
must not get lost, and it does not, because a conflict means that an event of
the cluster is on its way. `MissingSecretReported` and `StatusRecovers` hold
because the controller's own status updates wake it up again; the same thing
keeps it from ever coming to rest (`ComesToRest`). `ReadyOnceClusterExists`
rests on the 30-second requeue alone. `ReplacementCreatedFirst`: the order of
`reconcileDeploymentsAndServices` creates the objects that take a role over
before it deletes those it had, also when the run that creates them fails or
reads an old spec. It is a property of API calls, not of service: the pods of the
old Deployment may be gone before the new one has any (`SomePodServes`).
`LastingEndpointsKeepPods`, which is proved and has no run, is what is left of
service: an endpoint that every spec asks for is neither deleted nor scaled to nothing, because a plan deletes
only names of the other topology and the replica count is clamped to one, even
for a role whose `replicas` is 0. `ReplicasAtRest`: switching autoscaling off writes the replica count
before it deletes the HPA, which may scale in between; the event of that write
or of the deletion brings the count back.

`ImplementsPublisher` says in one property what an outsider may rely on: what
is published is one complete rendering of accepted objects, the ConfigMap
before the Deployment that was computed with it, and the controller stops only
when both are right.

The pods. A pod of the current template, once the operator rests, has the files
and the clients of the current objects (`PodsMatchInputs`), although it read
neither when its template was made: the hash tells apart everything files
depend on, and a ConfigMap is never older than the template that names it.
`PodsConverge` adds that such pods come to be. Both need `Reverted` to be false:
if an object is edited and the edit is taken back, a pod that started in between
carries the right hash and the files of the time in between, and stays.
`Reverted` asks what the objects are rendered to, not what they are, and for any
versions of the parts a run may have put together: the clients as they were,
say, with an older cluster. Two objects that differ may ask for the same files,
and a template may have been made of parts that were never current together.
`ModulesLoaded` excepts names with `__`, which config-init takes for a directory.
`PasswordsMounted` and `ClientsMounted`: the Secrets of a template are collected
apart from rendering, and before the pod lists its clients; still no file and no
client refers to a Secret that has no volume. Whether a reference is then
replaced by the contents of the volume is another question, and the answer of
the code is no for the cases that `PodsAsRendered` shows.
`VerdictByElement`: an error that is worth a retry is met before any that is not,
so which of several invalid objects there are decides what happens, and their
order does not. `SitesIgnoreListing` needs policies of different priorities:
ties stay in the order of the informer's List.

What the violated properties show, each against a sentence of the documentation
that `PROJECT.json` quotes: a healthy cluster is reconciled in an endless loop;
the order of an informer's List decides whether pods are replaced; an HPA
outlives the topology it was made for; every run sets an autoscaled Deployment
back to one replica; a change of topology takes all ready pods away before there
is a new one; a rotated Secret reaches no running pod, however often the
operator reconciles. `PodsAsRendered` fails in each of its parts, in one pod: a
module with `__` in its name is unpacked to another path than it was rendered
for (`TreeReconstructed`); a module that is not called `sql`, `ldap`, `rest`,
`redis` or `eap` is left with the reference in place of its password
(`PasswordsResolved`); and one client whose Secret lacks its key leaves the
clients after it without theirs (`ClientsResolved`). Each of these runs is as
small as the case allows.

What the models show beyond that without a property of its own, because it takes
no interleaving or is a premise of a property: an invalid spec leaves
Progressing=True while nothing is under way (`ReportInvalidSpec`); an object that
fails the renderer's validation is tried again for ever and never reported
(`Resolve`); a pod that started between an edit and its being taken back keeps
the files of the time in between (`Reverted`); policies of one priority change
the template by the order in which they are listed (`PrioritiesDiffer`,
`OneListing`). Clients of a deleted cluster stay Ready, because nothing tells
their controller; that ends with the periodic resync of informers, which is off
the scale of everything else here, ten hours by default, and not modelled.

### Bounds

`MaxEdits`, `MaxDeletions` and `MaxFaults` bound what users and failures do;
nothing bounds the controllers or the HPA controller. One edit and one fault at
any point already give every pair (stale read, conflict) and (partial write,
restart); the second edit of `ClusterSafety` gives deletion with re-creation
under one name, and an edit that is taken back while a cache still shows it.
Two clients are the smallest number whose order can differ. Two roles are the
smallest number for which the split topology has a pair that is created while
the other is not. `uids` grows with re-creations, which are edits. The HPA
controller of `Topology` scales to one value other than the operator's: with two it could
change the Deployment again before every one of the operator's attempts, for
ever, which its sync period rules out.

In `Pods` one replica with `maxSurge` 1 gives two pods, an old and a new one, at
any stage each. `MaxEvents` counts edits, rotations, evictions, failures and
restarts together. Two of them give an edit while the pod of the edit before is
still starting, an edit that is taken back, and an edit next to a failed run or
a lost ConfigMap. They are spent in a family in which a module's Secret, a
client's Secret and a policy's action can change; the other starts, eleven lists
of modules, three of clients and five of policies in pairs, and two clients at
once, have no events: what they are there for are the functions of `Rendering`,
and the interleavings of one start with the rollout.

`CHECK_DEADLOCK FALSE` throughout: a state in which all edits and faults are
spent and the controller rests is a legitimate end.

### Fairness

Weak fairness of the worker's next step (`Reconcile`; `Controller` in `Pods`: a
goroutine that is never stopped), of each informer's delivery (a watch that stays or is re-established), of the
delayed list (a timer) of the garbage
collector, and of the Deployment controller and the kubelets (`Rollout`). Users,
faults, evictions, restarts,
`Wake` and the HPA controller have none. Weak fairness is enough because these
actions, once enabled, stay enabled until taken or made pointless. Where a
property has the premise `[](faults = 0)`, it fails without it, and the hazards
say why: an error of a status update is dropped, and with nothing left to wake
the controller nobody repeats it.

## Proofs

For all values of the constants that satisfy the assumptions of each module. Of
`ClusterReconcile`, `ObjectConditions` and `Endpoints`: every finite set of
clients, every set of policies, specs and Secrets, every choice of roles and
replica counts, all values of the bounds. Of `Pods`: every set of well-formed
objects (`InputsAssumption`), with any number of modules, clients and policies,
every way to edit them, any number of replicas, Secrets and events; of
`Rendering`, that `__` is in none of the names the renderer itself gives and
divides others into two pieces or more (`PiecesAssumption`).

| Theorem | States |
|:--|:--|
| `ClusterReconcileProofs!TypeCorrect` | types, and a run past its first read has a spec that existed |
| `NoWakeupIsLost` | `NoLostWakeup` |
| `StaleReadsAreFollowedUp` | `StaleReadIsFollowedUp` |
| `InvalidSpecsAreReported` | `InvalidSpecReported` |
| `PublishedSecretsExisted` | `PublishedSecretsExist` |
| `ControllerImplementsPublisher` | `ImplementsPublisher`, the refinement |
| `EndpointsProofs!TypeCorrect` | types, and no Deployment with fewer than one replica |
| `TopologyIsComplete` | `TopologyAtRest` |
| `ReplicasTakeEffect` | `ReplicasAtRest` |
| `ReplacementIsCreatedFirst` | `ReplacementCreatedFirst`, an action property: the order of API calls |
| `LastingEndpointsAreServed` | `LastingEndpointsKeepPods`, an action property of `EndpointPods` that no run checks |
| `ObjectConditionsProofs!TypeCorrect` | types |
| `ConditionsAgree` | `ConditionsAgreeAtRest` |
| `ReadyIsJudged` | `ReadyJudgesTheSpecItIsOn`, an action property |
| `PodsProofs!TypeCorrect` | types, and a volume for every Secret of a pod's template |
| `Inductive` | `IInv`: what is read can be dated, in the order of reads and writes |
| `PodsMatch` | `PodsMatchInputs` |
| `ModulesAreLoaded` | `ModulesLoaded` |
| `PasswordsAreMounted` | `PasswordsMounted` |
| `ClientsAreMounted` | `ClientsMounted` |
| `VerdictsByElement` | `VerdictByElement` |
| `SitesDoNotDependOnListing` | `SitesIgnoreListing` |

The argument for the cluster controller. None of the properties is inductive:
they speak of states where nothing is pending, and say nothing of the runs that
lead there. `CaughtUp` strengthens them to every step of a run: while nothing is
pending, all the run has read so far is what the server has (`ReadsCurrent`),
the children it has passed are what it wants (`ChildrenCurrent`), and if it has
ended it had a reason (`MayRest`). It is kept because (1) a step that changes a
watched object leaves its kind in `behind`, so something is pending, (2) a step
that ends the pending (`Fetch`, with the queue empty after it) starts a run that
reads caches that agree with the server (`CacheAgrees`), and (3) a run that
gives up leaves the timer. `PublishedSecretsExist` needs `SecretsRemembered`:
Secrets in the store and in the cache, and those of a run that has passed the
check, have existed.

The argument for the conditions. `Settled` says the same of the two updates:
while no event is pending and no call has failed, the copy the worker holds
before its first update is up to date; after it, the first condition has the
verdict; and once it rests without a timer both have. A conflict, which loses an
update, leaves `behind` true, so `Settled` asks nothing. `CopyIsJudged` carries
the verdict from the read to the update and gives `ReadyIsJudged`.

The argument for the refinement. Initial states map to initial states because
nothing has been read. A step of the controller maps to the step of `Publisher`
that its place in `Reconcile` says, and needs the invariant in two places. That
the controller is allowed to rest is `CaughtUp`, with which `NoLostWakeup` was
proved: at rest the children are those of the current objects or the objects
are rejected, which is `Settled` for the mapped variables. That it publishes
only what can be rendered is `RendersRun`, an invariant of its own: a run past
`Resolve` works on elements that `Render` accepted. `NoneIsNoReading` is the one
further assumption: the value that stands for "not read" and "does not exist" is
no reading and no ConfigMap.

The argument for the endpoints. The properties speak of the end of a run or of
one of its deletions; the invariant says how a run gets there. `Suffix`: what is
left to do is the end of the plan, so the number of calls made tells which.
`CacheAgrees`: what no informer is behind with is cached as it is. `Applied`:
while nothing is pending, the run is for the current spec and every call it has
made holds on the server; it is kept because whoever changes an object leaves an
event, a failed call leaves the timer, and a call that leaves neither was not
needed (`QuietStep`). `Standing`: what a run has applied stays until its end as
long as nobody else deletes it, because its plan deletes only names it does not
want (`PlanOfSpec`). `TopologyAtRest` is `Applied` at the end of the plan;
`ReplacementCreatedFirst` follows since a deletion of the plan comes after
everything the plan applies (`DeletesOthers`), and every plan has an endpoint for
the role. A behaviour of `EndpointPods` is one of `Endpoints` as far as objects
go, so the same invariant gives `LastingEndpointsKeepPods`: what is deleted is
not wanted by the spec of the run, an endpoint that lasts is wanted by all, and
a Deployment has at least one replica by its type.

The argument for the pods. `PodsMatchInputs` speaks of a pod that has read its
template, its files and its clients at three moments, from objects that the
controller had read at three moments before. `ControllerInv` dates all of that:
a version picks for every part one of the values in its `history`, and there are
versions of the caches, of the run, of the ConfigMap and of its cached copy, each
no later than the one before. They only move forward: `Learn` takes a part of the
first to the newest value, `Read` takes that part of the second to where the
caches are, `PublishConfig` takes the third to where the run is. A write that is
skipped leaves the third alone: what the run goes on with equals the cached copy,
which is of an earlier version still. A template is dated by objects whose
configuration was published before it (`FromHistory`), which is the order of the
two writes; so a pod that starts afterwards reads that configuration or one of a
later version, and clients no older than those its template was made for
(`ReadLater`). The controller rests only when it has published what the objects ask for
(`RestInv`). At rest, then, the template of a current pod is that of the current
objects; its files are those or of a later version, and unless there was a way
back (`Reverted`) they are the same. That equal hashes mean equal clients is
`SameClients`.

The invariant made the premise precise: with `Reverted` as a repetition of the
objects as a whole the step from "later" to "the same" fails, because a run can
put together parts that were never current at one time.

The lemmas it rests on are about `Rendering`, for lists of any length. That
verdicts go by elements: the first failure of two lists one after the other is
that of the first or else of the second (`FirstFailureOfTwo`), so that the order
of the five checks decides, and never that of the clients or the policies
(`VerdictIs`); the modules come in the one order their cluster gives them. That
sites ignore the listing: with different priorities there is one ascending order
(`AscendingIsUnique`), and `ByPriority` always finds one (`SortedListing`). That
the references in a file are mounted: it is that of a client or of the password
of an enabled module, and both are collected (`ConfigRefsMounted`), whatever the order of the lists (`SameSecrets`). That the keys
under `mods-enabled` are those of the enabled modules (`ModuleKeys`), by cases
of the names "__" divides. Minima and the rank of a policy among others take the
place of induction over the lists.

Only model-checked: the liveness properties (`EventuallyApplied`,
`MissingSecretReported`, `StatusRecovers`, `DeletedClusterLeavesNothing`,
`ReadyOnceClusterExists`, `TopologyConverges`, `PodsConverge`), which need
fairness and ENABLED and are beyond TLAPS here. Every safety property that a
passing run checks is a theorem.

## Not modelled

- RBAC objects: written by `CreateOrUpdate` from nothing but the cluster's name;
  calls that may fail (`ReconcileOthers`).
- Ports, probes, affinity, annotations and other contents of Deployments and
  Services that follow from the spec alone; an object carries the spec.
- `podRestarts`, `readyReplicas`, messages of conditions, and whether Available
  is true of the pods: it is set by every run that ends and never reset.
  `currentImage` is modelled but has no property, for the reason given under its
  hazard.
- What an image brings along (stock-config copies it before config-init), and
  the characters of a Secret that `sed` would take for its own.
- The periodic resync of informers, and which volumes come first in a pod.
  `collectSecretRefs` skips references with an empty Secret name, which the
  schema of the API does not rule out and no volume could have.
- Several clusters in one process: they share nothing but the queue, which
  serialises the runs of one key, and the specs of clients, each of which
  refers to one cluster at a time; moving a client from one cluster to another
  is, for each of the two, an edit that makes it appear or disappear.
- Leader election: `main.go` does not enable it, and one process is assumed.
- The text of templates, regular expressions and conditions, metrics, logging,
  flags, generated code: no state, or none that anything reads.

## Plan

All modules of the plan are written, and all their safety properties proved.
What could follow:

1. Two replicas and a second edited family in `Pods`, at the price of a run of
   some ten minutes.
2. The split topology in `ClusterReconcile`, to compose status and endpoints:
   the status fields are updated only if a Deployment of the unified name exists.
3. The pods of `EndpointPods` with the containers of `Pods`, to see which files
   the pods of two roles run with at one time.
