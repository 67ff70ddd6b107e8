---------------------------------- MODULE Pods ----------------------------------
(***************************************************************************)
(* The pods of a RadiusCluster on top of what Publisher promises of its    *)
(* controller.  The Deployment controller replaces pods one by one when    *)
(* the template changes, and a pod is made, or made again, at any time;    *)
(* what it runs with depends on reads at three moments: of its template    *)
(* when it is created, of the ConfigMap when config-init starts, of the    *)
(* RadiusClients when render-clients starts.                               *)
(*                                                                         *)
(*   pods     the pods, each with what it has read so far                  *)
(*   secrets  the keys and the version of every Secret                     *)
(*   history  the values every part has had, in order                      *)
(*                                                                         *)
(* The Deployment controller and the kubelet belong to Kubernetes: what is *)
(* kept of them is maxSurge 1 and maxUnavailable 0, the wait for volumes,  *)
(* and a ConfigMap that is read as it is on the API server.                *)
(***************************************************************************)
EXTENDS Rendering

CONSTANTS
  Inputs,      \* the objects there may be: a value of each part
  Starts,      \* those a cluster may start with
  Edited(_),   \* what one edit may make of them
  Contents,    \* what a Secret may hold, [keys, version]
  Secrets,     \* what each Secret holds at first
  Replicas,
  MaxEvents(_) \* how many edits and mishaps to explore from a start

ASSUME InputsAssumption ==
  /\ Starts \subseteq Inputs
  /\ \A objects \in Inputs :
       /\ objects = [part \in Parts |-> objects[part]]
       /\ Edited(objects) \subseteq Inputs
       /\ \A part \in Parts : WellFormed(part, objects[part])

VARIABLES wanted, known, draft, stage, config, workload, shown, awake,
          pods, secrets, history, events

Operator == INSTANCE Publisher

published == <<wanted, known, draft, stage, config, workload, shown, awake>>
vars == <<published, pods, secrets, history, events>>

Slots == 1..(Replicas + 1)
Exists(s) == pods[s] # None
OfTemplate(s) == Exists(s) /\ pods[s].made = workload
Up(s) == Exists(s) /\ pods[s].step = "up"
Count(P(_)) == Cardinality({s \in Slots : P(s)})

(* Edits and mishaps are bounded together.                                 *)
Event == /\ events < MaxEvents([part \in Parts |-> history[part][1]])
         /\ events' = events + 1
Calm == UNCHANGED events

-----------------------------------------------------------------------------
(* The controller, as Publisher has it.  A run that is cut short is a      *)
(* fault; one that has published, or can not, ends by itself.              *)

ReadPart == Calm /\ \E part \in Parts : Operator!Read(part)

Publish == /\ Operator!PublishConfig \/ Operator!PublishWorkload
           /\ \/ stage' # "reading" /\ Calm
              \/ stage' = "reading" /\ Event

FinishRun == /\ Operator!Again
             /\ \/ stage = "published" /\ Calm
                \/ Operator!Complete /\ ~Accepted(draft) /\ Calm
                \/ Event

ComeToRest == Calm /\ Operator!Rest

Controller == /\ ReadPart \/ Publish \/ FinishRun \/ ComeToRest
              /\ UNCHANGED <<pods, secrets, history>>

CatchUp == /\ Calm
           /\ (\E part \in Parts : Operator!Learn(part)) \/ Operator!LearnConfig
           /\ UNCHANGED <<pods, secrets, history>>

Disturb == /\ Event
           /\ Operator!Restart \/ Operator!Lose \/ Operator!Wake
           /\ UNCHANGED <<pods, secrets, history>>

-----------------------------------------------------------------------------
(* The Deployment controller.                                              *)

NewPod == [made |-> workload, step |-> "new", config |-> None,
           secrets |-> << >>, clients |-> None, clientSecrets |-> << >>]

CreatePod(s) ==
  /\ workload # None /\ ~Exists(s)
  /\ Count(OfTemplate) < Replicas
  /\ pods' = [pods EXCEPT ![s] = NewPod]

(* A pod that is not up goes first; one that is, when another is up.       *)
RetirePod(s) ==
  /\ Exists(s) /\ ~OfTemplate(s)
  /\ workload = None \/ ~Up(s) \/ Count(Up) > Replicas
  /\ pods' = [pods EXCEPT ![s] = None]

(* The kubelet mounts the ConfigMap and the Secrets of the template; then  *)
(* config-init copies the files and resolves what it can.                  *)
Mounted(s) == Restrict(secrets, pods[s].made.secrets)

ConfigInitAnyway(s) ==   \* mutant: without waiting for the volumes
  /\ Exists(s) /\ pods[s].step = "new"
  /\ pods' = [pods EXCEPT ![s].step = "init", ![s].config = config, ![s].secrets = Mounted(s)]

ConfigInit(s) ==
  /\ Exists(s) /\ pods[s].step = "new"
  /\ config # None /\ pods[s].made.secrets \subseteq DOMAIN secrets
  /\ pods' = [pods EXCEPT ![s].step = "init", ![s].config = config, ![s].secrets = Mounted(s)]

(* The clients as they are now; a Secret that has changed since it was     *)
(* mounted is seen by now, or not yet.                                     *)
RenderClients(s) ==
  /\ Exists(s) /\ pods[s].step = "init"
  /\ \E seen \in {pods[s].secrets, Mounted(s)} :
       pods' = [pods EXCEPT ![s].step = "up", ![s].clients = wanted["clients"],
                            ![s].clientSecrets = seen]

Rollout == /\ \E s \in Slots :
                CreatePod(s) \/ RetirePod(s) \/ ConfigInit(s) \/ RenderClients(s)
           /\ UNCHANGED <<published, secrets, history>> /\ Calm

-----------------------------------------------------------------------------
(* Users, and the failures of nodes.                                       *)

EditObjects ==
  /\ Event
  /\ wanted' \in Edited(wanted)
  /\ \E part \in Parts :
       /\ Operator!Change(part)
       /\ history' = [history EXCEPT ![part] = Append(@, wanted'[part])]
  /\ UNCHANGED <<pods, secrets>>

(* A Secret no pod has mounted may as well have its value from the start.  *)
MountedSecrets == UNION {pods[s].made.secrets : s \in {t \in Slots : Exists(t)}}
RotateSecret ==
  /\ Event
  /\ \E name \in MountedSecrets, content \in Contents :
       content # secrets[name] /\ secrets' = [secrets EXCEPT ![name] = content]
  /\ UNCHANGED <<published, pods, history>>

Evict(s) ==
  /\ Event
  /\ Exists(s) /\ pods' = [pods EXCEPT ![s] = None]
  /\ UNCHANGED <<published, secrets, history>>

Init ==
  /\ wanted \in Starts /\ Operator!Init
  /\ pods = [s \in Slots |-> None]
  /\ secrets = Secrets
  /\ history = [part \in Parts |-> <<wanted[part]>>]
  /\ events = 0

Next ==
  \/ Controller
  \/ CatchUp
  \/ Disturb
  \/ Rollout
  \/ \E s \in Slots : Evict(s)
  \/ EditObjects
  \/ RotateSecret

Spec == Init /\ [][Next]_vars

(* The controller, its caches, and Deployment controller and kubelets go   *)
(* on; nobody has to edit, and nothing has to fail.                        *)
FairSpec == Spec /\ WF_vars(Controller) /\ WF_vars(CatchUp) /\ WF_vars(Rollout)

-----------------------------------------------------------------------------
(* Properties.                                                             *)

(* A pod has gone through its containers in order, with all volumes there. *)
TypeOK ==
  /\ stage \in {"reading", "configured", "published"} /\ awake \in BOOLEAN
  /\ DOMAIN pods = Slots
  /\ \A s \in Slots : Exists(s) =>
       /\ DOMAIN pods[s] = DOMAIN NewPod
       /\ pods[s].step \in {"new", "init", "up"}
       /\ pods[s].step = "new" <=> pods[s].config = None
       /\ pods[s].step # "new" => DOMAIN pods[s].secrets = pods[s].made.secrets
       /\ pods[s].step = "up" <=> pods[s].clients # None
       /\ Up(s) => DOMAIN pods[s].clientSecrets = pods[s].made.secrets

(* The current objects can be rendered, in some order; how each of them    *)
(* fares when it is rendered alone.                                        *)
Acceptable == \E ctx \in ContextsOf(wanted) : Verdict(ctx) = "ok"

VerdictsAlone(ctx) ==
  LET empty == [cluster |-> [ctx.cluster EXCEPT !.modules = << >>],
                clients |-> << >>, policies |-> << >>]
  IN {Verdict([empty EXCEPT !.cluster = ctx.cluster])}
       \cup {Verdict([empty EXCEPT !.clients = <<c>>]) : c \in ToSet(ctx.clients)}
       \cup {Verdict([empty EXCEPT !.policies = <<p>>]) : p \in ToSet(ctx.policies)}

(* Whether a cluster is rejected for good, tried again or rendered depends *)
(* on its objects one by one, not on how they are combined or listed: an   *)
(* error that is worth a retry is met before any that is not, whatever     *)
(* objects they are in.                                                    *)
VerdictByElement ==
  Operator!Complete =>
    LET alone == VerdictsAlone(Context(draft))
    IN Verdict(Context(draft)) = CASE "error" \in alone -> "error"
                                   [] "error" \notin alone /\ "typed" \in alone -> "typed"
                                   [] OTHER -> "ok"

(* Policies with different priorities render to the same site however the  *)
(* informer happens to list them.                                          *)
PrioritiesDiffer ==
  \A p, q \in Present(wanted["policies"]) : p # q =>
    \/ wanted["policies"][p].stage # wanted["policies"][q].stage
    \/ wanted["policies"][p].priority # wanted["policies"][q].priority
SitesIgnoreListing ==
  PrioritiesDiffer =>
    \A o, n \in Listings(Present(wanted["policies"])) :
      LET SitesOf(order) == Sites(Listed(wanted["policies"], order), wanted["cluster"].coa)
      IN SitesOf(o) = SitesOf(n)

(* The versions of the parts a run may have put together.                  *)
Versions == {v \in [Parts -> UNION {DOMAIN history[part] : part \in Parts}] :
               \A part \in Parts : v[part] \in DOMAIN history[part]}
NotAfter(u, v) == \A part \in Parts : u[part] <= v[part]
At(v) == [part \in Parts |-> history[part][v[part]]]

(* The files of a pod, but for clients.conf, which render-clients writes.  *)
FilesIn(configMap) == [key \in DOMAIN configMap \ {<<"clients.conf">>} |-> configMap[key]]
FilesOfObjects(objects) ==
  {FilesIn(ConfigMapData(Render(ctx))) : ctx \in ContextsOf(objects)}
FilesWanted == FilesOfObjects(wanted)

(* The objects have been edited from what they ask for now to something    *)
(* else, and back: in their clients, or in their files.                    *)
Reverted ==
  \/ \E i, j \in DOMAIN history["clients"] :
       LET live(k) == LiveClients(history["clients"][k])
       IN i < j /\ live(i) = LiveClients(wanted["clients"]) /\ live(j) # live(i)
  \/ LET now == FilesWanted
         files == {<<v, FilesOfObjects(At(v))>> : v \in Versions}
     IN \E f, g \in files :
          NotAfter(f[1], g[1]) /\ f[2] \cap now # {} /\ ~(g[2] \subseteq now)

(* Once the operator is at rest, a pod of the current template has the     *)
(* files and the clients of the current objects, although it read neither  *)
(* when its template was made: the hash tells apart all that files depend  *)
(* on, and the ConfigMap is always written before the template.  Unless    *)
(* an edit was taken back: then a pod that started in between has the      *)
(* files of the time in between.                                           *)
PodsMatchInputs ==
  ~awake /\ Acceptable /\ ~Reverted =>
    \A s \in Slots : OfTemplate(s) =>
      /\ pods[s].step # "new" => FilesIn(pods[s].config) \in FilesWanted
      /\ Up(s) => LiveClients(pods[s].clients) = LiveClients(wanted["clients"])

(* Of the modules of its cluster a pod finds those that are enabled, and   *)
(* no others, where radiusd looks for them: unless "__" in a name becomes  *)
(* a directory.                                                            *)
LoadedBy(pod) ==
  {Last(key) : key \in {k \in DOMAIN pod.config : Len(k) = 2 /\ k[1] = "mods-enabled"}}
ModulesLoaded ==
  ~awake /\ Acceptable /\ ~Reverted =>
    \A s \in Slots : OfTemplate(s) /\ pods[s].step # "new" =>
      LoadedBy(pods[s]) = {m.name : m \in {n \in ToSet(wanted["cluster"].modules) : n.enabled}}
                            \ DOMAIN Pieces

(* Such a pod has the volume of every Secret that its files refer to,      *)
(* whatever the names, types and sections of its modules: the Secrets of a *)
(* template are collected from the objects apart from rendering them.      *)
PasswordsMounted ==
  ~awake /\ Acceptable /\ ~Reverted =>
    \A s \in Slots : OfTemplate(s) /\ pods[s].step # "new" =>
      \A key \in DOMAIN FilesIn(pods[s].config) :
        {ref.name : ref \in pods[s].config[key].refs} \subseteq DOMAIN pods[s].secrets

(* And that of the Secret of every client it has listed when it started,   *)
(* after its template was made.                                            *)
ClientsMounted ==
  ~awake /\ Acceptable /\ ~Reverted =>
    \A s \in Slots : Up(s) /\ OfTemplate(s) =>
      {pods[s].clients[c].secret.name : c \in Present(pods[s].clients)}
        \subseteq DOMAIN pods[s].clientSecrets

(* Once the objects stay acceptable, with one way to list them, all pods   *)
(* are of the current template, up, and with the current files and clients.*)
Converged ==
  /\ Count(Exists) = Replicas
  /\ \A s \in Slots : Exists(s) =>
       /\ OfTemplate(s) /\ Up(s)
       /\ LiveClients(pods[s].clients) = LiveClients(wanted["clients"])
       /\ FilesIn(pods[s].config) \in FilesWanted
OneListing == Cardinality(ContextsOf(wanted)) = 1
PodsConverge == <>[](OneListing /\ Acceptable) => <>[](Converged \/ Reverted)

-----------------------------------------------------------------------------
(* What the documents say and the code does not do.                        *)

(* config-init reconstructs the directories of what was rendered.          *)
TreeReconstructed(pod) ==
  pod.config = ConfigMapData(pod.made.hash.files) =>
    DOMAIN pod.config = DOMAIN pod.made.hash.files

(* References are replaced by the contents of the files they name: what a  *)
(* file is left with is what could not be read.                            *)
PasswordsResolved(pod) ==
  \A key \in DOMAIN FilesIn(pod.config) :
    \A ref \in Unresolved(key, pod.config[key], pod.secrets) : ~Readable(ref, pod.secrets)

(* The same of clients.conf, client by client.                             *)
ClientsResolved(pod) ==
  \A c \in UnresolvedClients(pod.clients, pod.clientSecrets) :
    ~Readable(pod.clients[c].secret, pod.clientSecrets)

(* A pod that is up has every file where the renderer put it, with the     *)
(* passwords in it, and the secrets of all clients, as far as they exist.  *)
PodsAsRendered ==
  \A s \in Slots : Up(s) =>
    /\ TreeReconstructed(pods[s])
    /\ PasswordsResolved(pods[s])
    /\ ClientsResolved(pods[s])

(* When a Secret that is referred to is updated, the operator detects the  *)
(* change during its next reconciliation and replaces the pods: as long as *)
(* it goes on reconciling, they end up with the new value.                 *)
RotationReachesPods ==
  <>[]Acceptable /\ []<>(stage = "published")
    => <>[](\A s \in Slots : Up(s) => pods[s].secrets = Mounted(s))

=============================================================================
