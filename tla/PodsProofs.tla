------------------------------- MODULE PodsProofs -------------------------------
(***************************************************************************)
(* Proofs about Pods: its types, and what pods run with once the operator  *)
(* is at rest, whatever has been edited, lost, restarted or evicted.       *)
(*                                                                         *)
(* Three moments are read at by a pod, and at each of them caches and the  *)
(* controller may lag.  The invariant dates what is read: every part has   *)
(* had a sequence of values (history), a version picks one for each part,  *)
(* and the versions of the cache, of the run, of the ConfigMap and of the  *)
(* cached ConfigMap are in that order.  A template is dated by objects     *)
(* whose configuration was published before it, so that a pod that starts  *)
(* later reads that configuration or a newer one.                          *)
(***************************************************************************)
EXTENDS Pods, RenderingProofs

-----------------------------------------------------------------------------
(* Versions of a history h.                                                *)

VersionsIn(h) == {v \in [Parts -> UNION {DOMAIN h[part] : part \in Parts}] :
                    \A part \in Parts : v[part] \in DOMAIN h[part]}
AtIn(h, v) == [part \in Parts |-> h[part][v[part]]]

(* What is rendered from some versions of the parts, or from earlier ones. *)
ConfigsAt(h, v) == {ConfigMapData(Render(ctx)) : ctx \in ContextsOf(AtIn(h, v))}
Older(h, configMap, v) ==
  \E u \in VersionsIn(h) : NotAfter(u, v) /\ configMap \in ConfigsAt(h, u)

(* A template was made for objects there have been, after their            *)
(* configuration had been published.                                       *)
FromHistory(h, template, v) ==
  \E u \in VersionsIn(h) : \E ctx \in ContextsOf(AtIn(h, u)) :
    template = Template(ctx) /\ Older(h, ConfigMapData(Render(ctx)), v)

(* A pod has read a configuration no older than that of its template, and  *)
(* clients no older than those its template was made for.                  *)
ReadLater(h, pod) ==
  /\ pod.step # "new" =>
       \E v \in VersionsIn(h) : /\ pod.config \in ConfigsAt(h, v)
                                /\ Older(h, ConfigMapData(pod.made.hash.files), v)
  /\ pod.step = "up" =>
       \E i, j \in DOMAIN h["clients"] :
         /\ i <= j /\ pod.clients = h["clients"][j]
         /\ \E order \in Listings(Present(h["clients"][i])) :
              pod.made.hash.clients = HashedClients(Listed(h["clients"][i], order))

-----------------------------------------------------------------------------
(* The inductive invariant.                                                *)

(* The parts have had the values history lists, all of them well-formed.   *)
IsHistory(h) ==
  /\ h = [part \in Parts |-> h[part]]
  /\ \A part \in Parts :
       /\ h[part] \in Seq({objects[part] : objects \in Inputs})
       /\ h[part] # << >>

HistoryInv ==
  /\ wanted \in Inputs
  /\ IsHistory(history)
  /\ \A part \in Parts : history[part][Len(history[part])] = wanted[part]

(* The versions the controller has of the parts: in its cache, in its run, *)
(* in what it has published, in the copy of that in its cache.             *)
Ordered(k, r, c, s) == NotAfter(s, c) /\ NotAfter(c, r) /\ NotAfter(r, k)

ReadAt(r) ==
  /\ draft = [part \in Parts |-> draft[part]]
  /\ \A part \in Parts :
       draft[part] # None => draft[part] \in Readings(part, AtIn(history, r)[part])

PublishedAt(c, s) ==
  /\ config # None => config \in ConfigsAt(history, c)
  /\ shown # None => shown \in ConfigsAt(history, s)

ConfiguredBy(c) ==
  stage = "configured" => Operator!Complete /\ Older(history, ConfigFor(draft), c)

TemplatesBy(c) ==
  /\ workload # None => FromHistory(history, workload, c)
  /\ \A slot \in Slots : Exists(slot) => FromHistory(history, pods[slot].made, c)

Tracked(k, r, c, s) ==
  /\ Ordered(k, r, c, s)
  /\ known = AtIn(history, k)
  /\ ReadAt(r)
  /\ PublishedAt(c, s)
  /\ ConfiguredBy(c)
  /\ TemplatesBy(c)

ControllerInv == \E k, r, c, s \in VersionsIn(history) : Tracked(k, r, c, s)

PodsInv == \A slot \in Slots : Exists(slot) => ReadLater(history, pods[slot])

(* The controller rests only when it is done.                              *)
RestInv == ~awake => Operator!Settled

IInv == TypeOK /\ HistoryInv /\ ControllerInv /\ PodsInv /\ RestInv

-----------------------------------------------------------------------------
(* Facts about versions.                                                   *)

LEMMA HistoryValues ==
  ASSUME NEW h, IsHistory(h), NEW part \in Parts
  PROVE  /\ Len(h[part]) \in Nat /\ Len(h[part]) # 0 /\ DOMAIN h[part] = 1..Len(h[part])
         /\ Len(h[part]) \in DOMAIN h[part]
         /\ \A i \in DOMAIN h[part] : WellFormed(part, h[part][i])
<1> DEFINE Values == {objects[part] : objects \in Inputs}
           q == h[part]
           n == Len(q)
<1>1. q \in Seq(Values) /\ q # << >>
  BY DEF IsHistory
<1>2. \A value \in Values : WellFormed(part, value)
  BY InputsAssumption
<1> HIDE DEF Values, q
<1>3. /\ n \in Nat /\ n # 0 /\ DOMAIN q = 1..n
      /\ \A i \in 1..n : q[i] \in Values
  BY <1>1, EmptySeq, LenProperties, ElementOfSeq
<1>4. n \in 1..n
  <2> HIDE DEF n
  <2> QED BY <1>3
<1> HIDE DEF n
<1> QED BY <1>2, <1>3, <1>4 DEF q, n

LEMMA VersionIn ==
  ASSUME NEW h
  PROVE  \A v : v \in VersionsIn(h) <=>
           v = [part \in Parts |-> v[part]] /\ \A part \in Parts : v[part] \in DOMAIN h[part]
BY DEF VersionsIn

LEMMA VersionNat ==
  ASSUME NEW h, IsHistory(h), NEW v \in VersionsIn(h), NEW part \in Parts
  PROVE  v[part] \in Nat
BY VersionIn, HistoryValues

LEMMA NotAfterOrder ==
  ASSUME NEW h, IsHistory(h), NEW u \in VersionsIn(h), NEW v \in VersionsIn(h),
         NEW w \in VersionsIn(h)
  PROVE  /\ NotAfter(u, u)
         /\ NotAfter(u, v) /\ NotAfter(v, w) => NotAfter(u, w)
BY VersionNat DEF NotAfter

LEMMA AtWellFormed ==
  ASSUME NEW h, IsHistory(h), NEW v \in VersionsIn(h)
  PROVE  WellFormedObjects(AtIn(h, v))
BY VersionIn, HistoryValues DEF WellFormedObjects, AtIn

LEMMA OlderLater ==
  ASSUME NEW h, IsHistory(h), NEW v \in VersionsIn(h), NEW w \in VersionsIn(h),
         NotAfter(v, w), NEW configMap, Older(h, configMap, v)
  PROVE  Older(h, configMap, w)
BY NotAfterOrder DEF Older

LEMMA FromHistoryLater ==
  ASSUME NEW h, IsHistory(h), NEW v \in VersionsIn(h), NEW w \in VersionsIn(h),
         NotAfter(v, w), NEW template, FromHistory(h, template, v)
  PROVE  FromHistory(h, template, w)
BY OlderLater DEF FromHistory

(* A history goes on, and what has been said of it stays true.             *)
GoesOn(h, g) ==
  \A part \in Parts : /\ DOMAIN h[part] \subseteq DOMAIN g[part]
                      /\ \A i \in DOMAIN h[part] : g[part][i] = h[part][i]

LEMMA AtStays ==
  ASSUME NEW h, NEW g, GoesOn(h, g), NEW v \in VersionsIn(h)
  PROVE  /\ v \in VersionsIn(g)
         /\ AtIn(g, v) = AtIn(h, v)
         /\ ConfigsAt(g, v) = ConfigsAt(h, v)
BY VersionIn DEF GoesOn, AtIn, ConfigsAt

LEMMA OlderStays ==
  ASSUME NEW h, NEW g, GoesOn(h, g), NEW v, NEW configMap, Older(h, configMap, v)
  PROVE  Older(g, configMap, v)
BY AtStays DEF Older

LEMMA FromHistoryStays ==
  ASSUME NEW h, NEW g, GoesOn(h, g), NEW v, NEW template, FromHistory(h, template, v)
  PROVE  FromHistory(g, template, v)
BY AtStays, OlderStays DEF FromHistory

LEMMA ReadLaterStays ==
  ASSUME NEW h, NEW g, GoesOn(h, g), NEW pod, ReadLater(h, pod)
  PROVE  ReadLater(g, pod)
<1>1. ASSUME pod.step # "new"
      PROVE  \E v \in VersionsIn(g) : /\ pod.config \in ConfigsAt(g, v)
                                      /\ Older(g, ConfigMapData(pod.made.hash.files), v)
  BY <1>1, AtStays, OlderStays DEF ReadLater
<1>2. \A i \in DOMAIN h["clients"] : i \in DOMAIN g["clients"] /\ g["clients"][i] = h["clients"][i]
  BY DEF GoesOn, Parts
<1> QED BY <1>1, <1>2 DEF ReadLater

-----------------------------------------------------------------------------
(* The steps, one by one.                                                  *)

ByOperator(Step) == Step /\ UNCHANGED <<pods, secrets, history>>
ByKubernetes(Step) == Step /\ UNCHANGED <<published, secrets, history>>

LEMMA NextSteps ==
  ASSUME [Next]_vars
  PROVE  \/ \E part \in Parts : ByOperator(Operator!Read(part))
         \/ ByOperator(Operator!PublishConfig)
         \/ ByOperator(Operator!PublishWorkload)
         \/ ByOperator(Operator!Again)
         \/ ByOperator(Operator!Rest)
         \/ \E part \in Parts : ByOperator(Operator!Learn(part))
         \/ ByOperator(Operator!LearnConfig)
         \/ ByOperator(Operator!Restart)
         \/ ByOperator(Operator!Lose)
         \/ ByOperator(Operator!Wake)
         \/ \E s \in Slots : ByKubernetes(CreatePod(s))
         \/ \E s \in Slots : ByKubernetes(pods' = [pods EXCEPT ![s] = None])
         \/ \E s \in Slots : ByKubernetes(ConfigInit(s))
         \/ \E s \in Slots : ByKubernetes(RenderClients(s))
         \/ EditObjects
         \/ UNCHANGED <<published, pods, history>>
<1>1. CASE Controller
  BY <1>1 DEF Controller, ReadPart, Publish, FinishRun, ComeToRest, ByOperator
<1>2. CASE CatchUp
  BY <1>2 DEF CatchUp, ByOperator
<1>3. CASE Disturb
  BY <1>3 DEF Disturb, ByOperator
<1>4. CASE Rollout
  <2>1. PICK s \in Slots : CreatePod(s) \/ RetirePod(s) \/ ConfigInit(s) \/ RenderClients(s)
    BY <1>4 DEF Rollout
  <2>2. UNCHANGED <<published, secrets, history>>
    BY <1>4 DEF Rollout
  <2>3. RetirePod(s) => pods' = [pods EXCEPT ![s] = None]
    BY DEF RetirePod
  <2> QED BY <2>1, <2>2, <2>3 DEF ByKubernetes
<1>5. CASE \E s \in Slots : Evict(s)
  BY <1>5 DEF Evict, ByKubernetes
<1>6. CASE RotateSecret
  BY <1>6 DEF RotateSecret
<1>7. CASE UNCHANGED vars
  BY <1>7 DEF vars
<1> QED BY <1>1, <1>2, <1>3, <1>4, <1>5, <1>6, <1>7 DEF Next

-----------------------------------------------------------------------------
(* Types and histories.                                                    *)

PodOK(pod) ==
  /\ DOMAIN pod = DOMAIN NewPod
  /\ pod.step \in {"new", "init", "up"}
  /\ pod.step = "new" <=> pod.config = None
  /\ pod.step # "new" => DOMAIN pod.secrets = pod.made.secrets
  /\ pod.step = "up" <=> pod.clients # None
  /\ pod.step = "up" => DOMAIN pod.clientSecrets = pod.made.secrets

LEMMA TypeOKByPod ==
  TypeOK <=> /\ stage \in {"reading", "configured", "published"} /\ awake \in BOOLEAN
             /\ DOMAIN pods = Slots
             /\ \A s \in Slots : pods[s] # None => PodOK(pods[s])
BY DEF TypeOK, PodOK, Exists, Up

LEMMA WantedClients ==
  ASSUME wanted \in Inputs
  PROVE  WellFormedObjects(wanted) /\ wanted["clients"] # None
BY InputsAssumption, WellFormedParts DEF WellFormedObjects

LEMMA InitHistory ==
  ASSUME Init
  PROVE  HistoryInv
<1>1. wanted \in Inputs
  BY InputsAssumption DEF Init
<1>2. \A part \in Parts : history[part] = <<wanted[part]>>
  BY DEF Init
<1>3. history = [part \in Parts |-> history[part]]
  BY DEF Init
<1>4. ASSUME NEW part \in Parts
      PROVE  /\ history[part] \in Seq({objects[part] : objects \in Inputs})
             /\ history[part] # << >>
             /\ history[part][Len(history[part])] = wanted[part]
  <2> DEFINE Values == {objects[part] : objects \in Inputs}
             value == wanted[part]
  <2>1. value \in Values
    BY <1>1
  <2>2. history[part] = <<value>>
    BY <1>2
  <2> HIDE DEF Values, value
  <2>3. <<value>> \in Seq(Values) /\ <<value>> # << >> /\ <<value>>[Len(<<value>>)] = value
    BY <2>1
  <2> QED BY <2>2, <2>3 DEF Values, value
<1> QED BY <1>1, <1>3, <1>4 DEF HistoryInv, IsHistory

(* An edit adds a value to the history of the part it changes.             *)
LEMMA EditHistory ==
  ASSUME HistoryInv, EditObjects
  PROVE  HistoryInv' /\ GoesOn(history, history')
<1>1. PICK part \in Parts :
        /\ wanted' = [wanted EXCEPT ![part] = wanted'[part]]
        /\ history' = [history EXCEPT ![part] = Append(history[part], wanted'[part])]
  BY DEF EditObjects, Operator!Change
<1>2. wanted' \in Inputs /\ wanted \in Inputs /\ IsHistory(history)
  BY InputsAssumption DEF EditObjects, HistoryInv
<1> DEFINE Values == {objects[part] : objects \in Inputs}
           h == history[part]
           value == wanted'[part]
           n == Len(h)
<1>3. h \in Seq(Values) /\ value \in Values
  BY <1>2 DEF IsHistory
<1>4. history = [p \in Parts |-> history[p]]
  BY <1>2 DEF IsHistory
<1>5. /\ history' = [p \in Parts |-> IF p = part THEN Append(h, value) ELSE history[p]]
      /\ history'[part] = Append(h, value)
      /\ \A p \in Parts : p # part => history'[p] = history[p]
  BY <1>1, <1>4
<1>6. \A p \in Parts : p # part => wanted'[p] = wanted[p]
  <2>1. wanted = [p \in Parts |-> wanted[p]]
    BY <1>2, InputsAssumption
  <2> QED BY <1>1, <2>1
<1> HIDE DEF Values, h, value
<1>7. /\ n \in Nat /\ DOMAIN h = 1..n
      /\ Append(h, value) \in Seq(Values) /\ Append(h, value) # << >>
      /\ DOMAIN Append(h, value) = 1..(n + 1)
      /\ Len(Append(h, value)) = n + 1 /\ Append(h, value)[n + 1] = value
      /\ \A i \in 1..n : Append(h, value)[i] = h[i]
  BY <1>3, AppendProperties, LenProperties
<1> HIDE DEF n
<1>8. GoesOn(history, history')
  <2>1. 1..n \subseteq 1..(n + 1)
    BY <1>7
  <2>2. \A p \in Parts : p = part =>
          /\ DOMAIN history[p] \subseteq DOMAIN history'[p]
          /\ \A i \in DOMAIN history[p] : history'[p][i] = history[p][i]
    BY <1>5, <1>7, <2>1 DEF h
  <2> QED BY <1>5, <2>2 DEF GoesOn
<1>9. IsHistory(history')
  <2>1. history' = [p \in Parts |-> history'[p]]
    BY <1>5
  <2>2. ASSUME NEW p \in Parts
        PROVE  history'[p] \in Seq({objects[p] : objects \in Inputs}) /\ history'[p] # << >>
    <3>1. CASE p = part
      BY <3>1, <1>5, <1>7 DEF Values
    <3>2. CASE p # part
      BY <3>2, <1>2, <1>5 DEF IsHistory
    <3> QED BY <3>1, <3>2
  <2> QED BY <2>1, <2>2 DEF IsHistory
<1>10. ASSUME NEW p \in Parts PROVE history'[p][Len(history'[p])] = wanted'[p]
  <2>1. CASE p = part
    BY <2>1, <1>5, <1>7 DEF value
  <2>2. CASE p # part
    BY <2>2, <1>5, <1>6 DEF HistoryInv
  <2> QED BY <2>1, <2>2
<1> QED BY <1>2, <1>8, <1>9, <1>10 DEF HistoryInv

LEMMA SameHistory ==
  ASSUME HistoryInv, UNCHANGED <<wanted, history>>
  PROVE  HistoryInv' /\ GoesOn(history, history')
BY DEF HistoryInv, GoesOn

LEMMA StepHistory ==
  ASSUME HistoryInv, [Next]_vars
  PROVE  HistoryInv' /\ GoesOn(history, history')
<1>1. CASE EditObjects
  BY <1>1, EditHistory
<1>2. CASE UNCHANGED <<wanted, history>>
  BY <1>2, SameHistory
<1>3. EditObjects \/ UNCHANGED <<wanted, history>>
  BY NextSteps DEF ByOperator, ByKubernetes, published,
     Operator!Read, Operator!PublishConfig, Operator!PublishWorkload, Operator!Again,
     Operator!Rest, Operator!Learn, Operator!LearnConfig, Operator!Restart, Operator!Lose,
     Operator!Wake, Operator!inputs
<1> QED BY <1>1, <1>2, <1>3

(* What config-init and render-clients make of a pod.                      *)
Initialised(pod, configMap, mounted) ==
  [pod EXCEPT !.step = "init", !.config = configMap, !.secrets = mounted]
Rendered(pod, clients, seen) ==
  [pod EXCEPT !.step = "up", !.clients = clients, !.clientSecrets = seen]

LEMMA InitialisedIs ==
  ASSUME NEW pod, DOMAIN pod = DOMAIN NewPod, NEW configMap, NEW mounted
  PROVE  LET p == Initialised(pod, configMap, mounted)
         IN /\ DOMAIN p = DOMAIN NewPod /\ p.step = "init" /\ p.config = configMap
            /\ p.secrets = mounted /\ p.made = pod.made /\ p.clients = pod.clients
            /\ p.clientSecrets = pod.clientSecrets
BY DEF NewPod, Initialised

LEMMA RenderedIs ==
  ASSUME NEW pod, DOMAIN pod = DOMAIN NewPod, NEW clients, NEW seen
  PROVE  LET p == Rendered(pod, clients, seen)
         IN /\ DOMAIN p = DOMAIN NewPod /\ p.step = "up" /\ p.clients = clients
            /\ p.clientSecrets = seen /\ p.made = pod.made /\ p.config = pod.config
            /\ p.secrets = pod.secrets
BY DEF NewPod, Rendered

LEMMA ConfigInitIs ==
  ASSUME NEW s \in Slots, ConfigInit(s), DOMAIN pods = Slots
  PROVE  pods' = [pods EXCEPT ![s] = Initialised(pods[s], config, Mounted(s))]
BY DEF ConfigInit, Initialised

LEMMA RenderClientsIs ==
  ASSUME NEW s \in Slots, RenderClients(s), DOMAIN pods = Slots
  PROVE  \E seen \in {pods[s].secrets, Mounted(s)} :
           pods' = [pods EXCEPT ![s] = Rendered(pods[s], wanted["clients"], seen)]
BY DEF RenderClients, Rendered

LEMMA InitType == ASSUME Init PROVE TypeOK
BY DEF Init, Operator!Init, TypeOK, Exists

LEMMA StageAndAwake ==
  ASSUME stage \in {"reading", "configured", "published"}, awake \in BOOLEAN, [Next]_vars
  PROVE  stage' \in {"reading", "configured", "published"} /\ awake' \in BOOLEAN
BY NextSteps DEF ByOperator, ByKubernetes, published, EditObjects,
   Operator!Read, Operator!PublishConfig, Operator!PublishWorkload, Operator!Again,
   Operator!Rest, Operator!Learn, Operator!LearnConfig, Operator!Restart, Operator!Lose,
   Operator!Wake, Operator!Change, Operator!EndRun

(* What a step does to the pods.                                           *)
LEMMA PodSteps ==
  ASSUME [Next]_vars, DOMAIN pods = Slots
  PROVE  \/ UNCHANGED pods
         \/ \E s \in Slots :
              \/ ByKubernetes(CreatePod(s))
              \/ pods' = [pods EXCEPT ![s] = None]
              \/ ByKubernetes(ConfigInit(s))
              \/ ByKubernetes(RenderClients(s))
BY NextSteps DEF ByOperator, ByKubernetes, EditObjects

LEMMA StepPods ==
  ASSUME TypeOK, HistoryInv, [Next]_vars
  PROVE  DOMAIN pods' = Slots /\ \A s \in Slots : pods'[s] # None => PodOK(pods'[s])
<1>1. DOMAIN pods = Slots /\ \A s \in Slots : pods[s] # None => PodOK(pods[s])
  BY TypeOKByPod
<1>2. CASE UNCHANGED pods
  BY <1>1, <1>2
<1>3. ASSUME NEW s \in Slots, ByKubernetes(CreatePod(s))
      PROVE  DOMAIN pods' = Slots /\ \A t \in Slots : pods'[t] # None => PodOK(pods'[t])
  <2>1. pods' = [pods EXCEPT ![s] = NewPod]
    BY <1>3 DEF ByKubernetes, CreatePod
  <2>2. PodOK(NewPod)
    BY DEF PodOK, NewPod
  <2> QED BY <1>1, <2>1, <2>2
<1>4. ASSUME NEW s \in Slots, pods' = [pods EXCEPT ![s] = None]
      PROVE  DOMAIN pods' = Slots /\ \A t \in Slots : pods'[t] # None => PodOK(pods'[t])
  BY <1>1, <1>4
<1>5. ASSUME NEW s \in Slots, ByKubernetes(ConfigInit(s))
      PROVE  DOMAIN pods' = Slots /\ \A t \in Slots : pods'[t] # None => PodOK(pods'[t])
  <2> DEFINE pod == Initialised(pods[s], config, Mounted(s))
  <2>1. ConfigInit(s) /\ pods[s] # None /\ config # None /\ pods[s].step = "new"
    BY <1>5 DEF ByKubernetes, ConfigInit, Exists
  <2>2. PodOK(pods[s])
    BY <1>1, <2>1
  <2>3. DOMAIN Mounted(s) = pods[s].made.secrets
    BY DEF Mounted, Restrict
  <2>4. PodOK(pod)
    <3>1. pods[s].clients = None
      BY <2>1, <2>2 DEF PodOK
    <3> QED BY <2>1, <2>2, <2>3, <3>1, InitialisedIs DEF PodOK
  <2>5. pods' = [pods EXCEPT ![s] = pod]
    BY <1>1, <2>1, ConfigInitIs
  <2> HIDE DEF pod
  <2> QED BY <1>1, <2>4, <2>5
<1>6. ASSUME NEW s \in Slots, ByKubernetes(RenderClients(s))
      PROVE  DOMAIN pods' = Slots /\ \A t \in Slots : pods'[t] # None => PodOK(pods'[t])
  <2>1. RenderClients(s) /\ pods[s] # None /\ pods[s].step = "init"
    BY <1>6 DEF ByKubernetes, RenderClients, Exists
  <2>2. PodOK(pods[s])
    BY <1>1, <2>1
  <2>3. PICK seen \in {pods[s].secrets, Mounted(s)} :
          pods' = [pods EXCEPT ![s] = Rendered(pods[s], wanted["clients"], seen)]
    BY <1>1, <2>1, RenderClientsIs
  <2> DEFINE pod == Rendered(pods[s], wanted["clients"], seen)
  <2>4. DOMAIN seen = pods[s].made.secrets
    BY <2>1, <2>2 DEF PodOK, Mounted, Restrict
  <2>5. PodOK(pod)
    <3>1. wanted["clients"] # None /\ pods[s].config # None
      BY <2>1, <2>2, WantedClients DEF HistoryInv, PodOK
    <3> QED BY <2>1, <2>2, <2>4, <3>1, RenderedIs DEF PodOK
  <2>6. pods' = [pods EXCEPT ![s] = pod]
    BY <2>3
  <2> HIDE DEF pod
  <2> QED BY <1>1, <2>5, <2>6
<1> QED BY <1>1, <1>2, <1>3, <1>4, <1>5, <1>6, PodSteps

LEMMA StepType ==
  ASSUME TypeOK, HistoryInv, [Next]_vars
  PROVE  TypeOK'
<1>1. stage' \in {"reading", "configured", "published"} /\ awake' \in BOOLEAN
  BY StageAndAwake DEF TypeOK
<1>2. DOMAIN pods' = Slots /\ \A s \in Slots : pods'[s] # None => PodOK(pods'[s])
  BY StepPods
<1> QED BY <1>1, <1>2 DEF TypeOK, PodOK, Exists, Up, NewPod

-----------------------------------------------------------------------------
(* Rest.                                                                   *)

LEMMA InitRest == ASSUME Init PROVE RestInv
BY DEF Init, Operator!Init, RestInv

(* Whatever the controller publishes, it publishes awake, and whatever     *)
(* happens to what it is to see to wakes it.                               *)
LEMMA StepRest ==
  ASSUME RestInv, awake \in BOOLEAN, [Next]_vars
  PROVE  RestInv'
<1> SUFFICES ASSUME ~awake' PROVE Operator!Settled'
  BY DEF RestInv
<1>1. Operator!Settled /\ UNCHANGED <<wanted, config, workload>>
  BY NextSteps DEF RestInv, ByOperator, ByKubernetes, published, EditObjects,
     Operator!Read, Operator!PublishConfig, Operator!PublishWorkload, Operator!Again,
     Operator!Rest, Operator!Learn, Operator!LearnConfig, Operator!Restart, Operator!Lose,
     Operator!Wake, Operator!Change, Operator!inputs, Operator!outputs
<1> QED BY <1>1 DEF Operator!Settled, Operator!DraftsOf

-----------------------------------------------------------------------------
(* The versions the controller has.                                        *)

Latest(h) == [part \in Parts |-> Len(h[part])]
Advanced(v, part, k) == [p \in Parts |-> IF p = part THEN k[p] ELSE v[p]]

LEMMA LatestIs ==
  ASSUME NEW h, IsHistory(h)
  PROVE  /\ Latest(h) \in VersionsIn(h)
         /\ \A v \in VersionsIn(h) : NotAfter(v, Latest(h))
<1>1. Latest(h) \in VersionsIn(h)
  BY VersionIn, HistoryValues DEF Latest
<1>2. ASSUME NEW v \in VersionsIn(h), NEW part \in Parts
      PROVE  v[part] <= Len(h[part])
  <2> DEFINE n == Len(h[part])
  <2>1. n \in Nat /\ v[part] \in 1..n
    BY VersionIn, HistoryValues
  <2> HIDE DEF n
  <2>2. v[part] <= n
    BY <2>1
  <2> QED BY <2>2 DEF n
<1> QED BY <1>1, <1>2 DEF NotAfter, Latest

LEMMA LatestIsWanted ==
  ASSUME HistoryInv
  PROVE  AtIn(history, Latest(history)) = wanted
<1>1. wanted = [part \in Parts |-> wanted[part]]
  BY InputsAssumption DEF HistoryInv
<1> QED BY <1>1 DEF HistoryInv, AtIn, Latest

LEMMA AdvancedIs ==
  ASSUME NEW h, IsHistory(h), NEW v \in VersionsIn(h), NEW k \in VersionsIn(h),
         NotAfter(v, k), NEW part \in Parts
  PROVE  /\ Advanced(v, part, k) \in VersionsIn(h)
         /\ NotAfter(v, Advanced(v, part, k))
         /\ NotAfter(Advanced(v, part, k), k)
         /\ \A p \in Parts : AtIn(h, Advanced(v, part, k))[p] =
              IF p = part THEN AtIn(h, k)[p] ELSE AtIn(h, v)[p]
<1> DEFINE w == Advanced(v, part, k)
<1>1. w = [p \in Parts |-> w[p]] /\ \A p \in Parts : w[p] = IF p = part THEN k[p] ELSE v[p]
  BY DEF Advanced
<1> HIDE DEF w
<1>2. w \in VersionsIn(h)
  BY <1>1, VersionIn
<1>3. \A p \in Parts : v[p] <= w[p] /\ w[p] <= k[p]
  BY <1>1, VersionNat DEF NotAfter
<1>4. \A p \in Parts : AtIn(h, w)[p] = IF p = part THEN AtIn(h, k)[p] ELSE AtIn(h, v)[p]
  BY <1>1 DEF AtIn
<1> QED BY <1>2, <1>3, <1>4 DEF NotAfter, w

LEMMA OrderedLater ==
  ASSUME NEW h, IsHistory(h), NEW k \in VersionsIn(h), NEW r \in VersionsIn(h),
         NEW c \in VersionsIn(h), NEW s \in VersionsIn(h), Ordered(k, r, c, s),
         NEW j \in VersionsIn(h)
  PROVE  /\ NotAfter(k, j) => Ordered(j, r, c, s) /\ Ordered(j, j, c, s)
         /\ NotAfter(r, j) /\ NotAfter(j, k) => Ordered(k, j, c, s)
         /\ Ordered(k, r, r, s) /\ Ordered(k, r, c, c)
<1>1. /\ NotAfter(k, j) => NotAfter(r, j) /\ NotAfter(j, j) /\ NotAfter(c, j)
      /\ NotAfter(r, j) => NotAfter(c, j)
      /\ NotAfter(s, r) /\ NotAfter(r, r) /\ NotAfter(c, c)
  BY NotAfterOrder DEF Ordered
<1> QED BY <1>1 DEF Ordered

(* The context of a complete draft is one of its version.                  *)
LEMMA DraftIsOf ==
  ASSUME NEW r, ReadAt(r), Operator!Complete
  PROVE  /\ Context(draft) \in ContextsOf(AtIn(history, r))
         /\ ConfigFor(draft) \in ConfigsAt(history, r)
<1>1. Context(draft) \in ContextsOf(AtIn(history, r))
  BY DraftContext DEF ReadAt, Operator!Complete
<1> QED BY <1>1 DEF ConfigFor, ConfigsAt

LEMMA BlankIsRead ==
  ASSUME NEW r, draft' = Operator!Blank
  PROVE  ReadAt(r)'
BY DEF ReadAt, Operator!Blank

LEMMA InitController == ASSUME Init PROVE ControllerInv
<1> DEFINE v == Latest(history)
<1>1. HistoryInv
  BY InitHistory
<1>2. v \in VersionsIn(history) /\ AtIn(history, v) = wanted
  BY <1>1, LatestIs, LatestIsWanted DEF HistoryInv
<1> HIDE DEF v
<1>3. Ordered(v, v, v, v)
  BY <1>1, <1>2, NotAfterOrder DEF HistoryInv, Ordered
<1>4. Tracked(v, v, v, v)
  BY <1>2, <1>3 DEF Init, Operator!Init, Operator!Blank, Tracked, ReadAt, PublishedAt,
     ConfiguredBy, TemplatesBy, Exists
<1> QED BY <1>2, <1>4 DEF ControllerInv

(* A run reads a part as it is in the cache.                               *)
LEMMA ReadKeeps ==
  ASSUME HistoryInv, NEW k \in VersionsIn(history), NEW r \in VersionsIn(history),
         NEW c \in VersionsIn(history), NEW s \in VersionsIn(history), Tracked(k, r, c, s),
         NEW part \in Parts, ByOperator(Operator!Read(part))
  PROVE  ControllerInv'
<1> DEFINE q == Advanced(r, part, k)
<1>1. IsHistory(history) /\ Ordered(k, r, c, s)
  BY DEF HistoryInv, Tracked
<1>2. /\ q \in VersionsIn(history) /\ NotAfter(r, q) /\ NotAfter(q, k)
      /\ \A p \in Parts : AtIn(history, q)[p] =
           IF p = part THEN AtIn(history, k)[p] ELSE AtIn(history, r)[p]
  BY <1>1, AdvancedIs DEF Ordered
<1> HIDE DEF q
<1>3. Ordered(k, q, c, s)
  BY <1>1, <1>2, OrderedLater
<1>4. /\ stage = "reading" /\ stage' = stage
      /\ UNCHANGED <<wanted, known, config, workload, shown, pods, history>>
      /\ \E reading \in Readings(part, known[part]) : draft' = [draft EXCEPT ![part] = reading]
  BY DEF ByOperator, Operator!Read, Operator!inputs, Operator!outputs
<1>5. ReadAt(q)'
  <2>1. PICK reading \in Readings(part, known[part]) : draft' = [draft EXCEPT ![part] = reading]
    BY <1>4
  <2>2. /\ draft = [p \in Parts |-> draft[p]]
        /\ \A p \in Parts : draft[p] # None => draft[p] \in Readings(p, AtIn(history, r)[p])
    BY DEF Tracked, ReadAt
  <2>3. known = AtIn(history, k)
    BY DEF Tracked
  <2>4. draft' = [p \in Parts |-> IF p = part THEN reading ELSE draft[p]]
    BY <2>1, <2>2
  <2>5. \A p \in Parts : draft'[p] # None => draft'[p] \in Readings(p, AtIn(history, q)[p])
    BY <1>2, <2>2, <2>3, <2>4
  <2> QED BY <1>4, <2>4, <2>5 DEF ReadAt
<1>6. Tracked(k, q, c, s)'
  BY <1>3, <1>4, <1>5 DEF Tracked, PublishedAt, ConfiguredBy, TemplatesBy, Exists
<1> QED BY <1>2, <1>4, <1>6 DEF ControllerInv

(* What is published is what the run has read.  A write that is left out   *)
(* has been made, at the latest when the copy in the cache was.            *)
LEMMA PublishConfigKeeps ==
  ASSUME HistoryInv, NEW k \in VersionsIn(history), NEW r \in VersionsIn(history),
         NEW c \in VersionsIn(history), NEW s \in VersionsIn(history), Tracked(k, r, c, s),
         ByOperator(Operator!PublishConfig)
  PROVE  ControllerInv'
<1>1. IsHistory(history) /\ Ordered(k, r, c, s) /\ NotAfter(c, r) /\ NotAfter(s, c)
  BY DEF HistoryInv, Tracked, Ordered
<1>2. /\ Operator!Complete
      /\ UNCHANGED <<wanted, known, workload, shown, pods, history>>
      /\ \/ stage' = "configured" /\ UNCHANGED draft
         \/ draft' = Operator!Blank /\ stage' = "reading"
  BY DEF ByOperator, Operator!PublishConfig, Operator!inputs, Operator!EndRun
<1>3. ReadAt(r)'
  BY <1>2, BlankIsRead DEF Tracked, ReadAt
<1>4. ConfigFor(draft) \in ConfigsAt(history, r)
  BY <1>2, DraftIsOf DEF Tracked
<1>5. CASE config' = ConfigFor(draft)
  <2>1. Ordered(k, r, r, s)
    BY <1>1, OrderedLater
  <2>2. PublishedAt(r, s)'
    BY <1>2, <1>4, <1>5 DEF Tracked, PublishedAt
  <2>3. Older(history, ConfigFor(draft), r)
    BY <1>1, <1>4, NotAfterOrder DEF Older
  <2>4. ConfiguredBy(r)'
    BY <1>2, <2>3 DEF ConfiguredBy, Operator!Complete
  <2>5. TemplatesBy(r)'
    BY <1>1, <1>2, FromHistoryLater DEF Tracked, TemplatesBy, Exists
  <2>6. Tracked(k, r, r, s)'
    BY <1>2, <1>3, <2>1, <2>2, <2>4, <2>5 DEF Tracked
  <2> QED BY <1>2, <2>6 DEF ControllerInv
<1>6. CASE shown # None /\ shown = ConfigFor(draft) /\ UNCHANGED config
  <2>1. Older(history, ConfigFor(draft), c)
    BY <1>1, <1>6 DEF Tracked, PublishedAt, Older
  <2>2. ConfiguredBy(c)'
    BY <1>2, <2>1 DEF ConfiguredBy, Operator!Complete
  <2>3. Tracked(k, r, c, s)'
    BY <1>1, <1>2, <1>3, <1>6, <2>2 DEF Tracked, PublishedAt, TemplatesBy, Exists
  <2> QED BY <1>2, <2>3 DEF ControllerInv
<1> QED BY <1>5, <1>6 DEF ByOperator, Operator!PublishConfig

(* The template is made of the configuration that has been published.      *)
LEMMA PublishWorkloadKeeps ==
  ASSUME HistoryInv, NEW k \in VersionsIn(history), NEW r \in VersionsIn(history),
         NEW c \in VersionsIn(history), NEW s \in VersionsIn(history), Tracked(k, r, c, s),
         ByOperator(Operator!PublishWorkload)
  PROVE  ControllerInv'
<1>1. /\ stage = "configured" /\ workload' = WorkloadFor(draft)
      /\ UNCHANGED <<wanted, known, config, shown, pods, history>>
      /\ \/ stage' = "published" /\ UNCHANGED draft
         \/ draft' = Operator!Blank /\ stage' = "reading"
  BY DEF ByOperator, Operator!PublishWorkload, Operator!inputs, Operator!EndRun
<1>2. Operator!Complete /\ Older(history, ConfigFor(draft), c)
  BY <1>1 DEF Tracked, ConfiguredBy
<1>3. Context(draft) \in ContextsOf(AtIn(history, r))
  BY <1>2, DraftIsOf DEF Tracked
<1>4. FromHistory(history, WorkloadFor(draft), c)
  BY <1>2, <1>3 DEF FromHistory, WorkloadFor, ConfigFor
<1>5. ReadAt(r)'
  BY <1>1, BlankIsRead DEF Tracked, ReadAt
<1>6. Tracked(k, r, c, s)'
  BY <1>1, <1>4, <1>5 DEF Tracked, PublishedAt, ConfiguredBy, TemplatesBy, Exists
<1> QED BY <1>1, <1>6 DEF ControllerInv

LEMMA EndRunKeeps ==
  ASSUME HistoryInv, NEW k \in VersionsIn(history), NEW r \in VersionsIn(history),
         NEW c \in VersionsIn(history), NEW s \in VersionsIn(history), Tracked(k, r, c, s),
         ByOperator(Operator!Again) \/ ByOperator(Operator!Rest)
  PROVE  ControllerInv'
<1>1. /\ UNCHANGED <<wanted, known, config, workload, shown, pods, history>>
      /\ draft' = Operator!Blank /\ stage' = "reading"
  BY DEF ByOperator, Operator!Again, Operator!Rest, Operator!inputs, Operator!outputs,
     Operator!EndRun
<1>2. ReadAt(r)'
  BY <1>1, BlankIsRead
<1>3. Tracked(k, r, c, s)'
  BY <1>1, <1>2 DEF Tracked, PublishedAt, ConfiguredBy, TemplatesBy, Exists
<1> QED BY <1>1, <1>3 DEF ControllerInv

(* The caches catch up.                                                    *)
LEMMA LearnKeeps ==
  ASSUME HistoryInv, NEW k \in VersionsIn(history), NEW r \in VersionsIn(history),
         NEW c \in VersionsIn(history), NEW s \in VersionsIn(history), Tracked(k, r, c, s),
         NEW part \in Parts, ByOperator(Operator!Learn(part))
  PROVE  ControllerInv'
<1>1. IsHistory(history) /\ Ordered(k, r, c, s) /\ known = AtIn(history, k)
  BY DEF HistoryInv, Tracked
<1>2. PICK last \in VersionsIn(history) : NotAfter(k, last) /\ AtIn(history, last) = wanted
  BY <1>1, LatestIs, LatestIsWanted
<1> DEFINE q == Advanced(k, part, last)
<1>3. /\ q \in VersionsIn(history) /\ NotAfter(k, q)
      /\ \A p \in Parts : AtIn(history, q)[p] = IF p = part THEN wanted[p] ELSE known[p]
  BY <1>1, <1>2, AdvancedIs
<1> HIDE DEF q
<1>4. /\ known' = [known EXCEPT ![part] = wanted[part]]
      /\ UNCHANGED <<wanted, draft, stage, config, workload, shown, pods, history>>
  BY DEF ByOperator, Operator!Learn, Operator!outputs
<1>5. known' = AtIn(history, q)
  <2>1. known = [p \in Parts |-> known[p]]
    BY <1>1 DEF AtIn
  <2>2. known' = [p \in Parts |-> IF p = part THEN wanted[p] ELSE known[p]]
    BY <1>4, <2>1
  <2>3. AtIn(history, q) = [p \in Parts |-> AtIn(history, q)[p]]
    BY DEF AtIn
  <2> QED BY <1>3, <2>2, <2>3
<1>6. Ordered(q, r, c, s)
  BY <1>1, <1>3, OrderedLater
<1>7. Tracked(q, r, c, s)'
  BY <1>4, <1>5, <1>6 DEF Tracked, ReadAt, PublishedAt, ConfiguredBy, TemplatesBy, Exists,
     Operator!Complete
<1> QED BY <1>3, <1>4, <1>7 DEF ControllerInv

LEMMA LearnConfigKeeps ==
  ASSUME HistoryInv, NEW k \in VersionsIn(history), NEW r \in VersionsIn(history),
         NEW c \in VersionsIn(history), NEW s \in VersionsIn(history), Tracked(k, r, c, s),
         ByOperator(Operator!LearnConfig)
  PROVE  ControllerInv'
<1>1. IsHistory(history) /\ Ordered(k, r, c, c)
  BY OrderedLater DEF HistoryInv, Tracked
<1>2. /\ shown' = config
      /\ UNCHANGED <<wanted, known, draft, stage, config, workload, pods, history>>
  BY DEF ByOperator, Operator!LearnConfig, Operator!inputs
<1>3. Tracked(k, r, c, c)'
  BY <1>1, <1>2 DEF Tracked, ReadAt, PublishedAt, ConfiguredBy, TemplatesBy, Exists,
     Operator!Complete
<1> QED BY <1>2, <1>3 DEF ControllerInv

(* A new process reads everything anew.                                    *)
LEMMA RestartKeeps ==
  ASSUME HistoryInv, NEW k \in VersionsIn(history), NEW r \in VersionsIn(history),
         NEW c \in VersionsIn(history), NEW s \in VersionsIn(history), Tracked(k, r, c, s),
         ByOperator(Operator!Restart)
  PROVE  ControllerInv'
<1>1. IsHistory(history) /\ Ordered(k, r, c, s)
  BY DEF HistoryInv, Tracked
<1>2. PICK last \in VersionsIn(history) : NotAfter(k, last) /\ AtIn(history, last) = wanted
  BY <1>1, LatestIs, LatestIsWanted
<1>3. Ordered(last, last, c, c)
  <2>1. Ordered(last, last, c, s)
    BY <1>1, <1>2, OrderedLater
  <2> QED BY <1>1, <1>2, <2>1, OrderedLater
<1>4. /\ known' = wanted /\ shown' = config
      /\ draft' = Operator!Blank /\ stage' = "reading"
      /\ UNCHANGED <<wanted, config, workload, pods, history>>
  BY DEF ByOperator, Operator!Restart, Operator!EndRun
<1>5. ReadAt(last)'
  BY <1>4, BlankIsRead
<1>6. PublishedAt(c, c)'
  BY <1>4 DEF Tracked, PublishedAt
<1>7. Tracked(last, last, c, c)'
  BY <1>2, <1>3, <1>4, <1>5, <1>6 DEF Tracked, ConfiguredBy, TemplatesBy, Exists
<1> QED BY <1>2, <1>4, <1>7 DEF ControllerInv

LEMMA LoseKeeps ==
  ASSUME HistoryInv, NEW k \in VersionsIn(history), NEW r \in VersionsIn(history),
         NEW c \in VersionsIn(history), NEW s \in VersionsIn(history), Tracked(k, r, c, s),
         ByOperator(Operator!Lose) \/ ByOperator(Operator!Wake)
  PROVE  ControllerInv'
<1>1. /\ UNCHANGED <<wanted, known, draft, stage, shown, pods, history>>
      /\ config' = None \/ config' = config
      /\ workload' = None \/ workload' = workload
  BY DEF ByOperator, Operator!Lose, Operator!Wake, Operator!inputs, Operator!outputs
<1>2. Tracked(k, r, c, s)'
  BY <1>1 DEF Tracked, ReadAt, PublishedAt, ConfiguredBy, TemplatesBy, Exists,
     Operator!Complete
<1> QED BY <1>1, <1>2 DEF ControllerInv

(* An edit adds a version, and no part of the controller has it yet.       *)
LEMMA EditKeeps ==
  ASSUME HistoryInv, NEW k \in VersionsIn(history), NEW r \in VersionsIn(history),
         NEW c \in VersionsIn(history), NEW s \in VersionsIn(history), Tracked(k, r, c, s),
         UNCHANGED <<known, draft, stage, config, workload, shown, pods>>,
         GoesOn(history, history')
  PROVE  ControllerInv'
<1>1. /\ \A v \in VersionsIn(history) :
           /\ v \in VersionsIn(history') /\ AtIn(history', v) = AtIn(history, v)
           /\ ConfigsAt(history', v) = ConfigsAt(history, v)
      /\ \A configMap, v : Older(history, configMap, v) => Older(history', configMap, v)
      /\ \A template, v : FromHistory(history, template, v) => FromHistory(history', template, v)
  BY AtStays, OlderStays, FromHistoryStays
<1>2. known' = AtIn(history', k) /\ ReadAt(r)' /\ PublishedAt(c, s)'
  BY <1>1 DEF Tracked, ReadAt, PublishedAt
<1>3. ConfiguredBy(c)' /\ TemplatesBy(c)'
  BY <1>1 DEF Tracked, ConfiguredBy, TemplatesBy, Exists, Operator!Complete
<1>4. Tracked(k, r, c, s)'
  BY <1>2, <1>3 DEF Tracked
<1> QED BY <1>1, <1>4 DEF ControllerInv

(* A pod keeps the template it was made with.                              *)
LEMMA PodsKeep ==
  ASSUME TypeOK, HistoryInv, NEW k \in VersionsIn(history), NEW r \in VersionsIn(history),
         NEW c \in VersionsIn(history), NEW s \in VersionsIn(history), Tracked(k, r, c, s),
         UNCHANGED <<published, history>>,
         DOMAIN pods = Slots, NEW slot \in Slots, NEW pod,
         pods' = [pods EXCEPT ![slot] = pod],
         \/ pod = None
         \/ workload # None /\ pod = NewPod
         \/ pods[slot] # None /\ pod.made = pods[slot].made
  PROVE  ControllerInv'
<1>1. ASSUME NEW t \in Slots, pods'[t] # None
      PROVE  FromHistory(history, pods'[t].made, c)
  <2>1. TemplatesBy(c)
    BY DEF Tracked
  <2>2. CASE t = slot
    <3>1. pods'[t] = pod
      BY <2>2
    <3>2. NewPod.made = workload
      BY DEF NewPod
    <3> QED BY <1>1, <2>1, <2>2, <3>1, <3>2 DEF TemplatesBy, Exists
  <2>3. CASE t # slot
    BY <1>1, <2>1, <2>3 DEF TemplatesBy, Exists
  <2> QED BY <2>2, <2>3
<1>2. TemplatesBy(c)'
  BY <1>1 DEF Tracked, TemplatesBy, Exists, published
<1>3. Tracked(k, r, c, s)'
  BY <1>2 DEF Tracked, ReadAt, PublishedAt, ConfiguredBy, published, Operator!Complete
<1> QED BY <1>3 DEF ControllerInv

LEMMA StepController ==
  ASSUME TypeOK, HistoryInv, ControllerInv, [Next]_vars
  PROVE  ControllerInv'
<1>1. PICK k, r, c, s \in VersionsIn(history) : Tracked(k, r, c, s)
  BY DEF ControllerInv
<1>2. DOMAIN pods = Slots /\ \A slot \in Slots : pods[slot] # None => PodOK(pods[slot])
  BY TypeOKByPod
<1>3. CASE \/ \E part \in Parts : ByOperator(Operator!Read(part))
           \/ ByOperator(Operator!PublishConfig)
           \/ ByOperator(Operator!PublishWorkload)
  BY <1>1, <1>3, ReadKeeps, PublishConfigKeeps, PublishWorkloadKeeps
<1>4. CASE ByOperator(Operator!Again) \/ ByOperator(Operator!Rest)
  BY <1>1, <1>4, EndRunKeeps
<1>5. CASE (\E part \in Parts : ByOperator(Operator!Learn(part))) \/ ByOperator(Operator!LearnConfig)
  BY <1>1, <1>5, LearnKeeps, LearnConfigKeeps
<1>6. CASE \/ ByOperator(Operator!Restart) \/ ByOperator(Operator!Lose)
           \/ ByOperator(Operator!Wake)
  BY <1>1, <1>6, RestartKeeps, LoseKeeps
<1>7. ASSUME NEW slot \in Slots,
             \/ ByKubernetes(CreatePod(slot))
             \/ ByKubernetes(pods' = [pods EXCEPT ![slot] = None])
      PROVE  ControllerInv'
  <2>1. UNCHANGED <<published, history>>
    BY <1>7 DEF ByKubernetes
  <2>2. \/ pods' = [pods EXCEPT ![slot] = NewPod] /\ workload # None
        \/ pods' = [pods EXCEPT ![slot] = None]
    BY <1>7 DEF ByKubernetes, CreatePod
  <2> QED BY <1>1, <1>2, <2>1, <2>2, PodsKeep
<1>8. ASSUME NEW slot \in Slots, ByKubernetes(ConfigInit(slot))
      PROVE  ControllerInv'
  <2> DEFINE pod == Initialised(pods[slot], config, Mounted(slot))
  <2>1. UNCHANGED <<published, history>> /\ ConfigInit(slot) /\ pods[slot] # None
    BY <1>8 DEF ByKubernetes, ConfigInit, Exists
  <2>2. pods' = [pods EXCEPT ![slot] = pod]
    BY <1>2, <2>1, ConfigInitIs
  <2>3. pod.made = pods[slot].made
    BY <1>2, <2>1, InitialisedIs DEF PodOK
  <2> HIDE DEF pod
  <2> QED BY <1>1, <1>2, <2>1, <2>2, <2>3, PodsKeep
<1>9. ASSUME NEW slot \in Slots, ByKubernetes(RenderClients(slot))
      PROVE  ControllerInv'
  <2>1. UNCHANGED <<published, history>> /\ RenderClients(slot) /\ pods[slot] # None
    BY <1>9 DEF ByKubernetes, RenderClients, Exists
  <2>2. PICK seen \in {pods[slot].secrets, Mounted(slot)} :
          pods' = [pods EXCEPT ![slot] = Rendered(pods[slot], wanted["clients"], seen)]
    BY <1>2, <2>1, RenderClientsIs
  <2> DEFINE pod == Rendered(pods[slot], wanted["clients"], seen)
  <2>3. pod.made = pods[slot].made
    BY <1>2, <2>1, RenderedIs DEF PodOK
  <2>4. pods' = [pods EXCEPT ![slot] = pod]
    BY <2>2
  <2> HIDE DEF pod
  <2> QED BY <1>1, <1>2, <2>1, <2>3, <2>4, PodsKeep
<1>10. CASE EditObjects \/ UNCHANGED <<published, pods, history>>
  <2>1. UNCHANGED <<known, draft, stage, config, workload, shown, pods>>
    BY <1>10 DEF EditObjects, Operator!Change, Operator!outputs, published
  <2>2. GoesOn(history, history')
    BY StepHistory
  <2> QED BY <1>1, <2>1, <2>2, EditKeeps
<1> QED BY <1>3, <1>4, <1>5, <1>6, <1>7, <1>8, <1>9, <1>10, NextSteps

-----------------------------------------------------------------------------
(* What pods have read.                                                    *)

LEMMA StepReads ==
  ASSUME TypeOK, HistoryInv, ControllerInv, PodsInv, [Next]_vars
  PROVE  PodsInv'
<1>1. GoesOn(history, history') /\ IsHistory(history)
  BY StepHistory DEF HistoryInv
<1>2. DOMAIN pods = Slots /\ \A slot \in Slots : pods[slot] # None => PodOK(pods[slot])
  BY TypeOKByPod
<1>3. ASSUME NEW slot \in Slots, pods[slot] # None
      PROVE  ReadLater(history', pods[slot])
  BY <1>1, <1>3, ReadLaterStays DEF PodsInv, Exists
<1>4. CASE UNCHANGED pods
  BY <1>3, <1>4 DEF PodsInv, Exists
<1>5. ASSUME NEW slot \in Slots, pods' = [pods EXCEPT ![slot] = None]
      PROVE  PodsInv'
  BY <1>2, <1>3, <1>5 DEF PodsInv, Exists
<1>6. ASSUME NEW slot \in Slots, NEW pod, pods' = [pods EXCEPT ![slot] = pod],
             history' = history, ReadLater(history, pod)
      PROVE  PodsInv'
  BY <1>2, <1>3, <1>6 DEF PodsInv, Exists
<1>7. ASSUME NEW slot \in Slots, ByKubernetes(CreatePod(slot))
      PROVE  PodsInv'
  <2>1. pods' = [pods EXCEPT ![slot] = NewPod] /\ history' = history
    BY <1>7 DEF ByKubernetes, CreatePod
  <2>2. ReadLater(history, NewPod)
    BY DEF ReadLater, NewPod
  <2> QED BY <1>6, <2>1, <2>2
<1>8. ASSUME NEW slot \in Slots, ByKubernetes(ConfigInit(slot))
      PROVE  PodsInv'
  <2> DEFINE pod == Initialised(pods[slot], config, Mounted(slot))
             old == pods[slot]
  <2>1. ConfigInit(slot) /\ old # None /\ config # None /\ history' = history
    BY <1>8 DEF ByKubernetes, ConfigInit, Exists
  <2>2. pods' = [pods EXCEPT ![slot] = pod]
    BY <1>2, <2>1, ConfigInitIs
  <2>3. pod.made = old.made /\ pod.config = config /\ pod.step = "init"
    BY <1>2, <2>1, InitialisedIs DEF PodOK
  <2>4. PICK c \in VersionsIn(history) :
          config \in ConfigsAt(history, c) /\ FromHistory(history, old.made, c)
    BY <2>1 DEF ControllerInv, Tracked, PublishedAt, TemplatesBy, Exists
  <2>5. Older(history, ConfigMapData(old.made.hash.files), c)
    <3>1. PICK u \in VersionsIn(history) : \E ctx \in ContextsOf(AtIn(history, u)) :
            old.made = Template(ctx) /\ Older(history, ConfigMapData(Render(ctx)), c)
      BY <2>4 DEF FromHistory
    <3>2. PICK ctx \in ContextsOf(AtIn(history, u)) :
            old.made = Template(ctx) /\ Older(history, ConfigMapData(Render(ctx)), c)
      BY <3>1
    <3>3. old.made.hash.files = Render(ctx)
      BY <3>2 DEF Template, ConfigHash
    <3> QED BY <3>2, <3>3
  <2> HIDE DEF pod, old
  <2>6. ReadLater(history, pod)
    BY <2>3, <2>4, <2>5 DEF ReadLater
  <2> QED BY <1>6, <2>1, <2>2, <2>6
<1>9. ASSUME NEW slot \in Slots, ByKubernetes(RenderClients(slot))
      PROVE  PodsInv'
  <2> DEFINE old == pods[slot]
             clients == history["clients"]
             j == Len(clients)
  <2>1. /\ RenderClients(slot) /\ old # None /\ old.step = "init" /\ history' = history
    BY <1>9 DEF ByKubernetes, RenderClients, Exists
  <2>2. PICK seen \in {pods[slot].secrets, Mounted(slot)} :
          pods' = [pods EXCEPT ![slot] = Rendered(pods[slot], wanted["clients"], seen)]
    BY <1>2, <2>1, RenderClientsIs
  <2> DEFINE pod == Rendered(pods[slot], wanted["clients"], seen)
  <2>3. /\ pod.made = old.made /\ pod.config = old.config /\ pod.step = "up"
        /\ pod.clients = wanted["clients"]
    BY <1>2, <2>1, RenderedIs DEF PodOK
  <2>4. PICK c \in VersionsIn(history) : FromHistory(history, old.made, c)
    BY <2>1 DEF ControllerInv, Tracked, TemplatesBy, Exists
  <2>5. PICK u \in VersionsIn(history) : \E ctx \in ContextsOf(AtIn(history, u)) :
          old.made = Template(ctx)
    BY <2>4 DEF FromHistory
  <2>6. PICK order \in Listings(Present(clients[u["clients"]])) :
          old.made.hash.clients = HashedClients(Listed(clients[u["clients"]], order))
    <3>1. PICK ctx \in ContextsOf(AtIn(history, u)) : old.made = Template(ctx)
      BY <2>5
    <3>2. AtIn(history, u)["clients"] = clients[u["clients"]]
      BY DEF AtIn, Parts
    <3>3. PICK order \in Listings(Present(clients[u["clients"]])) :
            ctx.clients = Listed(clients[u["clients"]], order)
      BY <3>1, <3>2, ContextIs
    <3>4. old.made.hash.clients = HashedClients(ctx.clients)
      BY <3>1 DEF Template, ConfigHash
    <3> QED BY <3>3, <3>4
  <2>7. /\ j \in DOMAIN clients /\ u["clients"] \in DOMAIN clients /\ u["clients"] <= j
        /\ wanted["clients"] = clients[j]
    <3>1. "clients" \in Parts
      BY DEF Parts
    <3>2. u["clients"] \in DOMAIN clients
      BY <3>1, VersionIn
    <3>3. j \in Nat /\ DOMAIN clients = 1..j /\ j \in DOMAIN clients
      BY <1>1, <3>1, HistoryValues
    <3>4. wanted["clients"] = clients[j]
      BY <3>1 DEF HistoryInv
    <3> HIDE DEF j, clients
    <3>5. u["clients"] <= j
      BY <3>2, <3>3
    <3> QED BY <3>2, <3>3, <3>4, <3>5
  <2>8. ReadLater(history, old)
    BY <2>1 DEF PodsInv, Exists
  <2>9. pods' = [pods EXCEPT ![slot] = pod]
    BY <2>2
  <2> HIDE DEF pod, old, j
  <2>10. ReadLater(history, pod)
    <3>1. \E v \in VersionsIn(history) :
            /\ pod.config \in ConfigsAt(history, v)
            /\ Older(history, ConfigMapData(pod.made.hash.files), v)
      BY <2>1, <2>3, <2>8 DEF ReadLater
    <3>2. \E i, n \in DOMAIN history["clients"] :
            /\ i <= n /\ pod.clients = history["clients"][n]
            /\ \E o \in Listings(Present(history["clients"][i])) :
                 pod.made.hash.clients = HashedClients(Listed(history["clients"][i], o))
      BY <2>3, <2>6, <2>7
    <3> QED BY <3>1, <3>2 DEF ReadLater
  <2> QED BY <1>6, <2>1, <2>9, <2>10
<1> QED BY <1>2, <1>4, <1>5, <1>7, <1>8, <1>9, PodSteps

LEMMA InitReads == ASSUME Init PROVE PodsInv
BY DEF Init, PodsInv, Exists

-----------------------------------------------------------------------------
(* The invariant holds at first and is kept by every step.                 *)

THEOREM Inductive == Spec => []IInv
<1>1. Init => IInv
  BY InitType, InitHistory, InitController, InitReads, InitRest DEF IInv
<1>2. IInv /\ [Next]_vars => IInv'
  <2> SUFFICES ASSUME IInv, [Next]_vars PROVE IInv'
    OBVIOUS
  <2>1. TypeOK /\ HistoryInv /\ ControllerInv /\ PodsInv /\ RestInv
    BY DEF IInv
  <2>2. awake \in BOOLEAN
    BY <2>1 DEF TypeOK
  <2>3. TypeOK' /\ HistoryInv' /\ ControllerInv' /\ PodsInv' /\ RestInv'
    BY <2>1, <2>2, StepType, StepHistory, StepController, StepReads, StepRest
  <2> QED BY <2>3 DEF IInv
<1> QED BY <1>1, <1>2, PTL DEF Spec

(* A pod goes through its containers in order, and every volume of its     *)
(* template is there by the first of them.                                 *)
THEOREM TypeCorrect == Spec => []TypeOK
<1>1. IInv => TypeOK
  BY DEF IInv
<1> QED BY <1>1, Inductive, PTL

-----------------------------------------------------------------------------
(* Verdicts and sites.                                                     *)

LEMMA VerdictsAloneAre ==
  ASSUME NEW objects, WellFormedObjects(objects), NEW ctx \in ContextsOf(objects)
  PROVE  LET modules == ctx.cluster.modules
             invalid == \E m \in ToSet(modules) : ~ValidModule(m)
         IN VerdictsAlone(ctx) =
              {IF invalid THEN "error" ELSE FirstFailure(Each(modules, ModuleVerdict))}
                \cup {IF ~ValidClient(c) THEN "error" ELSE "ok" : c \in ToSet(ctx.clients)}
                \cup {IF ~ValidPolicy(p) THEN "error"
                      ELSE IF SiteVerdict(p) = "typed" THEN "typed" ELSE "ok" :
                        p \in ToSet(ctx.policies)}
<1> DEFINE empty == [cluster |-> [ctx.cluster EXCEPT !.modules = << >>],
                     clients |-> << >>, policies |-> << >>]
<1>1. "modules" \in DOMAIN ctx.cluster
  BY ContextLists, WellFormedParts
<1>2. [ctx.cluster EXCEPT !.modules = << >>].modules = << >>
  BY <1>1
<1>3. Verdict([empty EXCEPT !.cluster = ctx.cluster]) =
        IF \E m \in ToSet(ctx.cluster.modules) : ~ValidModule(m) THEN "error"
        ELSE FirstFailure(Each(ctx.cluster.modules, ModuleVerdict))
  <2> DEFINE alone == [empty EXCEPT !.cluster = ctx.cluster]
  <2>1. alone.cluster = ctx.cluster /\ alone.clients = << >> /\ alone.policies = << >>
    OBVIOUS
  <2>2. \E n \in Nat : DOMAIN alone.cluster.modules = 1..n
    BY <2>1, ContextLists
  <2> HIDE DEF alone
  <2>3. Verdict(alone) = IF \E m \in ToSet(ctx.cluster.modules) : ~ValidModule(m) THEN "error"
                         ELSE FirstFailure(Each(ctx.cluster.modules, ModuleVerdict))
    BY <2>1, <2>2, VerdictOfCluster
  <2> QED BY <2>3 DEF alone
<1>4. ASSUME NEW c
      PROVE  Verdict([empty EXCEPT !.clients = <<c>>]) = IF ~ValidClient(c) THEN "error" ELSE "ok"
  <2> DEFINE alone == [empty EXCEPT !.clients = <<c>>]
  <2>1. alone.cluster.modules = << >> /\ alone.clients = <<c>> /\ alone.policies = << >>
    BY <1>2
  <2> HIDE DEF alone
  <2>2. Verdict(alone) = IF ~ValidClient(c) THEN "error" ELSE "ok"
    BY <2>1, VerdictOfClient
  <2> QED BY <2>2 DEF alone
<1>5. ASSUME NEW p
      PROVE  Verdict([empty EXCEPT !.policies = <<p>>]) =
               IF ~ValidPolicy(p) THEN "error"
               ELSE IF SiteVerdict(p) = "typed" THEN "typed" ELSE "ok"
  <2> DEFINE alone == [empty EXCEPT !.policies = <<p>>]
  <2>1. alone.cluster.modules = << >> /\ alone.clients = << >> /\ alone.policies = <<p>>
    BY <1>2
  <2> HIDE DEF alone
  <2>2. Verdict(alone) = IF ~ValidPolicy(p) THEN "error"
                         ELSE IF SiteVerdict(p) = "typed" THEN "typed" ELSE "ok"
    BY <2>1, VerdictOfPolicy
  <2> QED BY <2>2 DEF alone
<1>6. VerdictsAlone(ctx) =
        {Verdict([empty EXCEPT !.cluster = ctx.cluster])}
          \cup {Verdict([empty EXCEPT !.clients = <<c>>]) : c \in ToSet(ctx.clients)}
          \cup {Verdict([empty EXCEPT !.policies = <<p>>]) : p \in ToSet(ctx.policies)}
  BY DEF VerdictsAlone
<1> HIDE DEF empty
<1> QED BY <1>3, <1>4, <1>5, <1>6

LEMMA VerdictIsByElement ==
  ASSUME NEW objects, WellFormedObjects(objects), NEW ctx \in ContextsOf(objects)
  PROVE  LET alone == VerdictsAlone(ctx)
         IN Verdict(ctx) = CASE "error" \in alone -> "error"
                             [] "error" \notin alone /\ "typed" \in alone -> "typed"
                             [] OTHER -> "ok"
<1> DEFINE modules == ctx.cluster.modules
           clients == ToSet(ctx.clients)
           policies == ToSet(ctx.policies)
           alone == VerdictsAlone(ctx)
           invalid == \E m \in ToSet(modules) : ~ValidModule(m)
           built == FirstFailure(Each(modules, ModuleVerdict))
<1>1. alone = {IF invalid THEN "error" ELSE built}
                \cup {IF ~ValidClient(c) THEN "error" ELSE "ok" : c \in clients}
                \cup {IF ~ValidPolicy(p) THEN "error"
                      ELSE IF SiteVerdict(p) = "typed" THEN "typed" ELSE "ok" : p \in policies}
  BY VerdictsAloneAre
<1>2. Verdict(ctx) = IF ClientFails(clients) \/ invalid \/ PolicyFails(policies) THEN "error"
                     ELSE IF built # "ok" THEN built
                     ELSE IF SiteFails(policies) THEN "typed" ELSE "ok"
  BY ContextLists, VerdictIs DEF VerdictOn
<1>3. built \in {"ok", "error", "typed"}
  BY ContextLists, BuiltIs
<1> HIDE DEF modules, clients, policies, alone, invalid, built
<1>4. "error" \in alone <=>
        ClientFails(clients) \/ invalid \/ PolicyFails(policies) \/ built = "error"
  BY <1>1 DEF ClientFails, PolicyFails
<1>5. "error" \notin alone => ("typed" \in alone <=> built = "typed" \/ SiteFails(policies))
  BY <1>1, <1>4 DEF PolicyFails, SiteFails
<1>6. Verdict(ctx) = CASE "error" \in alone -> "error"
                       [] "error" \notin alone /\ "typed" \in alone -> "typed"
                       [] OTHER -> "ok"
  BY <1>2, <1>3, <1>4, <1>5
<1> QED BY <1>6 DEF alone

(* What Render says of a cluster is what it says of its objects one by     *)
(* one: an error that is worth a retry is met before any that is not.      *)
THEOREM VerdictsByElement == Spec => []VerdictByElement
<1>1. IInv => VerdictByElement
  <2> SUFFICES ASSUME IInv, Operator!Complete
               PROVE  LET alone == VerdictsAlone(Context(draft))
                      IN Verdict(Context(draft)) =
                           CASE "error" \in alone -> "error"
                             [] "error" \notin alone /\ "typed" \in alone -> "typed"
                             [] OTHER -> "ok"
    BY DEF VerdictByElement
  <2>1. PICK r \in VersionsIn(history) : ReadAt(r)
    BY DEF IInv, ControllerInv, Tracked
  <2>2. Context(draft) \in ContextsOf(AtIn(history, r))
    BY <2>1, DraftIsOf
  <2>3. WellFormedObjects(AtIn(history, r))
    BY AtWellFormed DEF IInv, HistoryInv
  <2> QED BY <2>2, <2>3, VerdictIsByElement
<1> QED BY <1>1, Inductive, PTL

(* However the informer lists policies of different priorities, they are   *)
(* rendered to the same site.                                              *)
THEOREM SitesDoNotDependOnListing == Spec => []SitesIgnoreListing
<1>1. IInv => SitesIgnoreListing
  <2> SUFFICES ASSUME IInv, PrioritiesDiffer,
                      NEW o \in Listings(Present(wanted["policies"])),
                      NEW n \in Listings(Present(wanted["policies"]))
               PROVE  Sites(Listed(wanted["policies"], o), wanted["cluster"].coa)
                        = Sites(Listed(wanted["policies"], n), wanted["cluster"].coa)
    BY DEF SitesIgnoreListing
  <2>1. WellFormedObjects(wanted)
    BY WantedClients DEF IInv, HistoryInv
  <2>2. Differ(wanted["policies"])
    BY DEF PrioritiesDiffer, Differ
  <2> QED BY <2>1, <2>2, WellFormedParts, SameSites
<1> QED BY <1>1, Inductive, PTL

-----------------------------------------------------------------------------
(* What pods run with when the operator is at rest.                        *)

(* What is published is what a run makes of the current objects.           *)
LEMMA AtRest ==
  ASSUME IInv, ~awake, Acceptable
  PROVE  \E ctx \in ContextsOf(wanted) :
           config = ConfigMapData(Render(ctx)) /\ workload = Template(ctx)
<1>1. WellFormedObjects(wanted) /\ Operator!Settled
  BY WantedClients DEF IInv, HistoryInv, RestInv
<1>2. Operator!DraftsOf(wanted) # {}
  <2> DEFINE d == [part \in Parts |-> CHOOSE reading : reading \in Readings(part, wanted[part])]
  <2>1. \A part \in Parts : d[part] \in Readings(part, wanted[part])
    BY <1>1, SomeReading
  <2> HIDE DEF d
  <2>2. d = [part \in Parts |-> d[part]]
    BY DEF d
  <2>3. d \in Operator!DraftsOf(wanted)
    BY <2>1, <2>2 DEF Operator!DraftsOf
  <2> QED BY <2>3
<1>3. PICK d \in Operator!DraftsOf(wanted) :
        Refused(d) \/ (config = ConfigFor(d) /\ workload = WorkloadFor(d))
  BY <1>1, <1>2 DEF Operator!Settled
<1>4. Context(d) \in ContextsOf(wanted)
  <2>1. \A part \in Parts : d[part] \in Readings(part, wanted[part])
    BY <1>3 DEF Operator!DraftsOf
  <2> QED BY <2>1, DraftContext
<1>5. Verdict(Context(d)) = "ok"
  BY <1>1, <1>4, SameVerdict DEF Acceptable
<1>6. config = ConfigFor(d) /\ workload = WorkloadFor(d)
  BY <1>3, <1>5 DEF Refused
<1> QED BY <1>4, <1>6 DEF ConfigFor, WorkloadFor

(* A pod that started later than its template was published has files that *)
(* were asked for later, which are those of now unless there was a way     *)
(* back.                                                                   *)
LEMMA FilesMatch ==
  ASSUME IInv, ~Reverted, NEW s \in Slots, Exists(s), pods[s].step # "new",
         NEW ctx \in ContextsOf(wanted), pods[s].made = Template(ctx)
  PROVE  FilesIn(pods[s].config) \in FilesWanted
<1> DEFINE made == ConfigMapData(Render(ctx))
<1>1. pods[s].made.hash.files = Render(ctx)
  BY DEF Template, ConfigHash
<1>2. PICK v \in VersionsIn(history) :
        pods[s].config \in ConfigsAt(history, v) /\ Older(history, made, v)
  BY <1>1 DEF IInv, PodsInv, ReadLater
<1>3. PICK u \in VersionsIn(history) : NotAfter(u, v) /\ made \in ConfigsAt(history, u)
  BY <1>2 DEF Older
<1>4. FilesIn(made) \in FilesWanted
  BY DEF FilesWanted, FilesOfObjects
<1>5. /\ FilesIn(made) \in FilesOfObjects(At(u))
      /\ FilesIn(pods[s].config) \in FilesOfObjects(At(v))
  BY <1>2, <1>3 DEF ConfigsAt, FilesOfObjects, At, AtIn
<1>6. u \in Versions /\ v \in Versions
  BY DEF Versions, VersionsIn
<1> DEFINE f == <<u, FilesOfObjects(At(u))>>
           g == <<v, FilesOfObjects(At(v))>>
<1>7. NotAfter(f[1], g[1]) /\ f[2] \cap FilesWanted # {} => g[2] \subseteq FilesWanted
  BY <1>6 DEF Reverted
<1>8. FilesOfObjects(At(v)) \subseteq FilesWanted
  BY <1>3, <1>4, <1>5, <1>7
<1> QED BY <1>5, <1>8

LEMMA ClientsMatch ==
  ASSUME IInv, ~Reverted, NEW s \in Slots, Up(s),
         NEW ctx \in ContextsOf(wanted), pods[s].made = Template(ctx)
  PROVE  LiveClients(pods[s].clients) = LiveClients(wanted["clients"])
<1> DEFINE values == history["clients"]
<1>1. ReadLater(history, pods[s]) /\ pods[s].step = "up"
  BY DEF IInv, PodsInv, Up
<1>2. PICK i, j \in DOMAIN values :
        /\ i <= j /\ pods[s].clients = values[j]
        /\ \E order \in Listings(Present(values[i])) :
             pods[s].made.hash.clients = HashedClients(Listed(values[i], order))
  BY <1>1 DEF ReadLater
<1>3. PICK order \in Listings(Present(values[i])) :
        pods[s].made.hash.clients = HashedClients(Listed(values[i], order))
  BY <1>2
<1>4. PICK now \in Listings(Present(wanted["clients"])) : ctx.clients = Listed(wanted["clients"], now)
  BY ContextIs
<1>5. HashedClients(Listed(values[i], order)) = HashedClients(Listed(wanted["clients"], now))
  BY <1>3, <1>4 DEF Template, ConfigHash
<1>6. /\ IsFiniteSet(Present(values[i]))
      /\ \A name \in Present(values[i]) : values[i][name].name = name
  <2>1. "clients" \in Parts /\ IsHistory(history)
    BY DEF Parts, IInv, HistoryInv
  <2>2. WellFormed("clients", values[i])
    BY <2>1, HistoryValues
  <2>3. /\ IsFiniteSet(DOMAIN values[i])
        /\ \A name \in Present(values[i]) : values[i][name].name = name
    BY <2>2 DEF WellFormed
  <2>4. Present(values[i]) \in SUBSET DOMAIN values[i]
    BY DEF Present
  <2> QED BY <2>3, <2>4, FS_Subset
<1>7. WellFormedObjects(wanted)
  BY WantedClients DEF IInv, HistoryInv
<1>8. LiveClients(values[i]) = LiveClients(wanted["clients"])
  BY <1>5, <1>6, <1>7, WellFormedParts, SameClients
<1>9. i < j => LiveClients(values[j]) = LiveClients(values[i])
  BY <1>8 DEF Reverted
<1>10. i < j \/ i = j
  <2>1. DOMAIN values = 1..Len(values) /\ Len(values) \in Nat
    BY HistoryValues DEF IInv, HistoryInv, Parts
  <2> DEFINE n == Len(values)
  <2> HIDE DEF n, values
  <2>2. i \in 1..n /\ j \in 1..n /\ n \in Nat
    BY <2>1 DEF n
  <2> QED BY <1>2, <2>2
<1> QED BY <1>2, <1>8, <1>9, <1>10

(* At rest, a pod of the current template has the files and the clients of *)
(* the current objects, whichever caches lagged when it was made, unless   *)
(* an edit was taken back.                                                 *)
THEOREM PodsMatch == Spec => []PodsMatchInputs
<1>1. IInv => PodsMatchInputs
  <2> SUFFICES ASSUME IInv, ~awake, Acceptable, ~Reverted, NEW s \in Slots, OfTemplate(s)
               PROVE  /\ pods[s].step # "new" => FilesIn(pods[s].config) \in FilesWanted
                      /\ Up(s) => LiveClients(pods[s].clients) = LiveClients(wanted["clients"])
    BY DEF PodsMatchInputs
  <2>1. PICK ctx \in ContextsOf(wanted) : workload = Template(ctx)
    BY AtRest
  <2>2. Exists(s) /\ pods[s].made = Template(ctx)
    BY <2>1 DEF OfTemplate
  <2> QED BY <2>2, FilesMatch, ClientsMatch
<1> QED BY <1>1, Inductive, PTL

(* At rest, such a pod finds the enabled modules of its cluster where      *)
(* radiusd looks for them, and no others.                                  *)
THEOREM ModulesAreLoaded == Spec => []ModulesLoaded
<1>1. IInv => ModulesLoaded
  <2> SUFFICES ASSUME IInv, ~awake, Acceptable, ~Reverted,
                      NEW s \in Slots, OfTemplate(s), pods[s].step # "new"
               PROVE  LoadedBy(pods[s]) =
                        {m.name : m \in {n \in ToSet(wanted["cluster"].modules) : n.enabled}}
                          \ DOMAIN Pieces
    BY DEF ModulesLoaded
  <2>1. PICK made \in ContextsOf(wanted) : workload = Template(made)
    BY AtRest
  <2>2. Exists(s) /\ pods[s].made = Template(made)
    BY <2>1 DEF OfTemplate
  <2>3. FilesIn(pods[s].config) \in FilesWanted
    BY <2>1, <2>2, FilesMatch
  <2>4. PICK ctx \in ContextsOf(wanted) :
          FilesIn(pods[s].config) = FilesIn(ConfigMapData(Render(ctx)))
    BY <2>3 DEF FilesWanted, FilesOfObjects
  <2> DEFINE keys == DOMAIN pods[s].config
             others == DOMAIN ConfigMapData(Render(ctx))
  <2>5. keys \ {<<"clients.conf">>} = others \ {<<"clients.conf">>}
    <3>1. /\ DOMAIN FilesIn(pods[s].config) = keys \ {<<"clients.conf">>}
          /\ DOMAIN FilesIn(ConfigMapData(Render(ctx))) = others \ {<<"clients.conf">>}
      BY DEF FilesIn
    <3> QED BY <2>4, <3>1
  <2>6. ~IsModuleKey(<<"clients.conf">>)
    BY DEF IsModuleKey
  <2>7. LoadedBy(pods[s]) = {Last(key) : key \in {k \in keys : IsModuleKey(k)}}
    BY DEF LoadedBy, IsModuleKey
  <2> HIDE DEF keys, others
  <2>8. {k \in keys : IsModuleKey(k)} = {k \in others : IsModuleKey(k)}
    BY <2>5, <2>6
  <2>9. WellFormedObjects(wanted)
    BY WantedClients DEF IInv, HistoryInv
  <2> QED BY <2>7, <2>8, <2>9, ModuleKeys DEF others
<1> QED BY <1>1, Inductive, PTL

(* Which Secrets a template names does not depend on how its objects were  *)
(* listed.                                                                 *)
LEMMA SameSecrets ==
  ASSUME NEW objects, WellFormedObjects(objects),
         NEW c \in ContextsOf(objects), NEW d \in ContextsOf(objects)
  PROVE  collectSecretRefs(c) = collectSecretRefs(d)
  BY ContextLists DEF collectSecretRefs

(* What a pod of the current template has mounted is what any rendering of *)
(* the current objects refers to.                                          *)
LEMMA VolumesAtRest ==
  ASSUME IInv, ~awake, Acceptable, NEW s \in Slots, OfTemplate(s), pods[s].step # "new",
         NEW ctx \in ContextsOf(wanted)
  PROVE  /\ DOMAIN pods[s].secrets = collectSecretRefs(ctx)
         /\ Up(s) => DOMAIN pods[s].clientSecrets = collectSecretRefs(ctx)
<1>1. PICK c \in ContextsOf(wanted) : workload = Template(c)
  BY AtRest
<1>2. pods[s].made.secrets = collectSecretRefs(c)
  BY <1>1 DEF OfTemplate, Template
<1>3. WellFormedObjects(wanted)
  BY WantedClients DEF IInv, HistoryInv
<1>4. collectSecretRefs(c) = collectSecretRefs(ctx)
  BY <1>3, SameSecrets
<1>5. /\ DOMAIN pods[s].secrets = pods[s].made.secrets
      /\ Up(s) => DOMAIN pods[s].clientSecrets = pods[s].made.secrets
  BY DEF IInv, TypeOK, OfTemplate
<1> QED BY <1>2, <1>4, <1>5

(* With the operator at rest, a pod of the current template has the volume *)
(* of every Secret its files refer to, for every list of modules: which    *)
(* Secrets are mounted covers which references are rendered.               *)
THEOREM PasswordsAreMounted == Spec => []PasswordsMounted
<1>1. IInv => PasswordsMounted
  <2> SUFFICES ASSUME IInv, ~awake, Acceptable, ~Reverted, NEW s \in Slots,
                      OfTemplate(s), pods[s].step # "new",
                      NEW key \in DOMAIN FilesIn(pods[s].config),
                      NEW ref \in pods[s].config[key].refs
               PROVE  ref.name \in DOMAIN pods[s].secrets
    BY DEF PasswordsMounted
  <2>1. PICK c \in ContextsOf(wanted) : workload = Template(c)
    BY AtRest
  <2>2. pods[s].made = Template(c) /\ Exists(s)
    BY <2>1 DEF OfTemplate
  <2>3. FilesIn(pods[s].config) \in FilesWanted
    BY <2>2, FilesMatch
  <2>4. PICK ctx \in ContextsOf(wanted) :
          FilesIn(pods[s].config) = FilesIn(ConfigMapData(Render(ctx)))
    BY <2>3 DEF FilesWanted, FilesOfObjects
  <2>5. /\ key \in DOMAIN ConfigMapData(Render(ctx))
        /\ ConfigMapData(Render(ctx))[key] = pods[s].config[key]
    <3>1. key \in DOMAIN FilesIn(ConfigMapData(Render(ctx)))
      BY <2>4
    <3>2. FilesIn(ConfigMapData(Render(ctx)))[key] = FilesIn(pods[s].config)[key]
      BY <2>4
    <3> QED BY <3>1, <3>2 DEF FilesIn
  <2>6. WellFormedObjects(wanted)
    BY WantedClients DEF IInv, HistoryInv
  <2>7. ref.name \in collectSecretRefs(ctx)
    BY <2>5, <2>6, ConfigRefsMounted
  <2> QED BY <2>7, VolumesAtRest
<1> QED BY <1>1, Inductive, PTL

(* And of the Secret of every client it has listed when it started, which  *)
(* may be long after its template was made.                                *)
THEOREM ClientsAreMounted == Spec => []ClientsMounted
<1>1. IInv => ClientsMounted
  <2> SUFFICES ASSUME IInv, ~awake, Acceptable, ~Reverted, NEW s \in Slots,
                      Up(s), OfTemplate(s), NEW name \in Present(pods[s].clients)
               PROVE  pods[s].clients[name].secret.name \in DOMAIN pods[s].clientSecrets
    BY DEF ClientsMounted
  <2>1. PICK ctx \in ContextsOf(wanted) : workload = Template(ctx)
    BY AtRest
  <2>2. LiveClients(pods[s].clients) = LiveClients(wanted["clients"])
    BY <2>1, ClientsMatch DEF OfTemplate
  <2>3. /\ name \in Present(wanted["clients"])
        /\ pods[s].clients[name].secret = wanted["clients"][name].secret
    BY <2>2 DEF LiveClients
  <2>4. WellFormedObjects(wanted)
    BY WantedClients DEF IInv, HistoryInv
  <2>5. pods[s].clients[name].secret.name \in collectSecretRefs(ctx)
    BY <2>3, <2>4, ClientMounted
  <2>6. pods[s].step # "new"
    BY DEF Up
  <2> QED BY <2>5, <2>6, VolumesAtRest
<1> QED BY <1>1, Inductive, PTL

================================================================================
