--------------------------- MODULE ClusterPublisher ---------------------------
(***************************************************************************)
(* The RadiusCluster controller implements Publisher.  The parts are the   *)
(* cluster, its clients and its policies; the published configuration is   *)
(* the ConfigMap, the workload the Deployment.  Secrets, the status, the   *)
(* queue, the delayed list and every reason why a run fails are details    *)
(* the abstract specification does not have.                               *)
(***************************************************************************)
EXTENDS ClusterReconcile

Parts == {"cluster", "clients", "policies"}

(* A cluster that is gone can not be read; a List returns the clients in   *)
(* any order.                                                              *)
Readings(part, value) ==
  CASE part = "cluster"  -> IF value = None THEN {}
                                            ELSE {<<"cluster", value.uid, value.spec>>}
    [] part = "clients"  -> {<<"clients", value, o>> : o \in Listings(Present(value))}
    [] part = "policies" -> {<<"policies", value>>}

RunOf(draft) == [uid |-> draft["cluster"][2], spec |-> draft["cluster"][3],
                 clients |-> draft["clients"][2], order |-> draft["clients"][3],
                 policies |-> draft["policies"][2]]

Accepted(draft) == Renders(ElementsOf(RunOf(draft)))
Refused(draft) == RejectsTyped(ElementsOf(RunOf(draft)))
ConfigFor(draft) == ConfigMapOf(RunOf(draft))
WorkloadFor(draft) == DeploymentOf(RunOf(draft))

(* What a run has read, and what it has published, when it stands at some  *)
(* label of Reconcile.                                                     *)
HasRead(part, label) ==
  CASE part = "cluster"  -> label \notin {"idle", "get"}
    [] part = "clients"  -> label \notin {"idle", "get", "clients"}
    [] part = "policies" -> label \in AfterReads

ReadingOf(part, r) ==
  CASE part = "cluster"  -> <<"cluster", r.uid, r.spec>>
    [] part = "clients"  -> <<"clients", r.clients, r.order>>
    [] part = "policies" -> <<"policies", r.policies>>

DraftAt(label, r) ==
  [part \in Parts |-> IF HasRead(part, label) THEN ReadingOf(part, r) ELSE None]

StageAt(label) ==
  CASE label = "deployment"                    -> "configured"
    [] label \in {"others", "fields", "flush"} -> "published"
    [] OTHER                                   -> "reading"

Inputs(objects) == [part \in Parts |-> objects[part]]

(* None is no reading and no configuration.                                *)
PossibleReadings == ({"cluster"} \X Nat \X ClusterSpecs)
                      \cup ({"clients"} \X ClientMaps \X Seq(Clients))
                      \cup ({"policies"} \X PolicyMaps)
PossibleConfigs == [uid : Nat, files : FilesType, refs : SUBSET Secrets]
ASSUME NoneIsNoReading == None \notin PossibleReadings \cup PossibleConfigs

Awake == pc # "idle" \/ Pending

Abstract == INSTANCE Publisher WITH
  wanted <- Inputs(store), known <- Inputs(cache),
  draft <- DraftAt(pc, run), stage <- StageAt(pc),
  config <- store["configMap"], workload <- store["deployment"],
  shown <- cache["configMap"],
  awake <- Awake

(* Every run of the controller, with all its conflicts, failed calls and   *)
(* restarts, looks from outside like one of Publisher: what is published   *)
(* is always one complete rendering of accepted objects as they were read, *)
(* the Deployment only after the ConfigMap it was computed with, and the   *)
(* controller stops only when both are what the objects ask for.           *)
ImplementsPublisher == Abstract!Spec

=============================================================================
