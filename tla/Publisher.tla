------------------------------- MODULE Publisher -------------------------------
(***************************************************************************)
(* What a level-triggered controller with two dependent outputs promises.  *)
(* It reads a number of parts (objects, or lists of objects) one by one    *)
(* from caches, renders what it has read to a configuration, publishes     *)
(* that, then publishes the workload that is to run with it, and rests     *)
(* only when both are what the objects ask for.                            *)
(*                                                                         *)
(* The abstract specification of the RadiusCluster controller, with its    *)
(* ConfigMap as the configuration and its Deployment as the workload:      *)
(* ClusterPublisher shows that the controller implements it, Pods puts     *)
(* pods on top of it.                                                      *)
(***************************************************************************)
CONSTANTS
  Parts,            \* the parts
  Readings(_, _),   \* what reading a part of some value yields; {} if it fails
  Accepted(_),      \* a complete draft can be rendered
  Refused(_),       \* a complete draft can not, and is not worth trying again
  ConfigFor(_),     \* the configuration a complete draft is rendered to
  WorkloadFor(_),   \* the workload that runs with it
  None              \* a part not read, an object that does not exist

VARIABLES
  wanted,     \* the value of each part
  known,      \* the value of each part in the caches
  draft,      \* what the current run has read of each part
  stage,      \* what the current run has published
  config, workload,   \* what is published
  shown,      \* the configuration in the cache
  awake       \* the controller has something left to do

inputs == <<wanted, known>>
outputs == <<config, workload, shown>>
vars == <<wanted, known, draft, stage, config, workload, shown, awake>>

Blank == [part \in Parts |-> None]
Complete == \A part \in Parts : draft[part] # None

(* The drafts a run makes that reads all parts as they are.                *)
DraftsOf(values) ==
  LET readings == [part \in Parts |-> Readings(part, values[part])]
  IN {d \in [Parts -> UNION {readings[part] : part \in Parts}] :
        \A part \in Parts : d[part] \in readings[part]}

(* Nothing to publish, published, or rejected.                             *)
Settled ==
  LET drafts == DraftsOf(wanted)
  IN drafts # {} =>
       \E d \in drafts : \/ Refused(d)
                         \/ config = ConfigFor(d) /\ workload = WorkloadFor(d)

EndRun == draft' = Blank /\ stage' = "reading"

-----------------------------------------------------------------------------
Read(part) ==
  /\ awake /\ stage = "reading" /\ draft[part] = None
  /\ \E reading \in Readings(part, known[part]) :
       draft' = [draft EXCEPT ![part] = reading]
  /\ UNCHANGED <<inputs, outputs, stage, awake>>

PublishConfigIfAbsent ==   \* mutant: the configuration is created, never updated
  /\ awake /\ stage = "reading" /\ Complete /\ Accepted(draft)
  /\ config' = IF shown = None THEN ConfigFor(draft) ELSE config
  /\ \/ stage' = "configured" /\ UNCHANGED draft
     \/ EndRun
  /\ UNCHANGED <<inputs, workload, shown, awake>>

(* The write is left out if the cache has the result already.  A run may   *)
(* fail although its write was accepted.                                   *)
PublishConfig ==
  /\ awake /\ stage = "reading" /\ Complete /\ Accepted(draft)
  /\ \/ config' = ConfigFor(draft)
     \/ shown # None /\ shown = ConfigFor(draft) /\ UNCHANGED config
  /\ \/ stage' = "configured" /\ UNCHANGED draft
     \/ EndRun
  /\ UNCHANGED <<inputs, workload, shown, awake>>

PublishWorkload ==
  /\ awake /\ stage = "configured"
  /\ workload' = WorkloadFor(draft)
  /\ \/ stage' = "published" /\ UNCHANGED draft
     \/ EndRun
  /\ UNCHANGED <<inputs, config, shown, awake>>

(* The run ends, well or with an error, and there will be another.         *)
Again ==
  /\ awake
  /\ EndRun
  /\ UNCHANGED <<inputs, outputs, awake>>

Rest ==
  /\ awake /\ Settled
  /\ awake' = FALSE
  /\ EndRun
  /\ UNCHANGED <<inputs, outputs>>

Run == (\E part \in Parts : Read(part)) \/ PublishConfig \/ PublishWorkload \/ Again \/ Rest

-----------------------------------------------------------------------------
(* The caches; a new process.                                              *)
Learn(part) ==
  /\ known' = [known EXCEPT ![part] = wanted[part]]
  /\ UNCHANGED <<wanted, draft, stage, outputs, awake>>

LearnConfig ==
  /\ shown' = config
  /\ UNCHANGED <<inputs, draft, stage, config, workload, awake>>

Restart ==
  /\ known' = wanted /\ shown' = config
  /\ EndRun
  /\ awake' \in BOOLEAN /\ (awake' \/ Settled)
  /\ UNCHANGED <<wanted, config, workload>>

(* The rest of the world: every change of an object wakes the controller.  *)
Change(part) ==
  /\ wanted' = [wanted EXCEPT ![part] = wanted'[part]]
  /\ awake' = TRUE
  /\ UNCHANGED <<known, draft, stage, outputs>>

Lose ==
  /\ \/ config' = None /\ UNCHANGED workload
     \/ workload' = None /\ UNCHANGED config
  /\ awake' = TRUE
  /\ UNCHANGED <<inputs, draft, stage, shown>>

Wake ==
  /\ awake' = TRUE
  /\ UNCHANGED <<inputs, draft, stage, outputs>>

Next ==
  \/ Run
  \/ \E part \in Parts : Learn(part) \/ Change(part)
  \/ LearnConfig
  \/ Restart
  \/ Lose
  \/ Wake

Init ==
  /\ known = wanted /\ draft = Blank /\ stage = "reading"
  /\ config = None /\ workload = None /\ shown = None
  /\ awake = TRUE

Spec == Init /\ [][Next]_vars

=============================================================================
