----------------------------- MODULE MCEndpoints -----------------------------
(***************************************************************************)
(* Instances of Endpoints: the unified topology without autoscaling, the   *)
(* split topology with one and with two roles, of which auth is in every   *)
(* one and autoscaled in one, and the unified topology with autoscaling.   *)
(***************************************************************************)
EXTENDS Endpoints

CONSTANTS all, auth, acct, coa,                     \* endpoints
          plain, split, splitScaled, plainScaled    \* cluster specs

MCUnifiedSpecs == Specs \cap {plain, plainScaled}
MCServicesOf == [s \in Specs \ MCUnifiedSpecs |->
                   IF s = splitScaled THEN {auth} ELSE {auth, acct}]
MCAutoscaledOf == [s \in Specs |-> CASE s = plainScaled -> {all}
                                     [] s = splitScaled -> {auth}
                                     [] OTHER -> {}]
\* The CRD has no minimum for the replicas of a role.
MCReplicasOf == [s \in Specs |-> [n \in Names |-> CASE n # all -> 0
                                                   [] s = splitScaled -> 2
                                                   [] OTHER -> 1]]
MCWithPDB == Specs \cap {plain}

=============================================================================
