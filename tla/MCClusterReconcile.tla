------------------------ MODULE MCClusterReconcile ------------------------
(***************************************************************************)
(* Instances of ClusterReconcile for TLC.  Two cluster specs render the    *)
(* same files with different images; a third has an invalid module.  A     *)
(* client spec refers to a Secret; one fails the renderer's validation     *)
(* with a wrapped error.  A policy spec has a bad stage.                   *)
(***************************************************************************)
EXTENDS ClusterPublisher, TLC

CONSTANTS c1, c2, p1,               \* objects
          old, new, badModule,      \* cluster specs
          nas, nasOther, badIP,     \* client specs
          goodPolicy, badStage,     \* policy specs
          k1                        \* a Secret

MCSecretsOf == [s \in ClusterSpecs \cup ClientSpecs |->
                  IF s \in {nas, nasOther} THEN {k1} ELSE {}]
MCImageOf == [s \in ClusterSpecs |-> s]
MCConfigOf == [s \in ClusterSpecs |-> IF s = new THEN old ELSE s]
MCTypedInvalid == {badModule, badStage}
MCUnrenderable == {badIP}

Symmetry == Permutations(Clients)

=============================================================================
