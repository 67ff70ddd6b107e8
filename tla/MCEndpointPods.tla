--------------------------- MODULE MCEndpointPods ---------------------------
(***************************************************************************)
(* Instances of EndpointPods, with the specs of MCEndpoints.               *)
(***************************************************************************)
EXTENDS EndpointPods, MCEndpoints

=============================================================================
