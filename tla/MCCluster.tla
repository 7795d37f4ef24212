----------------------------- MODULE MCCluster -----------------------------
(***************************************************************************)
(* The NIBI side, in one run: the jobs on run_root under every order of    *)
(* commands (NibiCluster), what a job is given to read (ClusterInputs),    *)
(* and the scripts that train, pull and promote by hand (HandPromotion).   *)
(* The initial state chooses the part that runs; the others stay at rest.  *)
(***************************************************************************)
EXTENDS NibiCluster, ClusterInputs, HandPromotion

VARIABLE which   \* the part that runs

ClusterTypeOK == which \in {"cluster", "inputs", "hand"} /\ InputsTypeOK /\ HandTypeOK

\* One initial state for the inputs when they do not run.
InputsAtRest == which # "inputs" => active = {"daily"} /\ days = {}

MCInit == /\ which \in {"cluster", "inputs", "hand"}
          /\ Init /\ InputsInit /\ InputsAtRest /\ HandInit

MCNext ==
  \/ which = "cluster" /\ Next /\ UNCHANGED <<which, inputVars, handVars>>
  \/ which = "inputs" /\ InputsNext /\ UNCHANGED <<which, clusterVars, handVars>>
  \/ which = "hand" /\ HandNext /\ UNCHANGED <<which, clusterVars, inputVars>>

MCSpec == MCInit /\ [][MCNext]_<<which, clusterVars, inputVars, handVars>>
=============================================================================
