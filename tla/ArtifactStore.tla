--------------------------- MODULE ArtifactStore ---------------------------
(***************************************************************************)
(* model_artifacts/ on the VM: the dated directories the DAGs pull from    *)
(* NIBI, and the links the backend loads models and replays through.       *)
(* A pull is an rsync of run_root/current/ that may be overtaken by a      *)
(* change of current/ on the other side, so it has two halves: the horizon *)
(* models, then models/model_manifest.json with the rest.                  *)
(***************************************************************************)
EXTENDS NibiCluster

CONSTANT Dirs   \* the dates (and slots) that name a pair of directories

VARIABLES
  warm,  \* warm_<d>/: what its horizon models and its manifest come from,
         \* and (history) the job it was pulled for, if nobody else wrote to it
  sim,   \* simulation_<d>/: the steps that have a predictions.csv
  link   \* current_base, current_base_eod, current_simulation

storeVars == <<warm, sim, link>>

Links == {"base", "eod", "sim"}
EmptyDir == [head |-> Nothing, manifest |-> Nothing, by |-> Nothing]

StoreTypeOK ==
  /\ warm \in [Dirs -> [head : Bundles \cup {Nothing},
                        manifest : Bundles \cup {Nothing},
                        by : Jobs \cup {Nothing}]]
  /\ sim \in [Dirs -> SUBSET Steps]
  /\ link \in [Links -> Dirs \cup {Nothing}]

StoreInit == /\ warm = [d \in Dirs |-> EmptyDir]
             /\ sim = [d \in Dirs |-> {}]
             /\ link = [l \in Links |-> Nothing]

\* The first half of a pull for job j, into a directory emptied before.
PulledHead(d, j) ==
  [warm EXCEPT ![d] = [head |-> current, manifest |-> Nothing, by |-> j]]

\* The second half.
PulledRest(d, j) ==
  [warm EXCEPT ![d].manifest = current,
               ![d].by = IF @ = j THEN j ELSE Nothing]

\* The safety net of every promotion.
HasManifest(d) == warm[d].manifest # Nothing
============================================================================
