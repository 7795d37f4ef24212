----------------------------- MODULE MCServices -----------------------------
(***************************************************************************)
(* Seven parts of the system that share no state, checked in one run: the   *)
(* initial state chooses the part that runs, the others stay at rest.      *)
(***************************************************************************)
EXTENDS ModelServing, ReplayLoader, TrainingLog, ModelRegistry, TrainingSplits,
        FeatureRows, HorizonTraining

VARIABLE which   \* the part that runs

parts == <<servingVars, replayVars, logVars, registryVars, splitsVars,
           featureVars, trainingVars>>
vars == <<which, parts>>

Components == {"serving", "replay", "log", "registry", "splits", "features",
               "horizons"}

TypeOK == /\ which \in Components
          /\ ServingTypeOK
          /\ ReplayTypeOK
          /\ LogTypeOK
          /\ RegistryTypeOK
          /\ SplitsTypeOK
          /\ FeatureTypeOK
          /\ HorizonTypeOK

\* One initial state for each part that does not run.
AtRest == /\ which # "serving" =>
               request = [t \in Threads |-> [stage |-> "idle", head |-> 0, models |-> 0,
                                             worker |-> CHOOSE w \in Workers : TRUE]]
          /\ which # "log" => \A c \in Clients : at[c] = CHOOSE p \in Processes : TRUE
          /\ which # "log" => \A n \in Lines : home[n] = CHOOSE p \in Processes : TRUE

SplitsAtRest == which # "splits" =>
                  job = "cv" /\ sessions = [s \in Tickers |-> [d \in Days |-> NumSlots]]

Init == /\ which \in Components
        /\ ServingInit /\ ReplayInit /\ LogInit /\ RegistryInit
        /\ AtRest
        /\ SplitsInit
        /\ SplitsAtRest
        /\ FeatureInit /\ HorizonInit

Next ==
  \/ /\ which = "serving"
     /\ ServingNext
     /\ UNCHANGED <<which, replayVars, logVars, registryVars, splitsVars,
                    featureVars, trainingVars>>
  \/ /\ which = "replay"
     /\ ReplayNext
     /\ UNCHANGED <<which, servingVars, logVars, registryVars, splitsVars,
                    featureVars, trainingVars>>
  \/ /\ which = "log"
     /\ LogNext
     /\ UNCHANGED <<which, servingVars, replayVars, registryVars, splitsVars,
                    featureVars, trainingVars>>
  \/ /\ which = "registry"
     /\ RegistryNext
     /\ UNCHANGED <<which, servingVars, replayVars, logVars, splitsVars,
                    featureVars, trainingVars>>
  \/ /\ which = "splits"
     /\ SplitsNext
     /\ UNCHANGED <<which, servingVars, replayVars, logVars, registryVars,
                    featureVars, trainingVars>>
  \/ /\ which = "features"
     /\ FeatureNext
     /\ UNCHANGED <<which, servingVars, replayVars, logVars, registryVars,
                    splitsVars, trainingVars>>
  \/ /\ which = "horizons"
     /\ HorizonNext
     /\ UNCHANGED <<which, servingVars, replayVars, logVars, registryVars,
                    splitsVars, featureVars>>

Spec == Init /\ [][Next]_vars /\ LogFairness

\* Bound: once two trainers have met, nothing is promised of the registry.
TrainersApart == Apart
=============================================================================
