---------------------------- MODULE ReplayLoader ----------------------------
(***************************************************************************)
(* SimulationLoader of one backend worker: an object that lives as long as *)
(* its process and that reload() fills again in place, by another call of  *)
(* __init__, while requests in other threads read its fields one by one.   *)
(* A replay is a directory simulation_<date>; its number is the promotion  *)
(* that moved current_simulation there.  0 stands for an empty field.      *)
(***************************************************************************)
EXTENDS Naturals, Sequences, FiniteSets

CONSTANTS Loaders,     \* threads that run reload_simulation()
          Readers,     \* threads that run step_prediction()
          NumSteps,    \* steps of a replay, 26 in the code
          MaxReplays   \* bound: promotions of current_simulation

ASSUME ReplayAssumption == NumSteps \in Nat \ {0} /\ MaxReplays \in Nat \ {0}

VARIABLES
  replay,     \* the replay current_simulation points to
  loader,     \* the fields of the object: the replay each was read from
  load,       \* the file each reload reads next, 0 when it is not running
  answer,     \* what each request has read so far
  disturbed   \* history: the last reload failed, or it did not run alone

replayVars == <<replay, loader, load, answer, disturbed>>

ReplaySteps == 0 .. NumSteps - 1
Replays == 1 .. MaxReplays
Reading == 0 .. MaxReplays

(* The files in the order __init__ opens them: the summary, which also     *)
(* gives the step information, step 0 as the base view, then every step.   *)
SummaryFile == 1
InfoFile == 2
BaseView == 3
StepFile(i) == 4 + i
LastFile == StepFile(NumSteps - 1)

\* What a step_prediction() reads, in its order.
Parts == <<"count", "row", "info", "trees">>
NoAnswer == [part |-> 0, count |-> 0, row |-> 0, info |-> 0, trees |-> 0,
             clean |-> TRUE]

Empty == [summary |-> 0, info |-> 0, base |-> 0, steps |-> [i \in ReplaySteps |-> 0]]
Whole(r) == [summary |-> r, info |-> r, base |-> r, steps |-> [i \in ReplaySteps |-> r]]

Fields == [summary : Reading, info : Reading, base : Reading,
           steps : [ReplaySteps -> Reading]]
ReplayAnswers == [part : 0 .. Len(Parts) + 1, count : Reading, row : Reading,
                  info : Reading, trees : Reading, clean : BOOLEAN]

ReplayTypeOK ==
  /\ replay \in Replays
  /\ loader \in Fields
  /\ load \in [Loaders -> 0 .. LastFile]
  /\ answer \in [Readers -> ReplayAnswers]
  /\ disturbed \in BOOLEAN

ReplayInit == /\ replay = 1
              /\ loader = Whole(1)
              /\ load = [t \in Loaders |-> 0]
              /\ answer = [t \in Readers |-> NoAnswer]
              /\ disturbed = FALSE

Reloading == \E t \in Loaders : load[t] # 0
----------------------------------------------------------------------------
\* The DAGs publish another replay.
PromoteReplayDir == /\ replay < MaxReplays
                    /\ replay' = replay + 1
                    /\ disturbed' = (disturbed \/ Reloading)
                    /\ UNCHANGED <<loader, load, answer>>

\* Mutant of Reset: a reload that reads the step files only.
ResetStepsOnly(t) == /\ load[t] = 0
                     /\ load' = [load EXCEPT ![t] = StepFile(0)]
                     /\ disturbed' = Reloading
                     /\ answer' = [u \in Readers |-> [answer[u] EXCEPT !.clean = FALSE]]
                     /\ UNCHANGED <<replay, loader>>

(* __init__ empties the fields first; requests that are being answered are *)
(* no longer clean.  Starting alone makes up for what went wrong before.   *)
Reset(t) == /\ load[t] = 0
            /\ load' = [load EXCEPT ![t] = SummaryFile]
            /\ loader' = Empty
            /\ disturbed' = Reloading
            /\ answer' = [u \in Readers |-> [answer[u] EXCEPT !.clean = FALSE]]
            /\ UNCHANGED replay

NextFile(file) == IF file = LastFile THEN 0 ELSE file + 1

\* The step information comes from the object's summary, whoever stored it.
Loaded(file) ==
  CASE file = SummaryFile -> [loader EXCEPT !.summary = replay]
    [] file = InfoFile -> [loader EXCEPT !.info = loader.summary]
    [] file = BaseView -> [loader EXCEPT !.base = replay]
    [] OTHER -> [loader EXCEPT !.steps[file - StepFile(0)] = replay]

LoadFile(t) == /\ load[t] # 0
               /\ load' = [load EXCEPT ![t] = NextFile(load[t])]
               /\ loader' = Loaded(load[t])
               /\ UNCHANGED <<replay, answer, disturbed>>

\* A file is missing: the exception is logged, and the fields stay as they are.
LoadFileFails(t) == /\ load[t] # 0
                    /\ load' = [load EXCEPT ![t] = 0]
                    /\ disturbed' = TRUE
                    /\ UNCHANGED <<replay, loader, answer>>
----------------------------------------------------------------------------
BeginAnswer(u) ==
  /\ answer[u].part = 0
  /\ answer' = [answer EXCEPT ![u] = [NoAnswer EXCEPT
                  !.part = 1, !.clean = ~Reloading /\ ~disturbed]]
  /\ UNCHANGED <<replay, loader, load, disturbed>>

(* One part more.  No steps in the summary, no row, or no step information *)
(* end the request with an error.                                          *)
ReadPart(u, i) ==
  LET field == Parts[answer[u].part]
      value == CASE field = "row" -> loader.steps[i]
                 [] field = "info" -> loader.info
                 [] OTHER -> loader.summary
  IN /\ answer[u].part \in DOMAIN Parts
     /\ answer' = [answer EXCEPT ![u] =
          IF value = 0 /\ field # "trees" THEN NoAnswer
          ELSE [answer[u] EXCEPT ![field] = value, !.part = answer[u].part + 1]]
     /\ UNCHANGED <<replay, loader, load, disturbed>>

Send(u) == /\ answer[u].part = Len(Parts) + 1
           /\ answer' = [answer EXCEPT ![u] = NoAnswer]
           /\ UNCHANGED <<replay, loader, load, disturbed>>

ReplayNext == \/ PromoteReplayDir
              \/ \E t \in Loaders : Reset(t) \/ LoadFile(t) \/ LoadFileFails(t)
              \/ \E u \in Readers : \/ BeginAnswer(u) \/ Send(u)
                                    \/ \E i \in ReplaySteps : ReadPart(u, i)

ReplaySpec == ReplayInit /\ [][ReplayNext]_replayVars
----------------------------------------------------------------------------
\* An answer whose parts come from different replays was overlapped by a
\* reload, or was asked of an object that a disturbed reload left behind.
AnswerIsOneReplay ==
  \A u \in Readers : answer[u].clean =>
    Cardinality({answer[u].count, answer[u].row, answer[u].info, answer[u].trees}
                \ {0}) <= 1
=============================================================================
