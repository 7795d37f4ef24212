--------------------------- MODULE ServicesProofs ---------------------------
(***************************************************************************)
(* Proofs about the parts of one process.  Of the backend's workers: the   *)
(* model cache, the replay loader and the training log, for any number of  *)
(* workers, threads, steps, clients and lines.  Of the training script:    *)
(* the bundle registry, the sets of horizon models, the rows learnt and    *)
(* asked, and the bars a feature is made of, for any commands, horizons,   *)
(* cutoffs, symbols, days and sessions.                                    *)
(***************************************************************************)
EXTENDS ModelServing, ReplayLoader, TrainingLog, ModelRegistry, HorizonTraining,
        TrainingSplits, FeatureRows, FiniteSetTheorems, SequenceTheorems, WellFoundedInduction,
        TLAPS

-----------------------------------------------------------------------------
(* The model cache.                                                        *)

ToldIsPast == \A w \in Workers : told[w] <= current

\* A load that began after its worker's last reload has read nothing older.
LoadsAreNew ==
  \A t \in Threads : LET w == request[t].worker IN
    ~straddled[w] =>
      /\ request[t].stage \in {"models", "store"} => request[t].head >= told[w]
      /\ request[t].stage = "store" => request[t].models >= told[w]

ServingInd == ServingTypeOK /\ ToldIsPast /\ LoadsAreNew /\ ReloadSticks

LEMMA ServingInitially == ServingInit => ServingInd
<1> SUFFICES ASSUME ServingInit PROVE ServingInd
  OBVIOUS
<1> USE ServingAssumption DEF ServingInit
<1>1. ServingTypeOK
  BY DEF ServingTypeOK, Models
<1>2. ToldIsPast /\ LoadsAreNew /\ ReloadSticks
  BY DEF ToldIsPast, LoadsAreNew, ReloadSticks, Requests, Stages
<1> QED BY <1>1, <1>2 DEF ServingInd

LEMMA AnswerTypes ==
  ASSUME request \in [Threads -> Requests], NEW t \in Threads, Answer(t)
  PROVE  request' \in [Threads -> Requests]
<1> USE ServingAssumption DEF Requests, Models, Stages
<1>1. 0 \in Models
  OBVIOUS
<1>2. [request[t] EXCEPT !.stage = "idle", !.head = 0, !.models = 0] \in Requests
  BY <1>1
<1> QED BY <1>2 DEF Answer

\* A step of one request keeps the records well formed.
LEMMA ServingTypes == ServingTypeOK /\ [ServingNext]_servingVars => ServingTypeOK'
<1> SUFFICES ASSUME ServingTypeOK, [ServingNext]_servingVars PROVE ServingTypeOK'
  OBVIOUS
<1> USE ServingAssumption DEF ServingTypeOK, Models, Requests, Stages, CachedBundles
<1>1. CASE PromoteModel
  BY <1>1 DEF PromoteModel
<1>2. ASSUME NEW t \in Threads, Serve(t) PROVE ServingTypeOK'
  <2>1. ASSUME NEW w \in Workers, NEW k \in Kinds, Ask(t, w, k)
        PROVE ServingTypeOK'
    BY <2>1 DEF Ask
  <2>2. CASE CacheClear(t)
    BY <2>2 DEF CacheClear, RequestGoesTo, LoadingIn
  <2>3. CASE LookUp(t)
    BY <2>3 DEF LookUp, RequestGoesTo, Answer
  <2>4. CASE ReadHead(t)
    BY <2>4 DEF ReadHead
  <2>5. CASE ReadModels(t)
    BY <2>5 DEF ReadModels
  <2>6. CASE LoadFails(t)
    BY <2>6, AnswerTypes DEF LoadFails
  <2>7. CASE Store(t)
    <3>1. request' \in [Threads -> Requests]
      BY <2>7, AnswerTypes DEF Store
    <3>2. [head |-> request[t].head, models |-> request[t].models] \in CachedBundles
      OBVIOUS
    <3>3. cache' \in [Workers -> CachedBundles \cup {NoBundle}]
      BY <2>7, <3>2 DEF Store
    <3> QED BY <2>7, <3>1, <3>3 DEF Store
  <2> QED BY <1>2, <2>1, <2>2, <2>3, <2>4, <2>5, <2>6, <2>7 DEF Serve
<1>3. ASSUME NEW w \in Workers, Restart(w) PROVE ServingTypeOK'
  BY <1>3 DEF Restart
<1>4. CASE UNCHANGED servingVars
  BY <1>4 DEF servingVars
<1> QED BY <1>1, <1>2, <1>3, <1>4 DEF ServingNext

LEMMA ServingStep == ServingInd /\ [ServingNext]_servingVars => ServingInd'
<1> SUFFICES ASSUME ServingInd, [ServingNext]_servingVars PROVE ServingInd'
  OBVIOUS
<1>0. ServingTypeOK /\ ServingTypeOK'
  BY ServingTypes DEF ServingInd
<1> USE <1>0, ServingAssumption DEF ServingInd, ServingTypeOK, Models, Requests,
    CachedBundles, Stages
<1> DEFINE Goal == (ToldIsPast /\ LoadsAreNew /\ ReloadSticks)'
<1>1. CASE PromoteModel
  BY <1>1 DEF PromoteModel, ToldIsPast, LoadsAreNew, ReloadSticks
<1>2. ASSUME NEW t \in Threads, Serve(t) PROVE Goal
  <2>1. ASSUME NEW w \in Workers, NEW k \in Kinds, Ask(t, w, k) PROVE Goal
    BY <2>1 DEF Ask, RequestAt, ToldIsPast, LoadsAreNew, ReloadSticks
  <2>2. CASE CacheClear(t)
    BY <2>2 DEF CacheClear, RequestAt, RequestGoesTo, LoadingIn, Loading,
                ToldIsPast, LoadsAreNew, ReloadSticks
  <2>3. CASE LookUp(t)
    BY <2>3 DEF LookUp, RequestAt, RequestGoesTo, Answer, ToldIsPast, LoadsAreNew,
                ReloadSticks
  <2>4. CASE ReadHead(t)
    BY <2>4 DEF ReadHead, ToldIsPast, LoadsAreNew, ReloadSticks
  <2>5. CASE ReadModels(t)
    BY <2>5 DEF ReadModels, RequestAt, ToldIsPast, LoadsAreNew, ReloadSticks
  <2>6. CASE LoadFails(t)
    BY <2>6 DEF LoadFails, Answer, ToldIsPast, LoadsAreNew, ReloadSticks
  <2>7. CASE Store(t)
    BY <2>7 DEF Store, RequestAt, Answer, ToldIsPast, LoadsAreNew, ReloadSticks
  <2> QED BY <1>2, <2>1, <2>2, <2>3, <2>4, <2>5, <2>6, <2>7 DEF Serve
<1>3. ASSUME NEW w \in Workers, Restart(w) PROVE Goal
  BY <1>3 DEF Restart, ToldIsPast, LoadsAreNew, ReloadSticks
<1>4. CASE UNCHANGED servingVars
  BY <1>4 DEF servingVars, ToldIsPast, LoadsAreNew, ReloadSticks
<1> QED BY <1>1, <1>2, <1>3, <1>4 DEF ServingNext

\* Whatever requests, reloads, promotions and crashes overlap, a worker that
\* was reloaded while it loaded nothing keeps no file of an older model.
THEOREM ReloadAlwaysSticks == ServingSpec => []ReloadSticks
<1>1. ServingInd => ReloadSticks
  BY DEF ServingInd
<1> QED BY ServingInitially, ServingStep, <1>1, PTL DEF ServingSpec

-----------------------------------------------------------------------------
(* The replay loader.                                                      *)

\* A load that runs alone, over a link that stands still.
Alone == ~disturbed =>
  \A t \in Loaders : load[t] # 0 =>
    /\ \A u \in Loaders \ {t} : load[u] = 0
    /\ load[t] > SummaryFile => loader.summary = replay
    /\ load[t] > InfoFile => loader.info = replay
    /\ load[t] > BaseView => loader.base = replay
    /\ \A i \in ReplaySteps : load[t] > StepFile(i) => loader.steps[i] = replay

OneReplay == ~disturbed /\ ~Reloading =>
  /\ loader.info = loader.summary
  /\ \A i \in ReplaySteps : loader.steps[i] = loader.summary

\* A clean answer was begun with nobody loading, and nobody has begun since.
CleanAnswers ==
  \A u \in Readers : answer[u].clean =>
    LET from == IF answer[u].part = 0 THEN {0} ELSE {0, loader.summary}
    IN /\ {answer[u].count, answer[u].row, answer[u].info, answer[u].trees} \subseteq from
       /\ answer[u].part # 0 => ~Reloading /\ ~disturbed

ReplayInd == ReplayTypeOK /\ Alone /\ OneReplay /\ CleanAnswers

LEMMA NullAnswer == NoAnswer \in ReplayAnswers
  BY ReplayAssumption DEF NoAnswer, ReplayAnswers, Reading, Parts

LEMMA WholeFields == Whole(1) \in Fields /\ Empty \in Fields
  BY ReplayAssumption DEF Whole, Empty, Fields, Reading, ReplaySteps

LEMMA ReplayInitially == ReplayInit => ReplayInd
<1> SUFFICES ASSUME ReplayInit PROVE ReplayInd
  OBVIOUS
<1> USE ReplayAssumption DEF ReplayInit
<1>1. ReplayTypeOK
  <2>1. 1 \in Replays /\ 0 \in 0 .. LastFile /\ FALSE \in BOOLEAN
    BY DEF Replays, LastFile, StepFile
  <2> QED BY <2>1, NullAnswer, WholeFields DEF ReplayTypeOK
<1>2. Alone /\ OneReplay /\ CleanAnswers
  BY DEF Alone, OneReplay, CleanAnswers, Whole, NoAnswer
<1> QED BY <1>1, <1>2 DEF ReplayInd

LEMMA PartOfAnswer ==
  ASSUME NEW r \in ReplayAnswers, r.part \in 1 .. 4
  PROVE  /\ r.part + 1 \in 0 .. Len(Parts) + 1 /\ r.part + 1 # 0
         /\ r.count \in Reading /\ r.row \in Reading /\ r.info \in Reading
         /\ r.trees \in Reading /\ r.clean \in BOOLEAN
<1>1. Len(Parts) = 4
  BY DEF Parts
<1>2. r.part + 1 \in 0 .. Len(Parts) + 1 /\ r.part + 1 # 0
  BY <1>1
<1> QED BY <1>2 DEF ReplayAnswers

MoreRead(r, f, v) == [r EXCEPT ![f] = v, !.part = r.part + 1]
ReadFrom(m, r, v) ==
  /\ m \in ReplayAnswers /\ m.part # 0 /\ m.clean = r.clean
  /\ {m.count, m.row, m.info, m.trees} \subseteq {r.count, r.row, r.info, r.trees, v}

LEMMA MoreOfAnswer ==
  ASSUME NEW r \in ReplayAnswers, r.part \in 1 .. 4, NEW v \in Reading,
         NEW f \in {"count", "row", "info", "trees"}
  PROVE  ReadFrom(MoreRead(r, f, v), r, v)
<1> DEFINE m == MoreRead(r, f, v)
<1> SUFFICES ReadFrom(m, r, v)
  OBVIOUS
<1>0. m = [r EXCEPT ![f] = v, !.part = r.part + 1]
  BY DEF MoreRead
<1> HIDE DEF m
<1> USE DEF ReadFrom
<1>1. /\ r.part + 1 \in 0 .. Len(Parts) + 1 /\ r.part + 1 # 0
      /\ r.count \in Reading /\ r.row \in Reading /\ r.info \in Reading
      /\ r.trees \in Reading /\ r.clean \in BOOLEAN
  BY PartOfAnswer, Zenon
<1>2. CASE f = "count"
  <2>1. m = [part |-> r.part + 1, count |-> v, row |-> r.row, info |-> r.info, trees |-> r.trees, clean |-> r.clean]
    BY <1>0, <1>2 DEF ReplayAnswers
  <2>2. m \in ReplayAnswers
    BY <1>1, <2>1 DEF ReplayAnswers
  <2> QED BY <1>1, <2>1, <2>2
<1>3. CASE f = "row"
  <2>1. m = [part |-> r.part + 1, count |-> r.count, row |-> v, info |-> r.info, trees |-> r.trees, clean |-> r.clean]
    BY <1>0, <1>3 DEF ReplayAnswers
  <2>2. m \in ReplayAnswers
    BY <1>1, <2>1 DEF ReplayAnswers
  <2> QED BY <1>1, <2>1, <2>2
<1>4. CASE f = "info"
  <2>1. m = [part |-> r.part + 1, count |-> r.count, row |-> r.row, info |-> v, trees |-> r.trees, clean |-> r.clean]
    BY <1>0, <1>4 DEF ReplayAnswers
  <2>2. m \in ReplayAnswers
    BY <1>1, <2>1 DEF ReplayAnswers
  <2> QED BY <1>1, <2>1, <2>2
<1>5. CASE f = "trees"
  <2>1. m = [part |-> r.part + 1, count |-> r.count, row |-> r.row, info |-> r.info, trees |-> v, clean |-> r.clean]
    BY <1>0, <1>5 DEF ReplayAnswers
  <2>2. m \in ReplayAnswers
    BY <1>1, <2>1 DEF ReplayAnswers
  <2> QED BY <1>1, <2>1, <2>2
<1> QED BY <1>2, <1>3, <1>4, <1>5

LEMMA ReplayPreserved == ReplayInd /\ [ReplayNext]_replayVars => ReplayInd'
<1> SUFFICES ASSUME ReplayInd, [ReplayNext]_replayVars PROVE ReplayInd'
  OBVIOUS
<1> USE ReplayAssumption DEF ReplayInd, ReplayTypeOK, Replays, ReplaySteps
<1>1. CASE PromoteReplayDir
  <2>1. ReplayTypeOK'
    BY <1>1 DEF PromoteReplayDir, Reloading
  <2>2. Alone' /\ OneReplay'
    BY <1>1 DEF PromoteReplayDir, Reloading, Alone, OneReplay
  <2>3. CleanAnswers'
    BY <1>1 DEF PromoteReplayDir, Reloading, CleanAnswers
  <2> QED BY <2>1, <2>2, <2>3
<1>2. ASSUME NEW t \in Loaders, Reset(t) PROVE ReplayInd'
  <2>1. ReplayTypeOK'
    <3>1. \A u \in Readers : [answer[u] EXCEPT !.clean = FALSE] \in ReplayAnswers
      BY DEF ReplayAnswers
    <3>2. SummaryFile \in 0 .. LastFile
      BY DEF SummaryFile, LastFile, StepFile
    <3> QED BY <1>2, <3>1, <3>2, WholeFields DEF Reset, Reloading
  <2>2. Alone'
    BY <1>2 DEF Reset, Alone, Reloading, SummaryFile, InfoFile, BaseView, StepFile
  <2>3. OneReplay'
    <3>1. load'[t] # 0
      BY <1>2 DEF Reset, SummaryFile
    <3> QED BY <3>1 DEF OneReplay, Reloading
  <2>4. CleanAnswers'
    <3>1. answer' = [u \in Readers |-> [answer[u] EXCEPT !.clean = FALSE]]
      BY <1>2 DEF Reset
    <3>2. \A u \in Readers : answer[u] \in ReplayAnswers
      OBVIOUS
    <3>3. \A u \in Readers : ~ [answer[u] EXCEPT !.clean = FALSE].clean
      BY <3>2 DEF ReplayAnswers
    <3>4. \A u \in Readers : ~ answer'[u].clean
      BY <3>1, <3>3
    <3> QED BY <3>4 DEF CleanAnswers
  <2> QED BY <2>1, <2>2, <2>3, <2>4
<1>3. ASSUME NEW t \in Loaders, LoadFile(t) PROVE ReplayInd'
  <2> USE DEF SummaryFile, InfoFile, BaseView, StepFile, LastFile
  <2>1. load[t] \in 1 .. LastFile /\ NextFile(load[t]) \in 0 .. LastFile
    BY <1>3 DEF LoadFile, NextFile
  <2>2. Loaded(load[t]) \in Fields
    <3>1. replay \in Reading /\ loader.summary \in Reading
      BY DEF Reading, Fields
    <3>2. CASE load[t] = SummaryFile
      BY <3>1, <3>2 DEF Loaded, Fields
    <3>3. CASE load[t] = InfoFile
      BY <3>1, <3>3 DEF Loaded, Fields
    <3>4. CASE load[t] = BaseView
      BY <3>1, <3>4 DEF Loaded, Fields
    <3>5. CASE load[t] > BaseView
      <4>1. [loader.steps EXCEPT ![load[t] - StepFile(0)] = replay]
              \in [ReplaySteps -> Reading]
        BY <3>1 DEF Fields
      <4>2. Loaded(load[t]) = [loader EXCEPT !.steps =
                                [loader.steps EXCEPT ![load[t] - StepFile(0)] = replay]]
        BY <3>5, <2>1 DEF Loaded, Fields
      <4> QED BY <4>1, <4>2 DEF Fields
    <3> QED BY <2>1, <3>2, <3>3, <3>4, <3>5
  <2>3. ReplayTypeOK'
    BY <1>3, <2>1, <2>2 DEF LoadFile
  <2>4. Alone'
    <3> SUFFICES ASSUME ~disturbed', NEW v \in Loaders, load'[v] # 0 PROVE Alone'
      BY DEF Alone
    <3>1. /\ v = t /\ \A u \in Loaders \ {t} : load'[u] = 0
          /\ load'[t] = load[t] + 1 /\ replay' = replay /\ loader' = Loaded(load[t])
          /\ ~disturbed /\ load[t] # LastFile
      BY <1>3, <2>1 DEF LoadFile, Alone, NextFile
    <3>2. /\ load[t] > SummaryFile => loader.summary = replay
          /\ load[t] > InfoFile => loader.info = replay
          /\ load[t] > BaseView => loader.base = replay
          /\ \A k \in ReplaySteps : load[t] > StepFile(k) => loader.steps[k] = replay
      BY <1>3, <3>1 DEF LoadFile, Alone
    <3>3. /\ load'[t] > SummaryFile => loader'.summary = replay'
          /\ load'[t] > InfoFile => loader'.info = replay'
          /\ load'[t] > BaseView => loader'.base = replay'
      BY <3>1, <3>2, <2>1 DEF Loaded, Fields
    <3>4. ASSUME NEW k \in ReplaySteps, load'[t] > StepFile(k)
          PROVE  loader'.steps[k] = replay'
      <4>1. load[t] - StepFile(0) \in ReplaySteps /\ load[t] > BaseView
        BY <3>1, <3>4, <2>1
      <4>2. loader'.steps = [loader.steps EXCEPT ![load[t] - StepFile(0)] = replay]
        BY <3>1, <4>1, <2>1 DEF Loaded, Fields
      <4>3. k = load[t] - StepFile(0) \/ load[t] > StepFile(k)
        BY <3>1, <3>4, <2>1
      <4> QED BY <3>1, <3>2, <4>1, <4>2, <4>3 DEF Fields
    <3> QED BY <3>1, <3>3, <3>4 DEF Alone
  <2>5. OneReplay'
    <3> SUFFICES ASSUME ~disturbed', ~Reloading' PROVE OneReplay'
      BY DEF OneReplay
    <3>1. load[t] = LastFile /\ ~disturbed
      BY <1>3, <2>1 DEF LoadFile, Reloading, NextFile
    <3>2. /\ loader.summary = replay /\ loader.info = replay
          /\ \A i \in ReplaySteps : i # NumSteps - 1 => loader.steps[i] = replay
      BY <1>3, <3>1 DEF LoadFile, Alone
    <3>3. /\ load[t] # SummaryFile /\ load[t] # InfoFile /\ load[t] # BaseView
          /\ load[t] - StepFile(0) = NumSteps - 1
      BY <3>1
    <3>4. loader' = [loader EXCEPT !.steps[NumSteps - 1] = replay]
      BY <1>3, <3>3 DEF LoadFile, Loaded
    <3> QED BY <3>2, <3>4 DEF OneReplay, Fields
  <2>6. CleanAnswers'
    BY <1>3 DEF LoadFile, CleanAnswers, Reloading
  <2> QED BY <2>3, <2>4, <2>5, <2>6
<1>4. ASSUME NEW t \in Loaders, LoadFileFails(t) PROVE ReplayInd'
  <2>1. ReplayTypeOK'
    BY <1>4 DEF LoadFileFails, LastFile, StepFile
  <2>2. Alone' /\ OneReplay' /\ CleanAnswers'
    BY <1>4 DEF LoadFileFails, Alone, OneReplay, CleanAnswers, Reloading
  <2> QED BY <2>1, <2>2
<1>5. ASSUME NEW u \in Readers, BeginAnswer(u) PROVE ReplayInd'
  <2> DEFINE new == [NoAnswer EXCEPT !.part = 1, !.clean = ~Reloading /\ ~disturbed]
  <2>1. answer' = [answer EXCEPT ![u] = new] /\ UNCHANGED <<replay, loader, load, disturbed>>
    BY <1>5 DEF BeginAnswer
  <2>2. new \in ReplayAnswers
    <3>1. 1 \in 0 .. Len(Parts) + 1 /\ (~Reloading /\ ~disturbed) \in BOOLEAN
      BY DEF Parts, Reloading
    <3> QED BY <3>1, NullAnswer DEF ReplayAnswers
  <2>3. /\ {new.count, new.row, new.info, new.trees} = {0} /\ new.part = 1
        /\ new.clean => ~Reloading /\ ~disturbed
    BY DEF NoAnswer
  <2> HIDE DEF new
  <2>4. ReplayTypeOK'
    BY <2>1, <2>2
  <2>5. Alone' /\ OneReplay'
    BY <2>1 DEF Alone, OneReplay, Reloading
  <2>6. CleanAnswers'
    BY <2>1, <2>3 DEF CleanAnswers, Reloading
  <2> QED BY <2>4, <2>5, <2>6
<1>6. ASSUME NEW u \in Readers, Send(u) PROVE ReplayInd'
  <2>1. ReplayTypeOK'
    BY <1>6, NullAnswer DEF Send
  <2>2. Alone' /\ OneReplay'
    BY <1>6 DEF Send, Alone, OneReplay, Reloading
  <2>3. CleanAnswers'
    BY <1>6 DEF Send, NoAnswer, CleanAnswers, Reloading
  <2> QED BY <2>1, <2>2, <2>3
<1>7. ASSUME NEW u \in Readers, NEW i \in ReplaySteps, ReadPart(u, i) PROVE ReplayInd'
  <2> DEFINE field == Parts[answer[u].part]
             value == CASE field = "row" -> loader.steps[i]
                        [] field = "info" -> loader.info
                        [] OTHER -> loader.summary
             more == [answer[u] EXCEPT ![field] = value, !.part = answer[u].part + 1]
  <2>1. answer[u].part \in 1 .. 4 /\ field \in {"count", "row", "info", "trees"}
    <3>1. answer[u].part \in DOMAIN Parts
      BY <1>7 DEF ReadPart
    <3>2. DOMAIN Parts = 1 .. 4 /\ \A p \in 1 .. 4 : Parts[p] \in {"count", "row", "info", "trees"}
      BY DEF Parts
    <3> QED BY <3>1, <3>2
  <2>2. UNCHANGED <<replay, loader, load, disturbed>> /\ Reloading' = Reloading
    BY <1>7 DEF ReadPart, Reloading
  <2>3. answer' = [answer EXCEPT ![u] = NoAnswer] \/ answer' = [answer EXCEPT ![u] = more]
    <3>1. answer' = [answer EXCEPT ![u] =
                       IF value = 0 /\ field # "trees" THEN NoAnswer ELSE more]
      BY <1>7 DEF ReadPart
    <3> HIDE DEF field, value, more
    <3> QED BY <3>1
  <2>4. value \in Reading
    BY DEF Fields
  <2>5. answer[u].clean => value \in {0, loader.summary}
    BY <2>1 DEF CleanAnswers, OneReplay
  <2> HIDE DEF field, value
  <2>6. /\ more \in ReplayAnswers /\ more.part # 0 /\ more.clean = answer[u].clean
        /\ {more.count, more.row, more.info, more.trees}
             \subseteq {answer[u].count, answer[u].row, answer[u].info, answer[u].trees,
                        value}
    <3>1. answer[u] \in ReplayAnswers /\ answer[u].part \in 1 .. 4
      BY <2>1
    <3>2. ReadFrom(MoreRead(answer[u], field, value), answer[u], value)
      BY <2>1, <2>4, <3>1, MoreOfAnswer, Zenon
    <3> QED BY <3>2 DEF ReadFrom, MoreRead
  <2> HIDE DEF more
  <2>7. ReplayTypeOK'
    BY <2>2, <2>3, <2>6, NullAnswer
  <2>8. CleanAnswers'
    BY <2>1, <2>2, <2>3, <2>5, <2>6 DEF CleanAnswers, NoAnswer
  <2>9. Alone' /\ OneReplay'
    BY <2>2 DEF Alone, OneReplay
  <2> QED BY <2>7, <2>8, <2>9
<1>8. CASE UNCHANGED replayVars
  BY <1>8 DEF replayVars, Alone, OneReplay, CleanAnswers, Reloading
<1> QED BY <1>1, <1>2, <1>3, <1>4, <1>5, <1>6, <1>7, <1>8 DEF ReplayNext

LEMMA CleanIsOneReplay == ReplayInd => AnswerIsOneReplay
<1> SUFFICES ASSUME ReplayInd, NEW u \in Readers, answer[u].clean
             PROVE Cardinality({answer[u].count, answer[u].row, answer[u].info,
                                answer[u].trees} \ {0}) <= 1
  BY DEF AnswerIsOneReplay
<1> DEFINE parts == {answer[u].count, answer[u].row, answer[u].info, answer[u].trees} \ {0}
<1>1. parts \subseteq {loader.summary}
  BY DEF ReplayInd, CleanAnswers
<1>2. IsFiniteSet({loader.summary}) /\ Cardinality({loader.summary}) = 1
  BY FS_Singleton
<1>3. Cardinality(parts) <= Cardinality({loader.summary})
  BY <1>1, <1>2, FS_Subset
<1> QED BY <1>2, <1>3

\* A request that no reload overlapped, of an object that a whole, undisturbed
\* reload left behind, is answered from one replay.
THEOREM AnswerAlwaysOneReplay == ReplaySpec => []AnswerIsOneReplay
<1> QED BY ReplayInitially, ReplayPreserved, CleanIsOneReplay, PTL DEF ReplaySpec

-----------------------------------------------------------------------------
(* The training log.                                                       *)

LogTypes ==
  /\ buffer \in [Processes -> Seq(Lines)]
  /\ subscribers \in [Processes -> Seq(Clients)]
  /\ at \in [Clients -> Processes]
  /\ client \in [Clients -> Phases]
  /\ backlog \in [Clients -> Seq(Lines)]
  /\ queue \in [Clients -> Seq(Lines)]
  /\ sent \in [Clients -> SUBSET Lines]
  /\ walk \in [Lines -> Nat]
  /\ home \in [Lines -> Processes]
  /\ due \in [Lines -> SUBSET Clients]
  /\ excused \in [Lines -> SUBSET Clients]

\* Replay() replaces a backlog, and there is none to lose.
NoBacklogYet == \A c \in Clients : client[c] \in {"away", "waiting"} => backlog[c] = <<>>

\* The walk has reached a client or is still to come to it.
Ahead(n, c) == \E i \in walk[n] .. Len(Listed(n)) : Listed(n)[i] = c
Heard(n, c) == n \in Reached(c) \/ client[c] = "gone" \/ Ahead(n, c)
WalkHears == \A n \in Lines : Walking(n) => \A c \in due[n] \ excused[n] : Heard(n, c)

LogInd == LogTypes /\ NoBacklogYet /\ WalkHears

LEMMA ElementsOfAppend ==
  ASSUME NEW S, NEW s \in Seq(S), NEW e \in S
  PROVE  /\ Append(s, e) \in Seq(S)
         /\ ToSet(s) \subseteq ToSet(Append(s, e))
         /\ e \in ToSet(Append(s, e))
         /\ \A i \in 1 .. Len(s) : i \in 1 .. Len(Append(s, e)) /\ Append(s, e)[i] = s[i]
<1>1. /\ Append(s, e) \in Seq(S) /\ Len(Append(s, e)) = Len(s) + 1
      /\ \A i \in 1 .. Len(s) : Append(s, e)[i] = s[i]
      /\ Append(s, e)[Len(s) + 1] = e
  BY AppendProperties
<1>2. Len(s) \in Nat /\ DOMAIN s = 1 .. Len(s)
      /\ DOMAIN Append(s, e) = 1 .. Len(s) + 1
  BY <1>1
<1> QED BY <1>1, <1>2 DEF ToSet

LEMMA ElementsOfTail ==
  ASSUME NEW S, NEW s \in Seq(S), s # <<>>
  PROVE  /\ Head(s) \in S /\ Tail(s) \in Seq(S)
         /\ ToSet(s) \subseteq {Head(s)} \cup ToSet(Tail(s))
<1>1. /\ Head(s) \in S /\ Tail(s) \in Seq(S) /\ Len(Tail(s)) = Len(s) - 1
      /\ \A i \in 1 .. Len(Tail(s)) : Tail(s)[i] = s[i + 1]
  BY HeadTailProperties
<1>2. DOMAIN s = 1 .. Len(s) /\ DOMAIN Tail(s) = 1 .. Len(s) - 1 /\ Len(s) \in Nat
  BY <1>1
<1>3. ASSUME NEW i \in DOMAIN s PROVE s[i] \in {Head(s)} \cup ToSet(Tail(s))
  <2>1. CASE i = 1
    BY <2>1
  <2>2. CASE i # 1
    <3>1. i - 1 \in DOMAIN Tail(s) /\ Tail(s)[i - 1] = s[i]
      BY <1>1, <1>2, <1>3, <2>2
    <3> QED BY <3>1 DEF ToSet
  <2> QED BY <2>1, <2>2
<1> QED BY <1>1, <1>3 DEF ToSet

LEMMA MinIsLeast ==
  ASSUME NEW T, T \subseteq Nat, T # {}
  PROVE  Min(T) \in T /\ \A y \in T : Min(T) <= y
<1>1. PICK x \in T : \A y \in T : ~ (<<y, x>> \in OpToRel(<, Nat))
  BY NatLessThanWellFounded, WFMin
<1>2. ASSUME NEW y \in T PROVE x =< y
  <2>1. x \in Nat /\ y \in Nat
    OBVIOUS
  <2>2. <<y, x>> \in Nat \X Nat /\ <<y, x>>[1] = y /\ <<y, x>>[2] = x
    BY <2>1
  <2>3. ~ (y < x)
    BY <1>1, <2>2 DEF OpToRel
  <2> QED BY <2>1, <2>3
<1> QED BY <1>1, <1>2 DEF Min

LEMMA RemoveFirstIsSequence ==
  ASSUME NEW S, NEW s \in Seq(S), NEW e
  PROVE  RemoveFirst(s, e) \in Seq(S)
<1> DEFINE I == {i \in 1 .. Len(s) : s[i] = e}
<1>1. CASE I = {}
  BY <1>1 DEF RemoveFirst
<1>2. CASE I # {}
  <2>1. Min(I) \in I
    <3>1. I \subseteq Nat
      OBVIOUS
    <3> HIDE DEF I
    <3> QED BY <1>2, <3>1, MinIsLeast
  <2>2. PICK k \in 1 .. Len(s) : k = Min(I)
    BY <2>1
  <2>3. RemoveFirst(s, e) = SubSeq(s, 1, k - 1) \o SubSeq(s, k + 1, Len(s))
    BY <1>2, <2>2 DEF RemoveFirst, RemoveAt, SelectInSeq
  <2>4. Len(s) \in Nat /\ \A i \in 1 .. Len(s) : s[i] \in S
    OBVIOUS
  <2>5. SubSeq(s, 1, k - 1) \in Seq(S)
    <3>1. 1 \in Int /\ k - 1 \in Int /\ \A i \in 1 .. k - 1 : s[i] \in S
      BY <2>4
    <3> QED BY <3>1, SubSeqProperties
  <2>6. SubSeq(s, k + 1, Len(s)) \in Seq(S)
    <3>1. k + 1 \in Int /\ Len(s) \in Int /\ \A i \in k + 1 .. Len(s) : s[i] \in S
      BY <2>4
    <3> QED BY <3>1, SubSeqProperties
  <2> QED BY <2>3, <2>5, <2>6, ConcatProperties
<1> QED BY <1>1, <1>2

LEMMA LogInitially == LogInit => LogInd
<1> SUFFICES ASSUME LogInit PROVE LogInd
  OBVIOUS
<1> USE DEF LogInit
<1>1. LogTypes
  <2>1. <<>> \in Seq(Lines) /\ <<>> \in Seq(Clients) /\ "away" \in Phases
    BY DEF Phases
  <2> QED BY <2>1 DEF LogTypes
<1>2. NoBacklogYet /\ WalkHears
  BY DEF NoBacklogYet, WalkHears, Walking
<1> QED BY <1>1, <1>2 DEF LogInd

\* A step that moves no walk and shortens no list, and takes from a client
\* that stays nothing that has reached it.
LEMMA StillHeard ==
  ASSUME LogInd, UNCHANGED <<walk, home, due, excused>>,
         \A c \in Clients : client[c] = "gone" => client'[c] = "gone",
         \A c \in Clients : Reached(c) \subseteq Reached(c)' \/ client'[c] = "gone",
         \A n \in Lines : \A i \in 1 .. Len(Listed(n)) :
           i \in 1 .. Len(Listed(n)') /\ Listed(n)'[i] = Listed(n)[i]
  PROVE  WalkHears'
<1> SUFFICES ASSUME NEW n \in Lines, Walking(n)', NEW c \in due'[n] \ excused'[n]
             PROVE  Heard(n, c)'
  BY DEF WalkHears
<1>1. c \in Clients /\ walk[n] \in Nat \ {0} /\ walk' = walk
  BY DEF LogInd, LogTypes, Walking
<1>2. Heard(n, c)
  BY DEF LogInd, WalkHears, Walking
<1>3. ASSUME Ahead(n, c) PROVE Ahead(n, c)'
  <2>1. PICK i \in walk[n] .. Len(Listed(n)) : Listed(n)[i] = c
    BY <1>3 DEF Ahead
  <2>2. i \in 1 .. Len(Listed(n))
    <3>1. Len(Listed(n)) \in Nat
      BY DEF LogInd, LogTypes, Listed
    <3> QED BY <1>1, <2>1, <3>1
  <2>3. i \in 1 .. Len(Listed(n)') /\ Listed(n)'[i] = c
    BY <2>1, <2>2
  <2>4. i \in walk'[n] .. Len(Listed(n)')
    BY <1>1, <2>1, <2>3
  <2> QED BY <2>3, <2>4 DEF Ahead
<1> QED BY <1>1, <1>2, <1>3 DEF Heard

LEMMA LogTypesKept == LogInd /\ [LogNext]_logVars => LogTypes'
<1> SUFFICES ASSUME LogInd, [LogNext]_logVars PROVE LogTypes'
  OBVIOUS
<1> USE DEF LogInd, LogTypes, Listed, connection
<1>1. ASSUME NEW n \in Lines, PushLog(n) PROVE LogTypes'
  <2>1. buffer[home[n]] \in Seq(Lines)
    OBVIOUS
  <2>2. Append(buffer[home[n]], n) \in Seq(Lines) /\ Append(buffer[home[n]], n) # <<>>
    <3> DEFINE b == buffer[home[n]]
    <3>1. b \in Seq(Lines)
      BY <2>1
    <3> HIDE DEF b, LogInd, LogTypes
    <3>2. Append(b, n) \in Seq(Lines) /\ Len(Append(b, n)) = Len(b) + 1
      BY <3>1, AppendProperties
    <3>3. Append(b, n) # <<>>
      <4>1. Len(b) \in Nat /\ Len(Append(b, n)) # 0
        BY <3>1, <3>2
      <4>2. Len(<<>>) = 0
        OBVIOUS
      <4> QED BY <4>1, <4>2, Zenon
    <3> QED BY <3>2, <3>3 DEF b
  <2>3. Kept(Append(buffer[home[n]], n)) \in Seq(Lines)
    BY <2>2, HeadTailProperties DEF Kept
  <2>4. ToSet(subscribers[home[n]]) \subseteq Clients
    BY DEF ToSet
  <2> QED BY <1>1, <2>3, <2>4 DEF PushLog
<1>2. ASSUME NEW n \in Lines, Put(n) PROVE LogTypes'
  <2>1. walk[n] \in 1 .. Len(subscribers[home[n]]) /\ walk[n] + 1 \in Nat
    <3>1. walk[n] \in Nat /\ Len(subscribers[home[n]]) \in Nat
      OBVIOUS
    <3> QED BY <1>2, <3>1 DEF Put, Walking
  <2> DEFINE c == subscribers[home[n]][walk[n]]
  <2>2. c \in Clients
    BY <2>1
  <2>3. Append(queue[c], n) \in Seq(Lines)
    BY <2>2, AppendProperties
  <2> QED BY <1>2, <2>1, <2>2, <2>3 DEF Put
<1>3. ASSUME NEW n \in Lines, EndWalk(n) PROVE LogTypes'
  BY <1>3 DEF EndWalk
<1>4. ASSUME NEW p \in Processes, ClearLog(p) PROVE LogTypes'
  <2>1. <<>> \in Seq(Lines)
    OBVIOUS
  <2> QED BY <1>4, <2>1 DEF ClearLog
<1>5. ASSUME NEW c \in Clients, Subscribe(c) PROVE LogTypes'
  <2>1. Append(subscribers[at[c]], c) \in Seq(Clients)
    BY AppendProperties
  <2> QED BY <1>5, <2>1 DEF Subscribe, Phases
<1>6. ASSUME NEW c \in Clients, Replay(c) PROVE LogTypes'
  BY <1>6 DEF Replay, Phases
<1>7. ASSUME NEW c \in Clients, SendBacklog(c) PROVE LogTypes'
  <2>1. backlog[c] # <<>> => Head(backlog[c]) \in Lines /\ Tail(backlog[c]) \in Seq(Lines)
    BY HeadTailProperties
  <2>2. CASE backlog[c] = <<>>
    BY <1>7, <2>2 DEF SendBacklog, Phases
  <2>3. CASE backlog[c] # <<>>
    <3>1. sent[c] \cup {Head(backlog[c])} \in SUBSET Lines
      BY <2>1, <2>3
    <3> QED BY <1>7, <2>1, <2>3, <3>1 DEF SendBacklog
  <2> QED BY <2>2, <2>3
<1>8. ASSUME NEW c \in Clients, SendLive(c) PROVE LogTypes'
  <2>1. Head(queue[c]) \in Lines /\ Tail(queue[c]) \in Seq(Lines)
    BY <1>8, HeadTailProperties DEF SendLive
  <2> QED BY <1>8, <2>1 DEF SendLive
<1>9. ASSUME NEW c \in Clients, Leave(c) PROVE LogTypes'
  <2>1. <<>> \in Seq(Lines) /\ RemoveFirst(subscribers[at[c]], c) \in Seq(Clients)
    BY RemoveFirstIsSequence
  <2>2. subscribers' \in [Processes -> Seq(Clients)] /\ queue' \in [Clients -> Seq(Lines)]
    BY <1>9, <2>1 DEF Leave
  <2>3. \A n \in Lines : due[n] \in SUBSET Clients /\ excused[n] \in SUBSET Clients
    OBVIOUS
  <2>4. excused' \in [Lines -> SUBSET Clients]
    <3>1. CASE excused' = excused
      BY <3>1
    <3>2. CASE excused' = [n \in Lines |-> IF Walking(n) /\ home[n] = at[c]
                                           THEN due[n] ELSE excused[n]]
      BY <2>3, <3>2
    <3> QED BY <1>9, <3>1, <3>2 DEF Leave
  <2>5. client' \in [Clients -> Phases] /\ backlog' \in [Clients -> Seq(Lines)]
        /\ sent' \in [Clients -> SUBSET Lines]
    BY <1>9, <2>1 DEF Leave, Phases
  <2> QED BY <1>9, <2>2, <2>4, <2>5 DEF Leave
<1>10. CASE UNCHANGED logVars
  BY <1>10 DEF logVars
<1> QED BY <1>1, <1>2, <1>3, <1>4, <1>5, <1>6, <1>7, <1>8, <1>9, <1>10
        DEF LogNext, Generator

LEMMA NoBacklogKept == LogInd /\ [LogNext]_logVars => NoBacklogYet'
<1> SUFFICES ASSUME LogInd, [LogNext]_logVars PROVE NoBacklogYet'
  OBVIOUS
<1> USE DEF LogInd, LogTypes, NoBacklogYet, connection
<1>1. CASE UNCHANGED <<client, backlog>>
  BY <1>1
<1>2. ASSUME NEW c \in Clients, Subscribe(c) PROVE NoBacklogYet'
  BY <1>2 DEF Subscribe
<1>3. ASSUME NEW c \in Clients, Generator(c) PROVE NoBacklogYet'
  BY <1>3 DEF Generator, Replay, SendBacklog, SendLive
<1>4. ASSUME NEW c \in Clients, Leave(c) PROVE NoBacklogYet'
  BY <1>4 DEF Leave
<1> QED BY <1>1, <1>2, <1>3, <1>4
        DEF LogNext, logVars, PushLog, Put, EndWalk, ClearLog

LEMMA WalkHearsKept == LogInd /\ [LogNext]_logVars => WalkHears'
<1> SUFFICES ASSUME LogInd, [LogNext]_logVars PROVE WalkHears'
  OBVIOUS
<1> USE DEF connection
<1>t. LogTypes /\ NoBacklogYet /\ WalkHears
  BY DEF LogInd
<1>1. ASSUME NEW n \in Lines, PushLog(n) PROVE WalkHears'
  <2>1. /\ \A m \in Lines : m # n => /\ walk'[m] = walk[m] /\ due'[m] = due[m]
        /\ walk'[n] = 1 /\ due'[n] = ToSet(Listed(n))
        /\ UNCHANGED <<subscribers, home, excused, client, sent, backlog, queue>>
    BY <1>1, <1>t DEF PushLog, LogTypes, Listed
  <2>2. ASSUME NEW c \in due'[n] PROVE Ahead(n, c)'
    <3>1. PICK i \in DOMAIN Listed(n) : Listed(n)[i] = c
      BY <2>1, <2>2 DEF ToSet
    <3>2. Listed(n) \in Seq(Clients)
      BY <1>t DEF LogTypes, Listed
    <3>3. i \in 1 .. Len(Listed(n))
      BY <3>1, <3>2
    <3> QED BY <2>1, <3>1, <3>3 DEF Ahead, Listed
  <2>3. ASSUME NEW m \in Lines, m # n, NEW c, Heard(m, c) PROVE Heard(m, c)'
    BY <2>1, <2>3 DEF Heard, Ahead, Listed, Reached
  <2> QED BY <1>t, <2>1, <2>2, <2>3 DEF WalkHears, Walking, Heard
<1>2. ASSUME NEW n \in Lines, Put(n) PROVE WalkHears'
  <2> DEFINE c == Listed(n)[walk[n]]
  <2>1. walk[n] \in 1 .. Len(Listed(n)) /\ c \in Clients /\ Len(Listed(n)) \in Nat
    <3>1. walk[n] \in Nat /\ Listed(n) \in Seq(Clients)
      BY <1>t DEF LogTypes, Listed
    <3>2. walk[n] \in 1 .. Len(Listed(n)) /\ Len(Listed(n)) \in Nat
      BY <1>2, <3>1 DEF Put, Walking
    <3> QED BY <3>1, <3>2
  <2>2. /\ \A m \in Lines : m # n => walk'[m] = walk[m] /\ excused'[m] = excused[m]
        /\ walk'[n] = walk[n] + 1
        /\ UNCHANGED <<subscribers, home, due, client, sent, backlog>>
    BY <1>2, <1>t DEF Put, LogTypes
  <2>3. \A d \in Clients : ToSet(queue[d]) \subseteq ToSet(queue'[d])
    <3>1. ToSet(queue[c]) \subseteq ToSet(Append(queue[c], n))
      BY <1>t, <2>1, ElementsOfAppend DEF LogTypes
    <3>2. queue' = queue \/ queue' = [queue EXCEPT ![c] = Append(queue[c], n)]
      BY <1>2 DEF Put
    <3> QED BY <1>t, <2>1, <3>1, <3>2 DEF LogTypes
  <2>4. c \in excused'[n] \/ n \in ToSet(queue'[c])
    <3>1. n \in ToSet(Append(queue[c], n))
      BY <1>t, <2>1, ElementsOfAppend DEF LogTypes
    <3> QED BY <1>2, <1>t, <2>1, <3>1 DEF Put, LogTypes
  <2>5. excused[n] \subseteq excused'[n]
    BY <1>2, <1>t DEF Put, LogTypes
  <2>6. ASSUME NEW d \in due'[n] \ excused'[n] PROVE Heard(n, d)'
    <3>1. d \in Clients /\ Heard(n, d)
      BY <1>2, <1>t, <2>2, <2>5, <2>6 DEF LogTypes, WalkHears, Put
    <3>2. CASE d = c
      BY <2>4, <2>6, <3>1, <3>2 DEF Heard, Reached
    <3>3. CASE d # c
      <4>1. Ahead(n, d) => Ahead(n, d)'
        <5> SUFFICES ASSUME NEW i \in walk[n] .. Len(Listed(n)), Listed(n)[i] = d
                     PROVE  Ahead(n, d)'
          BY DEF Ahead
        <5>1. i # walk[n]
          BY <3>3
        <5>2. i \in walk[n] + 1 .. Len(Listed(n))
          BY <2>1, <5>1
        <5> QED BY <2>2, <5>2 DEF Ahead, Listed
      <4> QED BY <2>2, <2>3, <3>1, <4>1 DEF Heard, Reached
    <3> QED BY <3>2, <3>3
  <2>7. ASSUME NEW m \in Lines, m # n, Walking(m), NEW d \in due[m] \ excused[m]
        PROVE  Heard(m, d)'
    <3>1. d \in Clients /\ Heard(m, d)
      BY <1>t, <2>7 DEF LogTypes, WalkHears
    <3>2. Ahead(m, d) => Ahead(m, d)'
      BY <2>2, <2>7 DEF Ahead, Listed
    <3> QED BY <2>2, <2>3, <3>1, <3>2 DEF Heard, Reached
  <2> QED BY <2>2, <2>6, <2>7 DEF WalkHears, Walking
<1>3. ASSUME NEW n \in Lines, EndWalk(n) PROVE WalkHears'
  <2>1. /\ \A m \in Lines : m # n => /\ walk'[m] = walk[m] /\ due'[m] = due[m]
                                     /\ excused'[m] = excused[m]
        /\ walk'[n] = 0
        /\ UNCHANGED <<subscribers, home, client, sent, backlog, queue>>
    BY <1>3, <1>t DEF EndWalk, LogTypes
  <2>2. ASSUME NEW m \in Lines, m # n, NEW c, Heard(m, c) PROVE Heard(m, c)'
    BY <2>1, <2>2 DEF Heard, Ahead, Listed, Reached
  <2> QED BY <1>t, <2>1, <2>2 DEF WalkHears, Walking
<1>4. ASSUME NEW p \in Processes, ClearLog(p) PROVE WalkHears'
  BY <1>4, <1>t DEF ClearLog, WalkHears, Walking, Heard, Ahead, Listed, Reached
<1>5. ASSUME NEW c \in Clients, Subscribe(c) PROVE WalkHears'
  <2>1. ASSUME NEW n \in Lines, NEW i \in 1 .. Len(Listed(n))
        PROVE  i \in 1 .. Len(Listed(n)') /\ Listed(n)'[i] = Listed(n)[i]
    <3>1. home' = home /\ home[n] \in Processes
      BY <1>5, <1>t DEF Subscribe, LogTypes
    <3>2. CASE home[n] = at[c]
      <4>1. Listed(n)' = Append(Listed(n), c) /\ Listed(n) \in Seq(Clients)
        BY <1>5, <1>t, <3>1, <3>2 DEF Subscribe, LogTypes, Listed
      <4> QED BY <4>1, ElementsOfAppend
    <3>3. CASE home[n] # at[c]
      <4>1. Listed(n)' = Listed(n)
        BY <1>5, <1>t, <3>1, <3>3 DEF Subscribe, LogTypes, Listed
      <4> QED BY <4>1
    <3> QED BY <3>2, <3>3
  <2>2. \A d \in Clients : Reached(d)' = Reached(d)
    BY <1>5 DEF Subscribe, Reached
  <2>3. \A d \in Clients : client[d] = "gone" => client'[d] = "gone"
    BY <1>5, <1>t DEF Subscribe, LogTypes
  <2>4. UNCHANGED <<walk, home, due, excused>>
    BY <1>5 DEF Subscribe
  <2> QED BY <2>1, <2>2, <2>3, <2>4, StillHeard
<1>6. ASSUME NEW c \in Clients, Generator(c) PROVE WalkHears'
  <2>1. UNCHANGED <<walk, home, due, excused, subscribers>>
    BY <1>6 DEF Generator, Replay, SendBacklog, SendLive
  <2>2. \A d \in Clients : client[d] = "gone" => client'[d] = "gone"
    BY <1>6, <1>t DEF Generator, Replay, SendBacklog, SendLive, LogTypes
  <2>3. ASSUME NEW d \in Clients, d # c PROVE Reached(d)' = Reached(d)
    BY <1>6, <1>t, <2>3 DEF Generator, Replay, SendBacklog, SendLive, LogTypes, Reached
  <2>4. Reached(c) \subseteq Reached(c)'
    <3>1. CASE Replay(c)
      <4>1. backlog[c] = <<>> /\ UNCHANGED <<sent, queue>> /\ ToSet(<<>>) = {}
        BY <1>t, <3>1 DEF Replay, NoBacklogYet, ToSet
      <4> QED BY <4>1 DEF Reached
    <3>2. CASE SendBacklog(c) /\ backlog[c] # <<>>
      <4>1. ToSet(backlog[c]) \subseteq {Head(backlog[c])} \cup ToSet(Tail(backlog[c]))
        BY <1>t, <3>2, ElementsOfTail DEF LogTypes
      <4>2. /\ sent'[c] = sent[c] \cup {Head(backlog[c])} /\ backlog'[c] = Tail(backlog[c])
            /\ queue' = queue
        BY <1>t, <3>2 DEF SendBacklog, LogTypes
      <4> QED BY <4>1, <4>2 DEF Reached
    <3>3. CASE SendBacklog(c) /\ backlog[c] = <<>>
      BY <3>3 DEF SendBacklog, Reached
    <3>4. CASE SendLive(c)
      <4>1. ToSet(queue[c]) \subseteq {Head(queue[c])} \cup ToSet(Tail(queue[c]))
        BY <1>t, <3>4, ElementsOfTail DEF SendLive, LogTypes
      <4>2. /\ sent'[c] = sent[c] \cup {Head(queue[c])} /\ queue'[c] = Tail(queue[c])
            /\ backlog' = backlog
        BY <1>t, <3>4 DEF SendLive, LogTypes
      <4> QED BY <4>1, <4>2 DEF Reached
    <3> QED BY <1>6, <3>1, <3>2, <3>3, <3>4 DEF Generator
  <2>5. \A n \in Lines : \A i \in 1 .. Len(Listed(n)) :
          i \in 1 .. Len(Listed(n)') /\ Listed(n)'[i] = Listed(n)[i]
    BY <2>1 DEF Listed
  <2>6. \A d \in Clients : Reached(d) \subseteq Reached(d)'
    BY <2>3, <2>4
  <2> QED BY <2>1, <2>2, <2>5, <2>6, StillHeard
<1>7. ASSUME NEW c \in Clients, Leave(c) PROVE WalkHears'
  <2>1. /\ UNCHANGED <<walk, home, due>> /\ client'[c] = "gone"
        /\ \A d \in Clients : client[d] = "gone" => client'[d] = "gone"
    BY <1>7, <1>t DEF Leave, LogTypes
  <2>2. ASSUME NEW d \in Clients, d # c PROVE Reached(d)' = Reached(d)
    BY <1>7, <1>t, <2>2 DEF Leave, LogTypes, Reached
  <2>3. ASSUME NEW n \in Lines, Walking(n), NEW d \in due[n] \ excused'[n]
        PROVE  Heard(n, d)'
    <3>1. /\ excused[n] = excused'[n] /\ Listed(n)' = Listed(n)
      <4>1. CASE client[c] = "live"
        <5>1. excused'[n] = IF home[n] = at[c] THEN due[n] ELSE excused[n]
          BY <1>7, <2>3, <4>1 DEF Leave
        <5>2. home[n] # at[c]
          BY <2>3, <5>1
        <5>3. subscribers' = [subscribers EXCEPT ![at[c]] = RemoveFirst(@, c)]
          BY <1>7, <4>1 DEF Leave
        <5>4. home[n] \in Processes /\ home' = home /\ subscribers \in [Processes -> Seq(Clients)]
          BY <1>t, <2>1 DEF LogTypes
        <5>5. subscribers'[home[n]] = subscribers[home[n]]
          BY <5>2, <5>3, <5>4
        <5> QED BY <5>1, <5>2, <5>4, <5>5 DEF Listed
      <4>2. CASE client[c] # "live"
        BY <1>7, <2>1, <4>2 DEF Leave, Listed
      <4> QED BY <4>1, <4>2
    <3>2. d \in Clients /\ Heard(n, d)
      BY <1>t, <2>3, <3>1 DEF LogTypes, WalkHears
    <3>3. Ahead(n, d) => Ahead(n, d)'
      BY <2>1, <3>1 DEF Ahead
    <3> QED BY <2>1, <2>2, <3>2, <3>3 DEF Heard
  <2> QED BY <2>1, <2>3 DEF WalkHears, Walking
<1>8. CASE UNCHANGED logVars
  BY <1>8, <1>t DEF logVars, WalkHears, Walking, Heard, Ahead, Listed, Reached
<1> QED BY <1>1, <1>2, <1>3, <1>4, <1>5, <1>6, <1>7, <1>8 DEF LogNext

\* A walk that has ended has nothing ahead.
LEMMA EndedWalkHasHeard ==
  ASSUME LogInd, NEW n \in Lines, EndWalk(n), NEW c \in due[n] \ excused[n]
  PROVE  n \in Reached(c) \/ client[c] = "gone"
<1>1. Heard(n, c) /\ walk[n] \in Nat /\ Len(Listed(n)) \in Nat /\ walk[n] > Len(Listed(n))
  BY DEF LogInd, LogTypes, WalkHears, EndWalk, Listed
<1>2. ~ Ahead(n, c)
  BY <1>1 DEF Ahead
<1> QED BY <1>1, <1>2 DEF Heard

\* The broadcast of a line misses no client that stays, but for a full queue
\* or a list that was shortened under way: for any number of processes,
\* clients and lines and any limits of the buffer and the queues.
THEOREM BroadcastLosesNoLine == LogSpec => NoLineIsLost
<1>1. LogInit => LogInd
  BY LogInitially
<1>2. LogInd /\ [LogNext]_logVars => LogInd'
  BY LogTypesKept, NoBacklogKept, WalkHearsKept DEF LogInd
<1>3. LogInd => [\A n \in Lines : EndWalk(n) =>
        \A c \in due[n] \ excused[n] : n \in Reached(c) \/ client[c] = "gone"]_logVars
  BY EndedWalkHasHeard
<1> QED BY <1>1, <1>2, <1>3, PTL DEF LogSpec, NoLineIsLost

-----------------------------------------------------------------------------
(* The bundle registry.                                                     *)

Trains(p) == command[p].mode # "predict" /\ ~CommandAt(p, "idle")
Promotes(p) == command[p].step \in Promoting

\* What a command carries at each step.
CommandsFit == \A p \in Commands :
  /\ command[p].step = "idle" => command[p] = NoCommand
  /\ command[p].mode = "predict" => command[p].step \in {"idle", "load", "write", "report"}
  /\ command[p].step = "train" => command[p].id = 0 /\ command[p].name = "current"
  /\ Promotes(p) => /\ command[p].id = trained /\ trained > 0
                    /\ command[p].name \in {"current", Second(command[p].mode)}
  /\ command[p].step = "tidy" => command[p].name # "current"
  /\ command[p].step = "write" => command[p].uses \in 1 .. trained

OneTrainer == \A p, q \in Commands : Trains(p) /\ Trains(q) => p = q

\* What is in place at each step of a promotion.
InPlace == \A p \in Commands : Promotes(p) =>
  /\ ragged
  /\ command[p].step \in {"aside", "move"} =>
       tmp[command[p].name] = Fresh(command[p].id)
  /\ command[p].name # "current" \/ command[p].step = "drop" =>
       dir["current"].id = command[p].id
  /\ command[p].name # "current" /\ command[p].step \in {"drop", "tidy"} =>
       dir[command[p].name].id = command[p].id

\* After a whole promotion the last candidate is the current one.
ServesNewest == ~ragged =>
  /\ dir["current"].id = IF trained = 0 THEN -1 ELSE trained
  /\ IF trained = 0 THEN dir["base"].id = -1 /\ dir["refresh"].id = -1
     ELSE trained \in {dir["base"].id, dir["refresh"].id}

Promoted == dir["base"].id > 0 \/ dir["refresh"].id > 0

\* Before the first crash the current bundle is only away in its backup.
NothingLost == Promoted =>
  /\ crashes = 0 => \/ dir["current"].id > 0
                    \/ /\ bak["current"].id > 0
                       /\ \E p \in Commands : /\ command[p].step = "move"
                                              /\ command[p].name = "current"
  /\ crashes <= 1 /\ (\A p \in Commands : ~Promotes(p)) =>
       dir["current"].id > 0 \/ bak["current"].id > 0

\* A cycle that has promoted goes on with what it promoted.
CycleKeeps == /\ \A p \in Commands : command[p].mode = "cycle" /\ command[p].id # 0 =>
                   /\ command[p].step = "load" => dir["current"].id = command[p].id
                   /\ command[p].step \in {"write", "report"} =>
                        command[p].uses = command[p].id
              /\ status.refresh # 0 => status.predicted = status.refresh

\* As long as no prediction has met a trainer, it finds what it has read.
WritesWhatItRead == "predictor" \notin crossed =>
  /\ \A p, q \in Commands : Trains(p) /\ ~CommandAt(q, "idle") => Trains(q)
  /\ \A p \in Commands : command[p].step = "write" => command[p].uses = dir["current"].id
  /\ dir["current"].preds \in {0, dir["current"].id}

RegistryBounds == \A n \in Names : dir[n].id <= trained

RegistryHolds == /\ CommandsFit /\ RegistryBounds /\ OneTrainer /\ InPlace /\ ServesNewest
                 /\ NothingLost /\ CycleKeeps /\ WritesWhatItRead

RegistryInd == RegistryTypeOK /\ (Apart => RegistryHolds)

LEMMA RegistryInitially == RegistryInit => RegistryInd
<1> SUFFICES ASSUME RegistryInit PROVE RegistryInd
  OBVIOUS
<1> USE RegistryAssumption DEF RegistryInit
<1>1. 0 \in Ids
  BY DEF Ids
<1>2. NoCommand \in CommandStates /\ Absent \in Bundles
  BY <1>1 DEF NoCommand, CommandStates, Modes, CommandSteps, Names, Absent, Bundles
<1>3. RegistryTypeOK
  <2>1. /\ command \in [Commands -> CommandStates] /\ dir \in [Names -> Bundles]
        /\ tmp \in [Names -> Bundles] /\ bak \in [Names -> Bundles]
    BY <1>2
  <2>2. status \in [refresh : Ids, predicted : Ids]
    BY <1>1
  <2>3. trained \in Ids /\ staging \in SUBSET (1 .. MaxModels) /\ crashes \in 0 .. 2
    BY <1>1
  <2>4. crossed \in SUBSET {"trainer", "predictor"} /\ ragged \in BOOLEAN
    OBVIOUS
  <2> HIDE DEF RegistryInit
  <2> QED BY <2>1, <2>2, <2>3, <2>4 DEF RegistryTypeOK
<1>4. \A p \in Commands : /\ command[p] = NoCommand /\ command[p].step = "idle"
                          /\ command[p].id = 0 /\ command[p].mode = "predict"
  BY DEF NoCommand
<1>5. \A n \in Names : dir[n].id = -1 /\ dir[n].preds = 0
  BY DEF Absent
<1>6. CommandsFit /\ OneTrainer /\ InPlace /\ CycleKeeps /\ WritesWhatItRead
  <2>1. CommandsFit
    BY <1>4 DEF CommandsFit, Promotes, Promoting
  <2>2. OneTrainer /\ InPlace /\ CycleKeeps
    BY <1>4 DEF OneTrainer, InPlace, CycleKeeps, Trains, Promotes, Promoting, CommandAt
  <2>3. WritesWhatItRead
    BY <1>4, <1>5 DEF WritesWhatItRead, Trains, CommandAt, Names
  <2> QED BY <2>1, <2>2, <2>3
<1>7. RegistryBounds /\ ServesNewest /\ NothingLost
  BY <1>5 DEF RegistryBounds, ServesNewest, NothingLost, Promoted, Names
<1> QED BY <1>3, <1>6, <1>7 DEF RegistryInd, RegistryHolds

\* A step that only changes one command.
LEMMA CommandTypes ==
  ASSUME RegistryTypeOK, NEW p \in Commands, NEW d \in CommandStates,
         command' = [command EXCEPT ![p] = d]
  PROVE  /\ command' \in [Commands -> CommandStates] /\ command'[p] = d
         /\ \A q \in Commands \ {p} : command'[q] = command[q]
BY DEF RegistryTypeOK

\* Where one command trains, the others predict.
LEMMA OthersPredict ==
  ASSUME RegistryTypeOK, RegistryHolds, NEW p \in Commands, Trains(p)
  PROVE  \A q \in Commands \ {p} : /\ command[q].mode = "predict"
                                   /\ ~Promotes(q) /\ ~Trains(q)
                                   /\ command[q].step \in {"idle", "load", "write", "report"}
<1> SUFFICES ASSUME NEW q \in Commands \ {p}
             PROVE  /\ command[q].mode = "predict" /\ ~Promotes(q) /\ ~Trains(q)
                    /\ command[q].step \in {"idle", "load", "write", "report"}
  OBVIOUS
<1>1. ~Trains(q)
  BY DEF RegistryHolds, OneTrainer
<1>2. command[q].mode = "predict"
  BY <1>1 DEF RegistryHolds, CommandsFit, Trains, CommandAt, NoCommand
<1>3. command[q].step \in {"idle", "load", "write", "report"}
  BY <1>2 DEF RegistryHolds, CommandsFit
<1> QED BY <1>1, <1>2, <1>3 DEF Promotes, Promoting

LEMMA PromoterTrains ==
  ASSUME RegistryTypeOK, RegistryHolds, NEW p \in Commands, Promotes(p)
  PROVE  Trains(p)
<1>1. command[p].step \notin {"idle", "load", "write", "report"}
  BY DEF Promotes, Promoting
<1> QED BY <1>1 DEF RegistryHolds, CommandsFit, Trains, CommandAt

\* A promotion goes on: what holds of the commands whatever it does.
LEMMA PromoterMovesOn ==
  ASSUME RegistryTypeOK, RegistryHolds, NEW p \in Commands, Promotes(p),
         NEW d \in CommandStates, command' = [command EXCEPT ![p] = d],
         d.mode = command[p].mode, d.id = command[p].id, d.step \in Promoting,
         d.name \in {"current", Second(d.mode)}, d.step = "tidy" => d.name # "current",
         UNCHANGED <<trained, status, crossed, ragged>>
  PROVE  /\ CommandsFit' /\ OneTrainer' /\ CycleKeeps' /\ ServesNewest'
         /\ Promotes(p)' /\ ragged'
         /\ \A q \in Commands \ {p} : ~Promotes(q)' /\ command'[q] = command[q]
         /\ ("predictor" \notin crossed => dir'["current"].preds \in {0, dir'["current"].id})
              => WritesWhatItRead'
<1>1. /\ command'[p] = d /\ \A q \in Commands \ {p} : command'[q] = command[q]
  BY CommandTypes
<1>2. Trains(p) /\ ragged
  BY PromoterTrains DEF RegistryHolds, InPlace
<1>3. \A q \in Commands \ {p} : /\ command[q].mode = "predict"
                                /\ ~Promotes(q) /\ ~Trains(q)
                                /\ command[q].step \in {"idle", "load", "write", "report"}
  BY <1>2, OthersPredict
<1>4. d.step \notin {"idle", "train", "load", "write", "report"}
  BY DEF Promoting
<1>5. Promotes(p)' /\ Trains(p)' /\ \A q \in Commands \ {p} : ~Promotes(q)' /\ ~Trains(q)'
  BY <1>1, <1>2, <1>3, <1>4 DEF Promotes, Trains, CommandAt
<1>6. CommandsFit'
  BY <1>1, <1>2, <1>3, <1>4, <1>5 DEF RegistryHolds, CommandsFit, Promotes, Trains, CommandAt
<1>7. OneTrainer' /\ ServesNewest'
  BY <1>2, <1>5 DEF OneTrainer, ServesNewest
<1>8. CycleKeeps'
  BY <1>1, <1>3, <1>4 DEF RegistryHolds, CycleKeeps
<1>9. ASSUME "predictor" \notin crossed => dir'["current"].preds \in {0, dir'["current"].id}
      PROVE  WritesWhatItRead'
  <2> SUFFICES ASSUME "predictor" \notin crossed
               PROVE  /\ \A r, q \in Commands : Trains(r)' /\ ~CommandAt(q, "idle")' => Trains(q)'
                      /\ \A q \in Commands : command'[q].step # "write"
    BY <1>9 DEF WritesWhatItRead
  <2>1. \A q \in Commands \ {p} : command[q].step = "idle"
    BY <1>2, <1>3 DEF RegistryHolds, WritesWhatItRead, CommandAt
  <2> QED BY <1>1, <1>4, <1>5, <2>1 DEF CommandAt
<1> QED BY <1>1, <1>2, <1>5, <1>6, <1>7, <1>8, <1>9

\* What holds of a command that promotes.
LEMMA PromoterIs ==
  ASSUME RegistryTypeOK, RegistryHolds, NEW p \in Commands, Promotes(p)
  PROVE  /\ command[p].id = trained /\ trained \in Nat \ {0}
         /\ command[p].name \in {"current", Second(command[p].mode)}
         /\ ragged
         /\ \A q \in Commands \ {p} : ~Promotes(q)
<1>1. trained \in Nat
  BY RegistryAssumption DEF RegistryTypeOK, Ids
<1>2. /\ command[p].id = trained /\ trained > 0 /\ ragged
      /\ command[p].name \in {"current", Second(command[p].mode)}
  BY DEF RegistryHolds, CommandsFit, InPlace
<1>3. \A q \in Commands \ {p} : ~Promotes(q)
  BY PromoterTrains, OthersPredict
<1> QED BY <1>1, <1>2, <1>3

\* What a step of a promotion has to keep of the bundles.
LEMMA PromotionStep ==
  ASSUME RegistryTypeOK, RegistryHolds, NEW p \in Commands, Promotes(p),
         NEW d \in CommandStates, command' = [command EXCEPT ![p] = d],
         d.mode = command[p].mode, d.id = command[p].id, d.step \in Promoting,
         d.name \in {"current", Second(d.mode)}, d.step = "tidy" => d.name # "current",
         UNCHANGED <<trained, status, crashes, crossed, ragged>>,
         \A m \in Names : dir'[m].id <= trained,
         "predictor" \notin crossed => dir'["current"].preds \in {0, dir'["current"].id},
         d.step \in {"aside", "move"} => tmp'[d.name] = Fresh(d.id),
         d.name # "current" \/ d.step = "drop" => dir'["current"].id = d.id,
         d.name # "current" /\ d.step \in {"drop", "tidy"} => dir'[d.name].id = d.id,
         crashes = 0 /\ Promoted' =>
           \/ dir'["current"].id > 0
           \/ bak'["current"].id > 0 /\ d.step = "move" /\ d.name = "current"
  PROVE  RegistryHolds'
<1>1. /\ CommandsFit' /\ OneTrainer' /\ CycleKeeps' /\ ServesNewest'
      /\ Promotes(p)' /\ ragged'
      /\ \A q \in Commands \ {p} : ~Promotes(q)' /\ command'[q] = command[q]
      /\ WritesWhatItRead'
  BY PromoterMovesOn
<1>2. command'[p] = d
  BY CommandTypes
<1>3. RegistryBounds'
  BY DEF RegistryBounds
<1>4. InPlace'
  BY <1>1, <1>2 DEF InPlace
<1>5. NothingLost'
  BY <1>1, <1>2 DEF NothingLost
<1> QED BY <1>1, <1>3, <1>4, <1>5 DEF RegistryHolds

\* Facts about bundles.
LEMMA BundleFacts ==
  /\ Absent \in Bundles /\ Part \in Bundles
  /\ \A v \in Ids : Fresh(v) \in Bundles /\ Fresh(v).id = v /\ Fresh(v).preds = 0
  /\ Absent.id = -1 /\ Absent.preds = 0
BY RegistryAssumption DEF Absent, Part, Fresh, Bundles, Ids

LEMMA CleanUpStep ==
  ASSUME RegistryInd, NEW p \in Commands, CleanUp(p)
  PROVE  RegistryInd'
<1> DEFINE c == command[p]
           n == c.name
           d == [c EXCEPT !.step = "make"]
<1>1. /\ c.step = "clean"
      /\ tmp' = [tmp EXCEPT ![n] = Absent] /\ bak' = [bak EXCEPT ![n] = Absent]
      /\ command' = [command EXCEPT ![p] = d]
      /\ UNCHANGED <<trained, staging, dir, status, crashes, crossed, ragged>>
  BY DEF CleanUp, CommandGoesTo, CommandAt
<1>2. RegistryTypeOK /\ c \in CommandStates /\ c.name \in Names /\ c.id \in Ids
  BY DEF RegistryInd, RegistryTypeOK, CommandStates
<1>3. /\ d \in CommandStates /\ d.step = "make" /\ d.mode = c.mode /\ d.id = c.id
      /\ d.name = n
  BY <1>2 DEF CommandStates, CommandSteps
<1> HIDE DEF d
<1>4. RegistryTypeOK'
  BY <1>1, <1>2, <1>3, BundleFacts DEF RegistryTypeOK
<1> SUFFICES ASSUME Apart PROVE RegistryHolds'
  BY <1>1, <1>4 DEF RegistryInd, Apart
<1>5. RegistryHolds /\ Promotes(p)
  BY <1>1 DEF RegistryInd, Promotes, Promoting
<1>6. /\ c.id = trained /\ trained \in Nat \ {0} /\ n \in {"current", Second(c.mode)}
      /\ \A q \in Commands \ {p} : ~Promotes(q)
  BY <1>2, <1>5, PromoterIs
<1>7. /\ "predictor" \notin crossed => dir["current"].preds \in {0, dir["current"].id}
      /\ \A m \in Names : dir[m].id <= trained
      /\ n # "current" \/ c.step = "drop" => dir["current"].id = c.id
      /\ c.step \in {"aside", "move"} => tmp[n] = Fresh(c.id)
      /\ n # "current" /\ c.step \in {"drop", "tidy"} => dir[n].id = c.id
  BY <1>5 DEF RegistryHolds, RegistryBounds, WritesWhatItRead, InPlace
<1>8. crashes = 0 /\ Promoted =>
        \/ dir["current"].id > 0
        \/ bak["current"].id > 0 /\ c.step = "move" /\ n = "current"
  BY <1>5, <1>6 DEF RegistryHolds, NothingLost, Promotes, Promoting
<1>9. /\ \A m \in Names : dir'[m].id <= trained
      /\ "predictor" \notin crossed => dir'["current"].preds \in {0, dir'["current"].id}
      /\ n # "current" => dir'["current"].id = c.id
      /\ crashes = 0 /\ Promoted' =>
           \/ dir'["current"].id > 0
           \/ bak'["current"].id > 0 /\ d.step = "move" /\ n = "current"
  BY <1>1, <1>7, <1>8 DEF Promoted
<1> HIDE DEF c, n
<1> QED BY <1>1, <1>2, <1>3, <1>5, <1>6, <1>7, <1>8, <1>9, PromotionStep DEF Promoting, c, n

LEMMA MakeTmpStep ==
  ASSUME RegistryInd, NEW p \in Commands, MakeTmp(p)
  PROVE  RegistryInd'
<1> DEFINE c == command[p]
           n == c.name
           d == [c EXCEPT !.step = "copy"]
<1>1. /\ c.step = "make"
      /\ tmp' = [tmp EXCEPT ![n] = Part]
      /\ command' = [command EXCEPT ![p] = d]
      /\ UNCHANGED <<trained, staging, dir, bak, status, crashes, crossed, ragged>>
  BY DEF MakeTmp, CommandGoesTo, CommandAt
<1>2. RegistryTypeOK /\ c \in CommandStates /\ c.name \in Names /\ c.id \in Ids
  BY DEF RegistryInd, RegistryTypeOK, CommandStates
<1>3. /\ d \in CommandStates /\ d.step = "copy" /\ d.mode = c.mode /\ d.id = c.id
      /\ d.name = n
  BY <1>2 DEF CommandStates, CommandSteps
<1> HIDE DEF d
<1>4. RegistryTypeOK'
  BY <1>1, <1>2, <1>3, BundleFacts DEF RegistryTypeOK
<1> SUFFICES ASSUME Apart PROVE RegistryHolds'
  BY <1>1, <1>4 DEF RegistryInd, Apart
<1>5. RegistryHolds /\ Promotes(p)
  BY <1>1 DEF RegistryInd, Promotes, Promoting
<1>6. /\ c.id = trained /\ trained \in Nat \ {0} /\ n \in {"current", Second(c.mode)}
      /\ \A q \in Commands \ {p} : ~Promotes(q)
  BY <1>2, <1>5, PromoterIs
<1>7. /\ "predictor" \notin crossed => dir["current"].preds \in {0, dir["current"].id}
      /\ \A m \in Names : dir[m].id <= trained
      /\ n # "current" \/ c.step = "drop" => dir["current"].id = c.id
      /\ c.step \in {"aside", "move"} => tmp[n] = Fresh(c.id)
      /\ n # "current" /\ c.step \in {"drop", "tidy"} => dir[n].id = c.id
  BY <1>5 DEF RegistryHolds, RegistryBounds, WritesWhatItRead, InPlace
<1>8. crashes = 0 /\ Promoted =>
        \/ dir["current"].id > 0
        \/ bak["current"].id > 0 /\ c.step = "move" /\ n = "current"
  BY <1>5, <1>6 DEF RegistryHolds, NothingLost, Promotes, Promoting
<1>9. /\ \A m \in Names : dir'[m].id <= trained
      /\ "predictor" \notin crossed => dir'["current"].preds \in {0, dir'["current"].id}
      /\ n # "current" => dir'["current"].id = c.id
      /\ crashes = 0 /\ Promoted' =>
           \/ dir'["current"].id > 0
           \/ bak'["current"].id > 0 /\ d.step = "move" /\ n = "current"
  BY <1>1, <1>7, <1>8 DEF Promoted
<1> HIDE DEF c, n
<1> QED BY <1>1, <1>2, <1>3, <1>5, <1>6, <1>7, <1>8, <1>9, PromotionStep DEF Promoting, c, n

LEMMA CopyTreeStep ==
  ASSUME RegistryInd, NEW p \in Commands, CopyTree(p)
  PROVE  RegistryInd'
<1> DEFINE c == command[p]
           n == c.name
           d == [c EXCEPT !.step = "aside"]
<1>1. /\ c.step = "copy"
      /\ tmp' = [tmp EXCEPT ![n] = Fresh(c.id)]
      /\ command' = [command EXCEPT ![p] = d]
      /\ UNCHANGED <<trained, staging, dir, bak, status, crashes, crossed, ragged>>
  BY DEF CopyTree, CommandGoesTo, CommandAt
<1>2. RegistryTypeOK /\ c \in CommandStates /\ c.name \in Names /\ c.id \in Ids
  BY DEF RegistryInd, RegistryTypeOK, CommandStates
<1>3. /\ d \in CommandStates /\ d.step = "aside" /\ d.mode = c.mode /\ d.id = c.id
      /\ d.name = n
  BY <1>2 DEF CommandStates, CommandSteps
<1> HIDE DEF d
<1>4. RegistryTypeOK'
  BY <1>1, <1>2, <1>3, BundleFacts DEF RegistryTypeOK
<1> SUFFICES ASSUME Apart PROVE RegistryHolds'
  BY <1>1, <1>4 DEF RegistryInd, Apart
<1>5. RegistryHolds /\ Promotes(p)
  BY <1>1 DEF RegistryInd, Promotes, Promoting
<1>6. /\ c.id = trained /\ trained \in Nat \ {0} /\ n \in {"current", Second(c.mode)}
      /\ \A q \in Commands \ {p} : ~Promotes(q)
  BY <1>2, <1>5, PromoterIs
<1>7. /\ "predictor" \notin crossed => dir["current"].preds \in {0, dir["current"].id}
      /\ \A m \in Names : dir[m].id <= trained
      /\ n # "current" \/ c.step = "drop" => dir["current"].id = c.id
      /\ c.step \in {"aside", "move"} => tmp[n] = Fresh(c.id)
      /\ n # "current" /\ c.step \in {"drop", "tidy"} => dir[n].id = c.id
  BY <1>5 DEF RegistryHolds, RegistryBounds, WritesWhatItRead, InPlace
<1>8. crashes = 0 /\ Promoted =>
        \/ dir["current"].id > 0
        \/ bak["current"].id > 0 /\ c.step = "move" /\ n = "current"
  BY <1>5, <1>6 DEF RegistryHolds, NothingLost, Promotes, Promoting
<1>9. /\ \A m \in Names : dir'[m].id <= trained
      /\ "predictor" \notin crossed => dir'["current"].preds \in {0, dir'["current"].id}
      /\ n # "current" => dir'["current"].id = c.id
      /\ tmp'[n] = Fresh(c.id)
      /\ crashes = 0 /\ Promoted' =>
           \/ dir'["current"].id > 0
           \/ bak'["current"].id > 0 /\ d.step = "move" /\ n = "current"
  BY <1>1, <1>2, <1>7, <1>8 DEF Promoted, RegistryTypeOK
<1> HIDE DEF c, n
<1> QED BY <1>1, <1>2, <1>3, <1>5, <1>6, <1>7, <1>8, <1>9, PromotionStep DEF Promoting, c, n

LEMMA SetAsideStep ==
  ASSUME RegistryInd, NEW p \in Commands, SetAside(p)
  PROVE  RegistryInd'
<1> DEFINE c == command[p]
           n == c.name
           d == [c EXCEPT !.step = "move"]
<1>1. /\ c.step = "aside"
      /\ bak' = [bak EXCEPT ![n] = IF dir[n] = Absent THEN @ ELSE dir[n]]
      /\ dir' = [dir EXCEPT ![n] = Absent]
      /\ command' = [command EXCEPT ![p] = d]
      /\ UNCHANGED <<trained, staging, tmp, status, crashes, crossed, ragged>>
  BY DEF SetAside, CommandGoesTo, CommandAt
<1>2. RegistryTypeOK /\ c \in CommandStates /\ c.name \in Names /\ c.id \in Ids
  BY DEF RegistryInd, RegistryTypeOK, CommandStates
<1>3. /\ d \in CommandStates /\ d.step = "move" /\ d.mode = c.mode /\ d.id = c.id
      /\ d.name = n
  BY <1>2 DEF CommandStates, CommandSteps
<1> HIDE DEF d
<1>4. RegistryTypeOK'
  BY <1>1, <1>2, <1>3, BundleFacts DEF RegistryTypeOK
<1> SUFFICES ASSUME Apart PROVE RegistryHolds'
  BY <1>1, <1>4 DEF RegistryInd, Apart
<1>5. RegistryHolds /\ Promotes(p)
  BY <1>1 DEF RegistryInd, Promotes, Promoting
<1>6. /\ c.id = trained /\ trained \in Nat \ {0} /\ n \in {"current", Second(c.mode)}
      /\ \A q \in Commands \ {p} : ~Promotes(q)
  BY <1>2, <1>5, PromoterIs
<1>7. /\ "predictor" \notin crossed => dir["current"].preds \in {0, dir["current"].id}
      /\ \A m \in Names : dir[m].id <= trained
      /\ n # "current" \/ c.step = "drop" => dir["current"].id = c.id
      /\ c.step \in {"aside", "move"} => tmp[n] = Fresh(c.id)
      /\ n # "current" /\ c.step \in {"drop", "tidy"} => dir[n].id = c.id
  BY <1>5 DEF RegistryHolds, RegistryBounds, WritesWhatItRead, InPlace
<1>8. crashes = 0 /\ Promoted =>
        \/ dir["current"].id > 0
        \/ bak["current"].id > 0 /\ c.step = "move" /\ n = "current"
  BY <1>5, <1>6 DEF RegistryHolds, NothingLost, Promotes, Promoting
<1>9. /\ \A m \in Names : dir'[m].id <= trained
      /\ "predictor" \notin crossed => dir'["current"].preds \in {0, dir'["current"].id}
      /\ n # "current" => dir'["current"].id = c.id
      /\ crashes = 0 /\ Promoted' =>
           \/ dir'["current"].id > 0
           \/ bak'["current"].id > 0 /\ d.step = "move" /\ n = "current"
  <2>1. /\ n # "current" => dir'["current"] = dir["current"]
        /\ n = "current" => dir'["current"] = Absent
        /\ n = "current" /\ dir["current"] # Absent => bak'["current"] = dir["current"]
        /\ \A m \in Names : dir'[m] \in {Absent, dir[m]}
    BY <1>1, <1>2 DEF RegistryTypeOK, Names
  <2>2. Promoted' => Promoted
    BY <2>1, BundleFacts DEF Promoted, Names
  <2>3. \A m \in Names : dir'[m].id <= trained
    BY <1>6, <1>7, <2>1, BundleFacts
  <2>4. /\ "predictor" \notin crossed => dir'["current"].preds \in {0, dir'["current"].id}
        /\ n # "current" => dir'["current"].id = c.id
    BY <1>7, <2>1, BundleFacts
  <2>5. ASSUME crashes = 0, Promoted'
        PROVE  \/ dir'["current"].id > 0
               \/ bak'["current"].id > 0 /\ d.step = "move" /\ n = "current"
    <3>1. dir["current"].id > 0
      BY <1>1, <1>8, <2>2, <2>5
    <3>2. dir["current"] # Absent
      BY <3>1, BundleFacts
    <3> QED BY <1>3, <2>1, <3>1, <3>2
  <2> QED BY <2>3, <2>4, <2>5
<1> HIDE DEF c, n
<1> QED BY <1>1, <1>2, <1>3, <1>5, <1>6, <1>7, <1>8, <1>9, PromotionStep DEF Promoting, c, n

LEMMA MoveInStep ==
  ASSUME RegistryInd, NEW p \in Commands, MoveIn(p)
  PROVE  RegistryInd'
<1> DEFINE c == command[p]
           n == c.name
           d == [c EXCEPT !.step = "drop"]
<1>1. /\ c.step = "move"
      /\ dir' = [dir EXCEPT ![n] = tmp[n]] /\ tmp' = [tmp EXCEPT ![n] = Absent]
      /\ command' = [command EXCEPT ![p] = d]
      /\ UNCHANGED <<trained, staging, bak, status, crashes, crossed, ragged>>
  BY DEF MoveIn, CommandGoesTo, CommandAt
<1>2. RegistryTypeOK /\ c \in CommandStates /\ c.name \in Names /\ c.id \in Ids
  BY DEF RegistryInd, RegistryTypeOK, CommandStates
<1>3. /\ d \in CommandStates /\ d.step = "drop" /\ d.mode = c.mode /\ d.id = c.id
      /\ d.name = n
  BY <1>2 DEF CommandStates, CommandSteps
<1> HIDE DEF d
<1>4. RegistryTypeOK'
  BY <1>1, <1>2, <1>3, BundleFacts DEF RegistryTypeOK
<1> SUFFICES ASSUME Apart PROVE RegistryHolds'
  BY <1>1, <1>4 DEF RegistryInd, Apart
<1>5. RegistryHolds /\ Promotes(p)
  BY <1>1 DEF RegistryInd, Promotes, Promoting
<1>6. /\ c.id = trained /\ trained \in Nat \ {0} /\ n \in {"current", Second(c.mode)}
      /\ \A q \in Commands \ {p} : ~Promotes(q)
  BY <1>2, <1>5, PromoterIs
<1>7. /\ "predictor" \notin crossed => dir["current"].preds \in {0, dir["current"].id}
      /\ \A m \in Names : dir[m].id <= trained
      /\ n # "current" \/ c.step = "drop" => dir["current"].id = c.id
      /\ c.step \in {"aside", "move"} => tmp[n] = Fresh(c.id)
      /\ n # "current" /\ c.step \in {"drop", "tidy"} => dir[n].id = c.id
  BY <1>5 DEF RegistryHolds, RegistryBounds, WritesWhatItRead, InPlace
<1>8. crashes = 0 /\ Promoted =>
        \/ dir["current"].id > 0
        \/ bak["current"].id > 0 /\ c.step = "move" /\ n = "current"
  BY <1>5, <1>6 DEF RegistryHolds, NothingLost, Promotes, Promoting
<1>9. /\ \A m \in Names : dir'[m].id <= trained
      /\ "predictor" \notin crossed => dir'["current"].preds \in {0, dir'["current"].id}
      /\ dir'["current"].id = c.id /\ dir'["current"].id > 0 /\ dir'[n].id = c.id
  <2>1. tmp[n].id = c.id /\ tmp[n].preds = 0
    BY <1>1, <1>2, <1>7, BundleFacts
  <2>2. dir'[n] = tmp[n] /\ \A m \in Names \ {n} : dir'[m] = dir[m]
    BY <1>1, <1>2 DEF RegistryTypeOK
  <2> QED BY <1>1, <1>6, <1>7, <2>1, <2>2 DEF Names
<1> HIDE DEF c, n
<1> QED BY <1>1, <1>2, <1>3, <1>5, <1>6, <1>7, <1>8, <1>9, PromotionStep DEF Promoting, c, n

LEMMA DropBackupStep ==
  ASSUME RegistryInd, NEW p \in Commands, DropBackup(p)
  PROVE  RegistryInd'
<1> DEFINE c == command[p]
           n == c.name
           d == IF n = "current" THEN [c EXCEPT !.step = "clean", !.name = Second(c.mode)]
                ELSE [c EXCEPT !.step = "tidy"]
<1>1. /\ c.step = "drop"
      /\ bak' = [bak EXCEPT ![n] = Absent] /\ command' = [command EXCEPT ![p] = d]
      /\ UNCHANGED <<trained, staging, dir, tmp, status, crashes, crossed, ragged>>
  BY DEF DropBackup, CommandAt
<1>2. RegistryTypeOK /\ c \in CommandStates /\ c.name \in Names /\ c.id \in Ids
  BY DEF RegistryInd, RegistryTypeOK, CommandStates
<1>3. /\ d \in CommandStates /\ d.mode = c.mode /\ d.id = c.id
      /\ n = "current" => d.step = "clean" /\ d.name = Second(c.mode)
      /\ n # "current" => d.step = "tidy" /\ d.name = n
  BY <1>2 DEF CommandStates, CommandSteps, Names, Second
<1> HIDE DEF d
<1>4. RegistryTypeOK'
  BY <1>1, <1>2, <1>3, BundleFacts DEF RegistryTypeOK
<1> SUFFICES ASSUME Apart PROVE RegistryHolds'
  BY <1>1, <1>4 DEF RegistryInd, Apart
<1>5. RegistryHolds /\ Promotes(p)
  BY <1>1 DEF RegistryInd, Promotes, Promoting
<1>6. c.id = trained /\ trained \in Nat \ {0} /\ n \in {"current", Second(c.mode)}
  BY <1>2, <1>5, PromoterIs
<1>7. /\ "predictor" \notin crossed => dir["current"].preds \in {0, dir["current"].id}
      /\ \A m \in Names : dir[m].id <= trained
      /\ dir["current"].id = c.id
      /\ n # "current" => dir[n].id = c.id
  BY <1>1, <1>5 DEF RegistryHolds, RegistryBounds, WritesWhatItRead, InPlace
<1>8. dir["current"].id > 0
  BY <1>6, <1>7
<1>9. Second(c.mode) # "current"
  BY DEF Second
<1> HIDE DEF c, n
<1> QED BY <1>1, <1>2, <1>3, <1>5, <1>6, <1>7, <1>8, <1>9, PromotionStep DEF Promoting, c, n

LEMMA TidyUpStep ==
  ASSUME RegistryInd, NEW p \in Commands, TidyUp(p)
  PROVE  RegistryInd'
<1> DEFINE c == command[p]
           d == [c EXCEPT !.step = IF c.mode = "cycle" THEN "load" ELSE "report",
                          !.name = "current"]
<1>1. /\ c.step = "tidy" /\ staging' = staging \ {c.id} /\ ragged' = FALSE
      /\ command' = [command EXCEPT ![p] = d]
      /\ UNCHANGED <<trained, dir, tmp, bak, status, crashes, crossed>>
  BY DEF TidyUp, CommandAt
<1>2. RegistryTypeOK /\ c \in CommandStates
  BY DEF RegistryInd, RegistryTypeOK
<1>3. /\ d \in CommandStates /\ d.mode = c.mode /\ d.id = c.id /\ d.uses = c.uses
      /\ d.step = IF c.mode = "cycle" THEN "load" ELSE "report"
  BY <1>2 DEF CommandStates, CommandSteps, Names
<1> HIDE DEF d
<1>4. RegistryTypeOK'
  BY <1>1, <1>2, <1>3 DEF RegistryTypeOK
<1> SUFFICES ASSUME Apart PROVE RegistryHolds'
  BY <1>1, <1>4 DEF RegistryInd, Apart
<1>5. RegistryHolds /\ Promotes(p) /\ Trains(p)
  BY <1>1, <1>2, PromoterTrains DEF RegistryInd, Promotes, Promoting
<1>6. /\ c.id = trained /\ trained \in Nat \ {0}
      /\ c.name # "current" /\ c.name \in {"current", Second(c.mode)}
  BY <1>1, <1>2, <1>5, PromoterIs DEF RegistryHolds, CommandsFit
<1>7. dir["current"].id = trained /\ trained \in {dir["base"].id, dir["refresh"].id}
  <2>1. dir["current"].id = trained /\ dir[c.name].id = trained
    BY <1>1, <1>5, <1>6 DEF RegistryHolds, InPlace
  <2> QED BY <1>6, <2>1 DEF Second
<1>8. /\ command'[p] = d /\ \A q \in Commands \ {p} : command'[q] = command[q]
      /\ \A q \in Commands \ {p} : command[q].mode = "predict" /\ ~Promotes(q) /\ ~Trains(q)
  BY <1>1, <1>2, <1>3, <1>5, CommandTypes, OthersPredict
<1>9. c.mode # "predict" /\ d.step \in {"load", "report"}
  BY <1>3, <1>5 DEF Trains
<1>10. /\ Trains(p)' /\ ~Promotes(p)'
       /\ \A q \in Commands \ {p} : ~Promotes(q)' /\ ~Trains(q)'
  BY <1>3, <1>8, <1>9 DEF Trains, Promotes, Promoting, CommandAt
<1>11. CommandsFit'
  BY <1>1, <1>3, <1>5, <1>8, <1>9, <1>10 DEF RegistryHolds, CommandsFit
<1>12. RegistryBounds' /\ OneTrainer' /\ InPlace'
  BY <1>1, <1>5, <1>10 DEF RegistryHolds, RegistryBounds, OneTrainer, InPlace
<1>13. ServesNewest' /\ NothingLost'
  BY <1>1, <1>6, <1>7 DEF ServesNewest, NothingLost
<1>14. CycleKeeps'
  BY <1>1, <1>3, <1>5, <1>6, <1>7, <1>8 DEF RegistryHolds, CycleKeeps
<1>15. WritesWhatItRead'
  <2> SUFFICES ASSUME "predictor" \notin crossed PROVE WritesWhatItRead'
    BY <1>1 DEF WritesWhatItRead
  <2>1. \A q \in Commands \ {p} : command[q].step = "idle"
    BY <1>5, <1>8 DEF RegistryHolds, WritesWhatItRead, CommandAt
  <2>2. dir["current"].preds \in {0, dir["current"].id}
    BY <1>5 DEF RegistryHolds, WritesWhatItRead
  <2> QED BY <1>1, <1>8, <1>9, <1>10, <2>1, <2>2 DEF WritesWhatItRead, CommandAt
<1> QED BY <1>11, <1>12, <1>13, <1>14, <1>15 DEF RegistryHolds

LEMMA TrainCandidateStep ==
  ASSUME RegistryInd, NEW p \in Commands, TrainCandidate(p)
  PROVE  RegistryInd'
<1> DEFINE c == command[p]
           d == [c EXCEPT !.step = "clean", !.id = trained + 1]
<1>1. /\ c.step = "train" /\ trained < MaxModels /\ trained' = trained + 1
      /\ staging' = staging \cup {trained + 1} /\ ragged' = TRUE
      /\ command' = [command EXCEPT ![p] = d]
      /\ UNCHANGED <<dir, tmp, bak, status, crashes, crossed>>
  BY DEF TrainCandidate, CommandAt
<1>2. RegistryTypeOK /\ c \in CommandStates
  BY DEF RegistryInd, RegistryTypeOK
<1>3. trained \in Nat /\ trained + 1 \in Ids /\ trained + 1 \in 1 .. MaxModels
  BY <1>1, <1>2, RegistryAssumption DEF RegistryTypeOK, Ids
<1>4. /\ d \in CommandStates /\ d.mode = c.mode /\ d.id = trained + 1 /\ d.step = "clean"
      /\ d.name = c.name
  BY <1>2, <1>3 DEF CommandStates, CommandSteps
<1> HIDE DEF d
<1>5. RegistryTypeOK'
  BY <1>1, <1>2, <1>3, <1>4 DEF RegistryTypeOK
<1> SUFFICES ASSUME Apart PROVE RegistryHolds'
  BY <1>1, <1>5 DEF RegistryInd, Apart
<1>6. RegistryHolds /\ Trains(p) /\ ~Promotes(p) /\ c.name = "current"
  <2>1. RegistryHolds
    BY DEF RegistryInd
  <2> QED BY <1>1, <2>1 DEF RegistryHolds, CommandsFit, Trains, Promotes, Promoting, CommandAt
<1>7. /\ command'[p] = d /\ \A q \in Commands \ {p} : command'[q] = command[q]
      /\ \A q \in Commands \ {p} : /\ command[q].mode = "predict" /\ ~Promotes(q) /\ ~Trains(q)
                                   /\ command[q].step \in {"idle", "load", "write", "report"}
  BY <1>1, <1>2, <1>4, <1>6, CommandTypes, OthersPredict
<1>8. c.mode # "predict"
  BY <1>6 DEF Trains
<1>9. /\ Trains(p)' /\ Promotes(p)'
      /\ \A q \in Commands \ {p} : ~Promotes(q)' /\ ~Trains(q)'
  BY <1>4, <1>7, <1>8 DEF Trains, Promotes, Promoting, CommandAt
<1>10. CommandsFit'
  <2>1. \A q \in Commands \ {p} : command[q].step = "write" => command[q].uses \in 1 .. trained'
    BY <1>1, <1>3, <1>6 DEF RegistryHolds, CommandsFit
  <2> QED BY <1>1, <1>3, <1>4, <1>6, <1>7, <1>8, <1>9, <2>1 DEF RegistryHolds, CommandsFit
<1>11. OneTrainer' /\ InPlace' /\ ServesNewest'
  BY <1>1, <1>4, <1>6, <1>7, <1>9 DEF OneTrainer, InPlace, ServesNewest
<1>12. RegistryBounds'
  <2>1. \A m \in Names : dir[m].id \in Int /\ dir[m].id <= trained
    BY <1>2, <1>6, RegistryAssumption
    DEF RegistryTypeOK, Bundles, Ids, RegistryHolds, RegistryBounds
  <2> QED BY <1>1, <1>3, <2>1 DEF RegistryBounds
<1>13. NothingLost'
  <2>1. \A q \in Commands : ~Promotes(q)
    BY <1>6, <1>7
  <2>2. crashes = 0 /\ Promoted => dir["current"].id > 0
    BY <1>6, <2>1 DEF RegistryHolds, NothingLost, Promotes, Promoting
  <2> QED BY <1>1, <1>9, <2>2 DEF NothingLost, Promoted
<1>14. CycleKeeps'
  BY <1>1, <1>4, <1>6, <1>7 DEF RegistryHolds, CycleKeeps
<1>15. WritesWhatItRead'
  <2> SUFFICES ASSUME "predictor" \notin crossed PROVE WritesWhatItRead'
    BY <1>1 DEF WritesWhatItRead
  <2>1. \A q \in Commands \ {p} : command[q].step = "idle"
    BY <1>6, <1>7 DEF RegistryHolds, WritesWhatItRead, CommandAt
  <2>2. dir["current"].preds \in {0, dir["current"].id}
    BY <1>6 DEF RegistryHolds, WritesWhatItRead
  <2> QED BY <1>1, <1>4, <1>7, <1>9, <2>1, <2>2 DEF WritesWhatItRead, CommandAt
<1> QED BY <1>10, <1>11, <1>12, <1>13, <1>14, <1>15 DEF RegistryHolds

\* A command that goes on outside a promotion, or stops, and leaves the bundles.
LEMMA CommandStep ==
  ASSUME RegistryTypeOK, RegistryHolds, NEW p \in Commands,
         NEW d \in CommandStates, command' = [command EXCEPT ![p] = d],
         UNCHANGED <<trained, dir, tmp, bak, ragged>>, d.step \notin Promoting,
         d.step = "idle" => d = NoCommand,
         d.mode = "predict" => d.step \in {"idle", "load", "write", "report"},
         d.step = "train" => d.id = 0 /\ d.name = "current",
         d.step = "write" => d.uses = dir["current"].id /\ d.uses > 0,
         d.mode # "predict" => Trains(p) \/ \A q \in Commands : ~Trains(q),
         d.mode = "cycle" /\ d.id # 0 =>
           /\ d.step = "load" => dir["current"].id = d.id
           /\ d.step \in {"write", "report"} => d.uses = d.id,
         status'.refresh # 0 => status'.predicted = status'.refresh,
         crashes' \in 0 .. 2, crashes' = 2 \/ crashes' = crashes + 1 \/ crashes' = crashes,
         Promotes(p) => crashes' # 0 /\ (crashes' = 1 => crashes = 0),
         crossed \subseteq crossed',
         "predictor" \notin crossed' /\ d.step # "idle" =>
           \/ d.mode = command[p].mode /\ ~CommandAt(p, "idle")
           \/ d.mode # "predict" /\ \A q \in Commands : CommandAt(q, "idle")
           \/ d.mode = "predict" /\ \A q \in Commands : ~Trains(q)
  PROVE  RegistryHolds'
<1>1. /\ command'[p] = d /\ \A q \in Commands \ {p} : command'[q] = command[q]
  BY CommandTypes
<1>2. /\ ~Promotes(p)'
      /\ Trains(p)' <=> d.mode # "predict" /\ d.step # "idle"
      /\ \A q \in Commands \ {p} : /\ Promotes(q)' <=> Promotes(q)
                                   /\ Trains(q)' <=> Trains(q)
  BY <1>1 DEF Promotes, Trains, CommandAt
<1>3. CommandsFit'
  <2>1. d.step = "write" => d.uses \in 1 .. trained
    <3>1. dir["current"].id \in Int /\ dir["current"].id <= trained /\ trained \in Nat
      BY RegistryAssumption
      DEF RegistryTypeOK, Bundles, Ids, Names, RegistryHolds, RegistryBounds
    <3> QED BY <3>1
  <2>2. /\ command'[p].step = "idle" => command'[p] = NoCommand
        /\ command'[p].mode = "predict" =>
             command'[p].step \in {"idle", "load", "write", "report"}
        /\ command'[p].step = "train" => command'[p].id = 0 /\ command'[p].name = "current"
        /\ command'[p].step = "tidy" => command'[p].name # "current"
        /\ command'[p].step = "write" => command'[p].uses \in 1 .. trained'
    BY <1>1, <2>1 DEF Promoting
  <2>3. \A q \in Commands \ {p} :
        /\ command'[q].step = "idle" => command'[q] = NoCommand
        /\ command'[q].mode = "predict" =>
             command'[q].step \in {"idle", "load", "write", "report"}
        /\ command'[q].step = "train" => command'[q].id = 0 /\ command'[q].name = "current"
        /\ Promotes(q)' => /\ command'[q].id = trained' /\ trained' > 0
                           /\ command'[q].name \in {"current", Second(command'[q].mode)}
        /\ command'[q].step = "tidy" => command'[q].name # "current"
        /\ command'[q].step = "write" => command'[q].uses \in 1 .. trained'
    BY <1>1, <1>2 DEF RegistryHolds, CommandsFit
  <2> QED BY <1>2, <2>2, <2>3 DEF CommandsFit
<1>4. RegistryBounds' /\ ServesNewest'
  BY DEF RegistryHolds, RegistryBounds, ServesNewest
<1>5. OneTrainer'
  BY <1>2 DEF RegistryHolds, OneTrainer
<1>6. InPlace'
  BY <1>1, <1>2 DEF RegistryHolds, InPlace
<1>7. CycleKeeps'
  BY <1>1 DEF RegistryHolds, CycleKeeps
<1>8. WritesWhatItRead'
  <2> SUFFICES ASSUME "predictor" \notin crossed' PROVE WritesWhatItRead'
    BY DEF WritesWhatItRead
  <2>1. /\ \A r, q \in Commands : Trains(r) /\ ~CommandAt(q, "idle") => Trains(q)
        /\ \A q \in Commands : command[q].step = "write" => command[q].uses = dir["current"].id
        /\ dir["current"].preds \in {0, dir["current"].id}
    BY DEF RegistryHolds, WritesWhatItRead
  <2>2. \A r, q \in Commands : Trains(r)' /\ ~CommandAt(q, "idle")' => Trains(q)'
    BY <1>1, <1>2, <2>1 DEF CommandAt, Trains
  <2> QED BY <1>1, <2>1, <2>2 DEF WritesWhatItRead
<1>9. NothingLost'
  <2> SUFFICES ASSUME Promoted
               PROVE  /\ crashes' = 0 => \/ dir["current"].id > 0
                                         \/ /\ bak["current"].id > 0
                                            /\ \E q \in Commands :
                                                 /\ command'[q].step = "move"
                                                 /\ command'[q].name = "current"
                      /\ crashes' <= 1 /\ (\A q \in Commands : ~Promotes(q)') =>
                           dir["current"].id > 0 \/ bak["current"].id > 0
    BY DEF NothingLost, Promoted
  <2>1. /\ crashes = 0 => \/ dir["current"].id > 0
                          \/ /\ bak["current"].id > 0
                             /\ \E q \in Commands : /\ command[q].step = "move"
                                                    /\ command[q].name = "current"
        /\ crashes <= 1 /\ (\A q \in Commands : ~Promotes(q)) =>
             dir["current"].id > 0 \/ bak["current"].id > 0
    BY DEF RegistryHolds, NothingLost
  <2>2. crashes \in 0 .. 2
    BY DEF RegistryTypeOK
  <2>3. CASE Promotes(p)
    <3>1. crashes' # 0 /\ (crashes' <= 1 => crashes = 0)
      BY <2>2, <2>3
    <3>2. crashes = 0 => dir["current"].id > 0 \/ bak["current"].id > 0
      BY <2>1
    <3> QED BY <3>1, <3>2
  <2>4. CASE ~Promotes(p)
    <3>1. crashes' = 0 => crashes = 0
      BY <2>2
    <3>2. crashes' <= 1 => crashes <= 1
      BY <2>2
    <3>3. command[p].step # "move"
      BY <2>4 DEF Promotes, Promoting
    <3> QED BY <1>1, <1>2, <2>1, <2>4, <3>1, <3>2, <3>3
  <2> QED BY <2>3, <2>4
<1> QED BY <1>3, <1>4, <1>5, <1>6, <1>7, <1>8, <1>9 DEF RegistryHolds

LEMMA NoCommandFacts ==
  /\ NoCommand \in CommandStates /\ NoCommand.step = "idle" /\ NoCommand.mode = "predict"
  /\ NoCommand.name = "current" /\ NoCommand.id = 0 /\ NoCommand.uses = 0
BY RegistryAssumption DEF NoCommand, CommandStates, Modes, CommandSteps, Names, Ids

LEMMA StartCommandStep ==
  ASSUME RegistryInd, NEW p \in Commands, NEW mode \in Modes, StartCommand(p, mode)
  PROVE  RegistryInd'
<1> DEFINE d == [NoCommand EXCEPT !.mode = mode,
                                  !.step = IF mode = "predict" THEN "load" ELSE "train"]
           met == {Kind(command[q].mode) : q \in Running}
<1>1. /\ command' = [command EXCEPT ![p] = d] /\ CommandAt(p, "idle")
      /\ crossed' = crossed \cup IF Kind(mode) = "trainer" THEN met
                                 ELSE IF "trainer" \in met THEN {"predictor"} ELSE {}
      /\ UNCHANGED <<trained, staging, dir, tmp, bak, status, crashes, ragged>>
  BY DEF StartCommand
<1>2. /\ d \in CommandStates /\ d.mode = mode /\ d.id = 0 /\ d.name = "current"
      /\ d.step = IF mode = "predict" THEN "load" ELSE "train"
  BY NoCommandFacts DEF CommandStates, CommandSteps
<1> HIDE DEF d
<1>3. RegistryTypeOK /\ crossed \subseteq crossed'
  BY <1>1 DEF RegistryInd
<1>4. RegistryTypeOK'
  <2>1. met \subseteq {"trainer", "predictor"}
    BY DEF Kind
  <2>2. crossed' \in SUBSET {"trainer", "predictor"}
    BY <1>1, <1>3, <2>1 DEF RegistryTypeOK
  <2>3. command' \in [Commands -> CommandStates]
    BY <1>1, <1>2, <1>3, CommandTypes
  <2> HIDE DEF met
  <2> QED BY <1>1, <1>3, <2>2, <2>3 DEF RegistryTypeOK
<1> SUFFICES ASSUME Apart' PROVE RegistryHolds'
  BY <1>4 DEF RegistryInd
<1>5. RegistryHolds
  BY <1>3 DEF RegistryInd, Apart
<1>6. \A q \in Commands : ~CommandAt(q, "idle") => Kind(command[q].mode) \in met
  BY DEF Running
<1> HIDE DEF met
<1>7. mode # "predict" => \A q \in Commands : ~Trains(q)
  <2> SUFFICES ASSUME mode # "predict", NEW q \in Commands PROVE ~Trains(q)
    OBVIOUS
  <2>1. "trainer" \notin met
    BY <1>1 DEF Kind, Apart
  <2> QED BY <1>6, <2>1 DEF Trains, Kind
<1>8. ASSUME "predictor" \notin crossed'
      PROVE  \/ mode # "predict" /\ \A q \in Commands : CommandAt(q, "idle")
             \/ mode = "predict" /\ \A q \in Commands : ~Trains(q)
  <2>1. CASE mode # "predict"
    <3>1. "trainer" \notin met /\ "predictor" \notin met
      BY <1>1, <1>8, <2>1 DEF Kind, Apart
    <3> QED BY <1>6, <2>1, <3>1 DEF Kind
  <2>2. CASE mode = "predict"
    <3>1. "trainer" \notin met
      BY <1>1, <1>8, <2>2 DEF Kind
    <3> QED BY <1>6, <2>2, <3>1 DEF Kind, Trains
  <2> QED BY <2>1, <2>2
<1>9. /\ ~Promotes(p) /\ crashes \in 0 .. 2 /\ d.step \notin Promoting
      /\ status.refresh # 0 => status.predicted = status.refresh
      /\ d.step # "idle" /\ d.step # "write"
  BY <1>1, <1>2, <1>3, <1>5
  DEF Promotes, Promoting, CommandAt, RegistryTypeOK, RegistryHolds, CycleKeeps
<1> QED BY <1>1, <1>2, <1>3, <1>5, <1>7, <1>8, <1>9, CommandStep

LEMMA TrainingFailsStep ==
  ASSUME RegistryInd, NEW p \in Commands, TrainingFails(p)
  PROVE  RegistryInd'
<1> DEFINE c == command[p]
           d == IF c.mode = "cycle" THEN [c EXCEPT !.step = "load"] ELSE NoCommand
<1>1. /\ c.step = "train" /\ command' = [command EXCEPT ![p] = d]
      /\ UNCHANGED <<trained, staging, dir, tmp, bak, status, crashes, crossed, ragged>>
  BY DEF TrainingFails, CommandAt
<1>2. RegistryTypeOK /\ c \in CommandStates
  BY DEF RegistryInd, RegistryTypeOK
<1>3. /\ d \in CommandStates
      /\ \/ d = NoCommand
         \/ d.mode = "cycle" /\ c.mode = "cycle" /\ d.step = "load" /\ d.id = c.id
  <2>1. CASE c.mode = "cycle"
    <3>1. d = [c EXCEPT !.step = "load"]
      BY <2>1
    <3> HIDE DEF d
    <3> QED BY <1>2, <2>1, <3>1 DEF CommandStates, CommandSteps
  <2>2. CASE c.mode # "cycle"
    <3>1. d = NoCommand
      BY <2>2
    <3> HIDE DEF d
    <3> QED BY <3>1, NoCommandFacts
  <2> QED BY <2>1, <2>2
<1> HIDE DEF d
<1>4. RegistryTypeOK'
  BY <1>1, <1>2, <1>3 DEF RegistryTypeOK
<1> SUFFICES ASSUME Apart PROVE RegistryHolds'
  BY <1>1, <1>4 DEF RegistryInd, Apart
<1>5. RegistryHolds
  BY DEF RegistryInd
<1>6. /\ c.id = 0 /\ ~Promotes(p) /\ ~CommandAt(p, "idle") /\ crashes \in 0 .. 2
      /\ c.mode # "predict" => Trains(p)
      /\ status.refresh # 0 => status.predicted = status.refresh
  BY <1>1, <1>2, <1>5 DEF RegistryHolds, CommandsFit, CycleKeeps, Promotes, Promoting,
     CommandAt, Trains, RegistryTypeOK
<1> HIDE DEF c
<1>7. d.step \notin Promoting /\ crossed \subseteq crossed'
  BY <1>1, <1>3, NoCommandFacts DEF Promoting
<1> QED BY <1>1, <1>2, <1>3, <1>5, <1>6, <1>7, NoCommandFacts, CommandStep DEF c

LEMMA LoadBundleStep ==
  ASSUME RegistryInd, NEW p \in Commands, LoadBundle(p)
  PROVE  RegistryInd'
<1> DEFINE c == command[p]
           d == [c EXCEPT !.step = "write", !.uses = dir["current"].id]
<1>1. /\ c.step = "load" /\ command' = [command EXCEPT ![p] = d] /\ dir["current"].id > 0
      /\ UNCHANGED <<trained, staging, dir, tmp, bak, status, crashes, crossed, ragged>>
  BY DEF LoadBundle, CommandAt
<1>2. RegistryTypeOK /\ c \in CommandStates /\ dir["current"].id \in Ids
  <2>1. RegistryTypeOK /\ c \in CommandStates /\ dir["current"].id \in Ids \cup {-1}
    BY DEF RegistryInd, RegistryTypeOK, Bundles, Names
  <2> QED BY <1>1, <2>1
<1>3. /\ d \in CommandStates /\ d.mode = c.mode /\ d.step = "write" /\ d.id = c.id
      /\ d.uses = dir["current"].id
  BY <1>2 DEF CommandStates, CommandSteps
<1> HIDE DEF d
<1>4. RegistryTypeOK'
  BY <1>1, <1>2, <1>3 DEF RegistryTypeOK
<1> SUFFICES ASSUME Apart PROVE RegistryHolds'
  BY <1>1, <1>4 DEF RegistryInd, Apart
<1>5. RegistryHolds
  BY DEF RegistryInd
<1>6. /\ ~Promotes(p) /\ ~CommandAt(p, "idle") /\ crashes \in 0 .. 2
      /\ c.mode # "predict" => Trains(p)
      /\ c.mode = "cycle" /\ c.id # 0 => dir["current"].id = c.id
      /\ status.refresh # 0 => status.predicted = status.refresh
  BY <1>1, <1>2, <1>5 DEF RegistryHolds, CycleKeeps, Promotes, Promoting,
     CommandAt, Trains, RegistryTypeOK
<1> HIDE DEF c
<1>7. d.step \notin Promoting /\ crossed \subseteq crossed'
  BY <1>1, <1>3 DEF Promoting
<1> QED BY <1>1, <1>2, <1>3, <1>5, <1>6, <1>7, CommandStep DEF c

LEMMA ReportStatusStep ==
  ASSUME RegistryInd, NEW p \in Commands, ReportStatus(p)
  PROVE  RegistryInd'
<1> DEFINE c == command[p]
<1>1. /\ c.step = "report" /\ command' = [command EXCEPT ![p] = NoCommand]
      /\ status' = [refresh |-> IF c.mode = "cycle" THEN c.id ELSE 0, predicted |-> c.uses]
      /\ UNCHANGED <<trained, staging, dir, tmp, bak, crashes, crossed, ragged>>
  BY DEF ReportStatus, CommandAt, Refreshed
<1>2. RegistryTypeOK /\ c.id \in Ids /\ c.uses \in Ids /\ 0 \in Ids
  BY RegistryAssumption DEF RegistryInd, RegistryTypeOK, CommandStates, Ids
<1>3. RegistryTypeOK'
  BY <1>1, <1>2, NoCommandFacts DEF RegistryTypeOK
<1> SUFFICES ASSUME Apart PROVE RegistryHolds'
  BY <1>1, <1>3 DEF RegistryInd, Apart
<1>4. RegistryHolds
  BY DEF RegistryInd
<1>5. status'.refresh # 0 => status'.predicted = status'.refresh
  BY <1>1, <1>4 DEF RegistryHolds, CycleKeeps
<1>6. ~Promotes(p) /\ crashes \in 0 .. 2 /\ "idle" \notin Promoting /\ crossed \subseteq crossed'
  BY <1>1, <1>2 DEF Promotes, Promoting, RegistryTypeOK
<1> HIDE DEF c
<1> QED BY <1>1, <1>2, <1>4, <1>5, <1>6, NoCommandFacts, CommandStep

LEMMA CycleGoesOnStep ==
  ASSUME RegistryInd, NEW p \in Commands, CycleGoesOn(p)
  PROVE  RegistryInd'
<1> DEFINE c == command[p]
           d == [c EXCEPT !.step = "load", !.name = "current", !.id = 0]
<1>1. /\ c.mode = "cycle" /\ c.step \in Promoting /\ command' = [command EXCEPT ![p] = d]
      /\ crashes' = IF crashes < 2 THEN crashes + 1 ELSE crashes
      /\ UNCHANGED <<trained, staging, dir, tmp, bak, status, crossed, ragged>>
  BY DEF CycleGoesOn
<1>2. RegistryTypeOK /\ c \in CommandStates /\ crashes \in 0 .. 2
  BY DEF RegistryInd, RegistryTypeOK
<1>3. /\ d \in CommandStates /\ d.mode = c.mode /\ d.step = "load" /\ d.id = 0
      /\ d.name = "current"
  <2>1. 0 \in Ids
    BY RegistryAssumption DEF Ids
  <2> QED BY <1>2, <2>1 DEF CommandStates, CommandSteps, Names
<1> HIDE DEF d
<1>4. /\ crashes' \in 0 .. 2 /\ crashes' # 0 /\ (crashes' = 1 => crashes = 0)
      /\ crashes' = crashes + 1 \/ crashes' = crashes
  BY <1>1, <1>2
<1>5. RegistryTypeOK'
  BY <1>1, <1>2, <1>3, <1>4 DEF RegistryTypeOK
<1> SUFFICES ASSUME Apart PROVE RegistryHolds'
  BY <1>1, <1>5 DEF RegistryInd, Apart
<1>6. RegistryHolds
  BY DEF RegistryInd
<1>7. /\ ~CommandAt(p, "idle") /\ Trains(p)
      /\ status.refresh # 0 => status.predicted = status.refresh
  BY <1>1, <1>6 DEF RegistryHolds, CycleKeeps, Promoting, CommandAt, Trains
<1> HIDE DEF c
<1>8. d.step \notin Promoting /\ crossed \subseteq crossed'
  BY <1>1, <1>3 DEF Promoting
<1> QED BY <1>1, <1>2, <1>3, <1>4, <1>6, <1>7, <1>8, CommandStep DEF c

LEMMA CommandDiesStep ==
  ASSUME RegistryInd, NEW p \in Commands, CommandDies(p)
  PROVE  RegistryInd'
<1>1. /\ command' = [command EXCEPT ![p] = NoCommand]
      /\ crashes' = IF Promotes(p) /\ crashes < 2 THEN crashes + 1 ELSE crashes
      /\ UNCHANGED <<trained, staging, dir, tmp, bak, status, crossed, ragged>>
  BY DEF CommandDies, Promotes
<1>2. RegistryTypeOK /\ crashes \in 0 .. 2
  BY DEF RegistryInd, RegistryTypeOK
<1>3. /\ crashes' \in 0 .. 2 /\ (Promotes(p) => crashes' # 0 /\ (crashes' = 1 => crashes = 0))
      /\ crashes' = crashes + 1 \/ crashes' = crashes
  <2>1. CASE Promotes(p)
    BY <1>1, <1>2, <2>1
  <2>2. CASE ~Promotes(p)
    BY <1>1, <1>2, <2>2
  <2> QED BY <2>1, <2>2
<1>4. RegistryTypeOK'
  BY <1>1, <1>2, <1>3, NoCommandFacts DEF RegistryTypeOK
<1> SUFFICES ASSUME Apart PROVE RegistryHolds'
  BY <1>1, <1>4 DEF RegistryInd, Apart
<1>5. RegistryHolds
  BY DEF RegistryInd
<1>6. /\ status.refresh # 0 => status.predicted = status.refresh
      /\ "idle" \notin Promoting /\ crossed \subseteq crossed'
  BY <1>1, <1>5 DEF RegistryHolds, CycleKeeps, Promoting
<1> QED BY <1>1, <1>2, <1>3, <1>5, <1>6, NoCommandFacts, CommandStep

\* Predictions are written into whatever current/ is by then.
LEMMA WritePredictionsStep ==
  ASSUME RegistryInd, NEW p \in Commands, WritePredictions(p)
  PROVE  RegistryInd'
<1> DEFINE c == command[p]
           b == dir["current"]
           d == IF b.id > 0 THEN [c EXCEPT !.step = "report"] ELSE NoCommand
           written == [id |-> IF b = Absent THEN 0 ELSE b.id, preds |-> c.uses]
<1>1. /\ c.step = "write" /\ command' = [command EXCEPT ![p] = d]
      /\ dir' = [dir EXCEPT !["current"] = written]
      /\ UNCHANGED <<trained, staging, tmp, bak, status, crashes, crossed, ragged>>
  BY DEF WritePredictions, CommandAt, CommandGoesTo
<1>2. RegistryTypeOK /\ c \in CommandStates /\ b \in Bundles
  BY DEF RegistryInd, RegistryTypeOK, Names
<1>3. /\ d \in CommandStates
      /\ \/ d = NoCommand
         \/ b.id > 0 /\ d.mode = c.mode /\ d.step = "report" /\ d.id = c.id /\ d.uses = c.uses
  BY <1>2, NoCommandFacts DEF CommandStates, CommandSteps
<1>4. /\ written \in Bundles /\ written.preds = c.uses
      /\ b.id > 0 => written.id = b.id
      /\ written.id \in {0, b.id}
  BY <1>2, BundleFacts, RegistryAssumption DEF Bundles, CommandStates, Ids, Absent
<1> HIDE DEF d, written
<1>5. dir'["current"] = written /\ \A m \in Names \ {"current"} : dir'[m] = dir[m]
  BY <1>1, <1>2 DEF RegistryTypeOK, Names
<1>6. RegistryTypeOK'
  BY <1>1, <1>2, <1>3, <1>4 DEF RegistryTypeOK
<1> SUFFICES ASSUME Apart PROVE RegistryHolds'
  BY <1>1, <1>6 DEF RegistryInd, Apart
<1>7. RegistryHolds
  BY DEF RegistryInd
<1>8. /\ trained \in Nat /\ trained > 0 /\ b.id \in Int /\ b.id <= trained
      /\ c.uses \in Ids /\ c.uses > 0 /\ 0 \in Ids /\ \A v \in Ids : v >= 0
  <2>1. trained \in Nat /\ c.uses \in 1 .. trained /\ c.uses \in Ids
    BY <1>1, <1>2, <1>7, RegistryAssumption
    DEF RegistryHolds, CommandsFit, RegistryTypeOK, CommandStates, Ids
  <2>2. b.id \in Int /\ b.id <= trained
    BY <1>2, <1>7 DEF RegistryHolds, RegistryBounds, Names, Bundles, Ids
  <2> QED BY <2>1, <2>2, RegistryAssumption DEF Ids
<1> HIDE DEF b, c
<1>9. /\ command'[p] = d /\ \A q \in Commands \ {p} : command'[q] = command[q]
      /\ ~Promotes(p)
  BY <1>1, <1>2, <1>3, CommandTypes DEF Promotes, Promoting, c
<1>10. /\ ~Promotes(p)' /\ (Trains(p)' => Trains(p))
       /\ d.step # "idle" => (Trains(p)' <=> Trains(p))
       /\ \A q \in Commands \ {p} : /\ Promotes(q)' <=> Promotes(q)
                                    /\ Trains(q)' <=> Trains(q)
  <2>1. d.step \notin Promoting /\ d.step \in {"idle", "report"}
    BY <1>3, NoCommandFacts DEF Promoting
  <2> QED BY <1>1, <1>3, <1>9, <2>1, NoCommandFacts DEF Promotes, Trains, CommandAt, c
<1>11. CommandsFit'
  <2>1. /\ command'[p].step = "idle" => command'[p] = NoCommand
        /\ command'[p].step \in {"idle", "report"}
    BY <1>3, <1>9, NoCommandFacts
  <2>2. \A q \in Commands \ {p} :
        /\ command'[q].step = "idle" => command'[q] = NoCommand
        /\ command'[q].mode = "predict" =>
             command'[q].step \in {"idle", "load", "write", "report"}
        /\ command'[q].step = "train" => command'[q].id = 0 /\ command'[q].name = "current"
        /\ Promotes(q)' => /\ command'[q].id = trained' /\ trained' > 0
                           /\ command'[q].name \in {"current", Second(command'[q].mode)}
        /\ command'[q].step = "tidy" => command'[q].name # "current"
        /\ command'[q].step = "write" => command'[q].uses \in 1 .. trained'
    BY <1>1, <1>7, <1>9, <1>10 DEF RegistryHolds, CommandsFit
  <2> QED BY <1>10, <2>1, <2>2 DEF CommandsFit
<1>12. OneTrainer'
  BY <1>7, <1>10 DEF RegistryHolds, OneTrainer
<1>13. RegistryBounds'
  <2>1. \A m \in Names : dir[m].id <= trained
    BY <1>7 DEF RegistryHolds, RegistryBounds
  <2>2. written.id <= trained
    BY <1>4, <1>8
  <2> QED BY <1>1, <1>5, <2>1, <2>2 DEF RegistryBounds
<1>14. InPlace'
  <2> SUFFICES ASSUME NEW q \in Commands, Promotes(q)'
               PROVE  /\ ragged
                      /\ command'[q].step \in {"aside", "move"} =>
                           tmp[command'[q].name] = Fresh(command'[q].id)
                      /\ command'[q].name # "current" \/ command'[q].step = "drop" =>
                           dir'["current"].id = command'[q].id
                      /\ command'[q].name # "current" /\ command'[q].step \in {"drop", "tidy"} =>
                           dir'[command'[q].name].id = command'[q].id
    BY <1>1 DEF InPlace
  <2>1. q # p /\ command'[q] = command[q] /\ Promotes(q)
    BY <1>9, <1>10
  <2>2. /\ ragged
        /\ command[q].step \in {"aside", "move"} =>
             tmp[command[q].name] = Fresh(command[q].id)
        /\ command[q].name # "current" \/ command[q].step = "drop" => b.id = command[q].id
        /\ command[q].name # "current" /\ command[q].step \in {"drop", "tidy"} =>
             dir[command[q].name].id = command[q].id
    BY <1>7, <2>1 DEF RegistryHolds, InPlace, b
  <2>3. command[q].id = trained /\ command[q].name \in Names
    BY <1>2, <1>7, <2>1 DEF RegistryHolds, CommandsFit, RegistryTypeOK, CommandStates
  <2>4. b.id = trained => written.id = trained
    BY <1>4, <1>8
  <2> QED BY <1>5, <2>1, <2>2, <2>3, <2>4
<1>15. ServesNewest'
  <2> SUFFICES ASSUME ~ragged
               PROVE  dir'["current"].id = trained /\ trained \in {dir'["base"].id, dir'["refresh"].id}
    BY <1>1, <1>8 DEF ServesNewest
  <2>1. b.id = trained /\ trained \in {dir["base"].id, dir["refresh"].id}
    BY <1>7, <1>8 DEF RegistryHolds, ServesNewest, b
  <2> QED BY <1>4, <1>5, <1>8, <2>1 DEF Names
<1>16. NothingLost'
  <2> SUFFICES ASSUME Promoted
               PROVE  /\ crashes = 0 => \/ dir'["current"].id > 0
                                        \/ /\ bak["current"].id > 0
                                           /\ \E q \in Commands :
                                                /\ command'[q].step = "move"
                                                /\ command'[q].name = "current"
                      /\ crashes <= 1 /\ (\A q \in Commands : ~Promotes(q)') =>
                           dir'["current"].id > 0 \/ bak["current"].id > 0
    BY <1>1, <1>5 DEF NothingLost, Promoted, Names
  <2>1. /\ crashes = 0 => \/ b.id > 0
                          \/ /\ bak["current"].id > 0
                             /\ \E q \in Commands : /\ command[q].step = "move"
                                                    /\ command[q].name = "current"
        /\ crashes <= 1 /\ (\A q \in Commands : ~Promotes(q)) =>
             b.id > 0 \/ bak["current"].id > 0
    BY <1>7 DEF RegistryHolds, NothingLost, b
  <2>2. command[p].step # "move" /\ (b.id > 0 => dir'["current"].id > 0)
    BY <1>1, <1>4, <1>5 DEF c
  <2> QED BY <1>9, <1>10, <2>1, <2>2
<1>17. CycleKeeps'
  <2>1. \A q \in Commands : command[q].mode = "cycle" /\ command[q].id # 0 =>
          /\ command[q].step = "load" => b.id = command[q].id
          /\ command[q].step \in {"write", "report"} => command[q].uses = command[q].id
    BY <1>7 DEF RegistryHolds, CycleKeeps, b
  <2>2. \A q \in Commands : command[q].id \in Int /\ command[q].id >= 0
    BY <1>2, <1>8 DEF RegistryTypeOK, CommandStates, Ids
  <2>3. ASSUME NEW q \in Commands, command'[q].mode = "cycle", command'[q].id # 0
        PROVE  /\ command'[q].step = "load" => dir'["current"].id = command'[q].id
               /\ command'[q].step \in {"write", "report"} => command'[q].uses = command'[q].id
    <3>1. CASE q = p
      BY <1>1, <1>3, <1>9, <2>1, <2>3, <3>1, NoCommandFacts DEF c
    <3>2. CASE q # p
      <4>1. command'[q] = command[q]
        BY <1>9, <3>2
      <4>2. b.id = command[q].id => dir'["current"].id = command[q].id
        BY <1>4, <1>5, <2>2, <2>3, <4>1
      <4> QED BY <2>1, <2>3, <4>1, <4>2
    <3> QED BY <3>1, <3>2
  <2>4. status'.refresh # 0 => status'.predicted = status'.refresh
    BY <1>1, <1>7 DEF RegistryHolds, CycleKeeps
  <2> QED BY <2>3, <2>4 DEF CycleKeeps
<1>18. WritesWhatItRead'
  <2> SUFFICES ASSUME "predictor" \notin crossed PROVE WritesWhatItRead'
    BY <1>1 DEF WritesWhatItRead
  <2>1. /\ \A r, q \in Commands : Trains(r) /\ ~CommandAt(q, "idle") => Trains(q)
        /\ \A q \in Commands : command[q].step = "write" => command[q].uses = b.id
    BY <1>7 DEF RegistryHolds, WritesWhatItRead, b
  <2>2. c.uses = b.id
    BY <1>1, <2>1 DEF c
  <2>3. written.id = b.id /\ written.preds = b.id
    BY <1>4, <1>8, <2>2
  <2>4. \A q \in Commands : command'[q].step = "write" => command'[q].uses = dir'["current"].id
    BY <1>3, <1>5, <1>9, <2>1, <2>3, NoCommandFacts
  <2>5. \A r, q \in Commands : Trains(r)' /\ ~CommandAt(q, "idle")' => Trains(q)'
    BY <1>1, <1>9, <1>10, <2>1 DEF CommandAt, c
  <2> QED BY <1>5, <2>3, <2>4, <2>5 DEF WritesWhatItRead
<1> QED BY <1>11, <1>12, <1>13, <1>14, <1>15, <1>16, <1>17, <1>18 DEF RegistryHolds

LEMMA RegistryStep == RegistryInd /\ [RegistryNext]_registryVars => RegistryInd'
<1> SUFFICES ASSUME RegistryInd, [RegistryNext]_registryVars PROVE RegistryInd'
  OBVIOUS
<1>1. CASE UNCHANGED registryVars
  BY <1>1 DEF registryVars, RegistryInd, RegistryTypeOK, Apart, RegistryHolds, CommandsFit,
     RegistryBounds, OneTrainer, InPlace, ServesNewest, NothingLost, Promoted, CycleKeeps,
     WritesWhatItRead, Promotes, Trains, CommandAt
<1>2. ASSUME NEW p \in Commands, NEW mode \in Modes, StartCommand(p, mode) PROVE RegistryInd'
  BY <1>2, StartCommandStep
<1>3. ASSUME NEW p \in Commands, TrainCandidate(p) \/ TrainingFails(p) PROVE RegistryInd'
  BY <1>3, TrainCandidateStep, TrainingFailsStep
<1>4. ASSUME NEW p \in Commands, Promote(p) PROVE RegistryInd'
  BY <1>4, CleanUpStep, MakeTmpStep, CopyTreeStep, SetAsideStep, MoveInStep, DropBackupStep,
     TidyUpStep DEF Promote
<1>5. ASSUME NEW p \in Commands, LoadBundle(p) \/ WritePredictions(p) \/ ReportStatus(p)
      PROVE  RegistryInd'
  BY <1>5, LoadBundleStep, WritePredictionsStep, ReportStatusStep
<1>6. ASSUME NEW p \in Commands, CycleGoesOn(p) \/ CommandDies(p) PROVE RegistryInd'
  BY <1>6, CycleGoesOnStep, CommandDiesStep
<1> QED BY <1>1, <1>2, <1>3, <1>4, <1>5, <1>6 DEF RegistryNext

LEMMA RegistryInvariant == RegistrySpec => []RegistryInd
<1> QED BY RegistryInitially, RegistryStep, PTL DEF RegistrySpec

\* Whatever predicts meanwhile, current/ holds the newer of the base and the
\* refresh after each whole promotion of run_promote_candidate(), and one that
\* dies leaves the served model in current/ or in its backup.
THEOREM CurrentAlwaysSurvives == RegistrySpec => []CurrentSurvives
<1>1. RegistryInd => CurrentSurvives
  <2> SUFFICES ASSUME RegistryInd PROVE CurrentSurvives
    OBVIOUS
  <2>1. Running = {} /\ ~ragged /\ Apart =>
          /\ dir["current"].id \in {dir["base"].id, dir["refresh"].id}
          /\ dir["current"].id >= dir["base"].id /\ dir["current"].id >= dir["refresh"].id
    <3> SUFFICES ASSUME Apart, ~ragged
                 PROVE  /\ dir["current"].id \in {dir["base"].id, dir["refresh"].id}
                        /\ dir["current"].id >= dir["base"].id
                        /\ dir["current"].id >= dir["refresh"].id
      OBVIOUS
    <3>1. /\ dir["current"].id = IF trained = 0 THEN -1 ELSE trained
          /\ IF trained = 0 THEN dir["base"].id = -1 /\ dir["refresh"].id = -1
             ELSE trained \in {dir["base"].id, dir["refresh"].id}
          /\ dir["base"].id <= trained /\ dir["refresh"].id <= trained
      BY DEF RegistryInd, RegistryHolds, ServesNewest, RegistryBounds, Names
    <3>2. trained \in Nat /\ dir["base"].id \in Int /\ dir["refresh"].id \in Int
      BY RegistryAssumption DEF RegistryInd, RegistryTypeOK, Bundles, Names, Ids
    <3> QED BY <3>1, <3>2
  <2>2. OneCrashLosesNothing
    <3> SUFFICES ASSUME crashes <= 1, Apart, Promoted, \A p \in Commands : ~Promotes(p)
                 PROVE  dir["current"].id > 0 \/ bak["current"].id > 0
      BY DEF OneCrashLosesNothing, Promoted, Promotes
    <3> QED BY DEF RegistryInd, RegistryHolds, NothingLost
  <2> QED BY <2>1, <2>2 DEF CurrentSurvives, CurrentIsNewest
<1> QED BY <1>1, RegistryInvariant, PTL

\* The predictions in current/ are those of the model in current/ as long as no
\* prediction met a promotion, and a cycle that reports a refresh has predicted
\* with it, whatever predicted or died meanwhile.
THEOREM PredictionsAlwaysTellTruth == RegistrySpec => []PredictionsTellTruth
<1>1. RegistryInd => PredictionsTellTruth
  BY DEF RegistryInd, RegistryHolds, WritesWhatItRead, CycleKeeps, PredictionsTellTruth,
     PredictionsMatchModel, CycleTellsTruth
<1> QED BY <1>1, RegistryInvariant, PTL

-----------------------------------------------------------------------------
(* The horizons of one training process.                                    *)

\* A whole set of models fitted in directory d by the run, started from "from".
OneSet(d, from) == [h \in Horizons |-> [set |-> [run |-> number, at |-> d], from |-> from]]

\* The bars before c that a simulation has not skipped, and the set a model of
\* bar c has to start from.
KeptBars(c) == {b \in Cutoffs \ skipped : b < c}
Before(c) == IF KeptBars(c) = {} THEN NoSet
             ELSE [run |-> number, at |-> CHOOSE b \in KeptBars(c) : \A x \in KeptBars(c) : x <= b]

\* The set the models in hand start from.
Started == IF init = -1 THEN NoSet ELSE [run |-> number, at |-> init]

\* Where a run stands: the set in use is older than the one being fitted, and
\* only a simulation starts from it.
WhereItStands == phase # "idle" =>
  /\ summary.run < number
  /\ kind = "candidate" => cutoff = 0
  /\ init = IF kind = "simulate" THEN usable ELSE -1
  /\ phase \in {"step", "fit", "names"} => usable < cutoff
  /\ phase = "ask" => usable <= cutoff
  /\ phase = "ask" /\ kind # "replay" => usable = cutoff
  /\ \A c \in skipped : c < cutoff

\* What the set being fitted holds so far, unless a horizon has raised.
FittedSoFar ==
  /\ phase = "fit" /\ ~broken =>
       \A h \in Horizons \ todo : models[cutoff][h] = [set |-> Own, from |-> Started]
  /\ phase = "names" => models[cutoff] = OneSet(cutoff, Started)

\* The set in use is whole.
UsableIsWhole == phase # "idle" /\ usable # -1 =>
  \E from \in Sets : /\ models[usable] = OneSet(usable, from)
                     /\ kind = "simulate" => from = Before(usable)

\* A simulation has shown what it has not skipped, and uses the newest of it.
ChainSoFar == phase # "idle" /\ kind = "simulate" =>
  /\ \A c \in KeptBars(cutoff) : /\ shown[c].run = number
                             /\ shown[c].by = OneSet(c, Before(c))
  /\ phase # "ask" /\ usable = -1 => KeptBars(cutoff) = {}
  /\ phase # "ask" /\ usable # -1 => usable \in KeptBars(cutoff) /\ \A x \in KeptBars(cutoff) : x <= usable

HorizonInd ==
  /\ HorizonTypeOK /\ summary.run <= number
  /\ WhereItStands /\ FittedSoFar /\ UsableIsWhole /\ ChainSoFar
  /\ PredictedByOneSet /\ WarmChainUnbroken

LEMMA TrainingFacts ==
  /\ Horizons \subseteq Int /\ 0 \in Cutoffs /\ Cutoffs \subseteq Nat /\ NumCutoffs - 1 \in Cutoffs
  /\ \A c \in Cutoffs : c <= NumCutoffs - 1 /\ (c # NumCutoffs - 1 => c + 1 \in Cutoffs)
  /\ NoSet \in Sets /\ Missing \in [set : Sets, from : Sets] /\ NoModels \in ModelSets
  /\ -1 \notin Cutoffs /\ Cutoffs \cup {-1} \subseteq Int
<1>1. /\ Horizons \subseteq Int /\ 0 \in Cutoffs /\ Cutoffs \subseteq Nat
      /\ NumCutoffs - 1 \in Cutoffs /\ -1 \notin Cutoffs /\ Cutoffs \cup {-1} \subseteq Int
      /\ \A c \in Cutoffs : c <= NumCutoffs - 1 /\ (c # NumCutoffs - 1 => c + 1 \in Cutoffs)
  BY TrainingAssumption DEF Horizons, Cutoffs
<1>2. NoSet \in Sets
  BY TrainingAssumption DEF NoSet, Sets
<1>3. Missing \in [set : Sets, from : Sets]
  BY <1>2 DEF Missing
<1> QED BY <1>1, <1>2, <1>3 DEF NoModels, ModelSets

LEMMA HorizonInitially == HorizonInit => HorizonInd
<1> SUFFICES ASSUME HorizonInit PROVE HorizonInd
  OBVIOUS
<1>1. /\ models = [c \in Cutoffs |-> NoModels] /\ manifest = [c \in Cutoffs |-> NoSet]
      /\ shown = [c \in Cutoffs |-> NothingShown] /\ kind = "candidate" /\ number = 0
      /\ cutoff = 0 /\ phase = "idle" /\ todo = {} /\ broken = FALSE /\ init = -1
      /\ usable = -1 /\ skipped = {} /\ summary = [run |-> 0, skipped |-> {}] /\ losses = 0
  BY DEF HorizonInit
<1>2. /\ summary \in [run : 0 .. MaxTrainings, skipped : SUBSET Cutoffs]
      /\ number \in 0 .. MaxTrainings /\ losses \in 0 .. MaxLosses
      /\ summary.run <= number
  BY <1>1, TrainingAssumption
<1>3. shown \in [Cutoffs -> [run : 0 .. MaxTrainings, by : ModelSets]]
  <2>1. NothingShown = [run |-> 0, by |-> NoModels]
    BY DEF NothingShown, NoModels
  <2>2. 0 \in 0 .. MaxTrainings
    BY TrainingAssumption
  <2> QED BY <1>1, <2>1, <2>2, TrainingFacts
<1>4. HorizonTypeOK
  BY <1>1, <1>2, <1>3, TrainingFacts DEF HorizonTypeOK, TrainingFilesTypeOK, RunKinds
<1>5. PredictedByOneSet
  BY <1>1 DEF PredictedByOneSet, NothingShown, NoModels
<1> QED BY <1>1, <1>2, <1>4, <1>5
        DEF HorizonInd, WhereItStands, FittedSoFar, UsableIsWhole, ChainSoFar, WarmChainUnbroken

\* PredictedByOneSet, of the predictions in one directory.
BySet(out, c) ==
  out.by # NoModels =>
    \E d \in 0 .. c, from \in Sets :
      out.by = [h \in Horizons |-> [set |-> [run |-> out.run, at |-> d], from |-> from]]

LEMMA ShownStays ==
  ASSUME PredictedByOneSet, UNCHANGED shown
  PROVE  PredictedByOneSet'
<1>1. \A c \in Cutoffs : BySet(shown[c], c)
  BY DEF PredictedByOneSet, BySet
<1>2. \A c \in Cutoffs : BySet(shown'[c], c)
  BY <1>1
<1> QED BY <1>2 DEF PredictedByOneSet, BySet

\* What no step of a run touches as long as it shows nothing.
LEMMA RunGoesOn ==
  ASSUME HorizonInd, phase # "idle", phase' # "idle",
         UNCHANGED <<shown, skipped, cutoff, number, kind, summary>>
  PROVE  /\ PredictedByOneSet' /\ WarmChainUnbroken' /\ summary'.run <= number'
         /\ summary'.run < number' /\ \A c \in skipped' : c < cutoff'
         /\ \A c : KeptBars(c)' = KeptBars(c) /\ Before(c)' = Before(c)
         /\ \A d, f : OneSet(d, f)' = OneSet(d, f)
         /\ kind = "simulate" => \A c \in KeptBars(cutoff)' : /\ shown'[c].run = number'
                                                          /\ shown'[c].by = OneSet(c, Before(c))'
<1>1. /\ summary.run < number /\ summary.run <= number /\ \A c \in skipped : c < cutoff
      /\ PredictedByOneSet
      /\ kind = "simulate" => \A c \in KeptBars(cutoff) : /\ shown[c].run = number
                                                      /\ shown[c].by = OneSet(c, Before(c))
  BY DEF HorizonInd, WhereItStands, ChainSoFar
<1>2. PredictedByOneSet' /\ WarmChainUnbroken'
  BY <1>1, ShownStays DEF WarmChainUnbroken
<1>3. /\ \A c : KeptBars(c)' = KeptBars(c) /\ Before(c)' = Before(c)
      /\ \A d, f : OneSet(d, f)' = OneSet(d, f)
  BY DEF KeptBars, Before, OneSet
<1>4. kind = "simulate" => \A c \in KeptBars(cutoff)' : /\ shown'[c].run = number'
                                                    /\ shown'[c].by = OneSet(c, Before(c))'
  BY <1>1 DEF KeptBars, Before, OneSet
<1> QED BY <1>1, <1>2, <1>3, <1>4

\* A run that ends without a summary.
LEMMA RunStops ==
  ASSUME HorizonInd, phase # "idle", phase' = "idle",
         UNCHANGED <<shown, number, summary>>
  PROVE  /\ summary'.run <= number' /\ WhereItStands' /\ FittedSoFar' /\ UsableIsWhole'
         /\ ChainSoFar' /\ PredictedByOneSet' /\ WarmChainUnbroken'
<1>1. summary.run < number /\ summary.run <= number /\ PredictedByOneSet
  BY DEF HorizonInd, WhereItStands
<1>2. number \in Int /\ summary.run \in Int
  BY TrainingAssumption DEF HorizonInd, HorizonTypeOK, TrainingFilesTypeOK
<1>3. summary.run # number
  BY <1>1, <1>2
<1> QED BY <1>1, <1>3 DEF WhereItStands, FittedSoFar, UsableIsWhole, ChainSoFar,
        PredictedByOneSet, WarmChainUnbroken

LEMMA StartRunStep ==
  ASSUME HorizonInd, NEW k \in RunKinds, StartRun(k)
  PROVE  HorizonInd'
<1>1. /\ phase = "idle" /\ number < MaxTrainings /\ number' = number + 1 /\ kind' = k
      /\ cutoff' = 0 /\ phase' = "step" /\ init' = -1 /\ usable' = -1 /\ skipped' = {}
      /\ UNCHANGED <<todo, broken, summary, losses>>
  BY DEF StartRun
<1>2. \/ UNCHANGED <<models, manifest, shown>>
      \/ /\ models' = [c \in Cutoffs |-> NoModels] /\ manifest' = [c \in Cutoffs |-> NoSet]
         /\ shown' = [c \in Cutoffs |-> NothingShown]
  BY DEF StartRun
<1>3. HorizonTypeOK /\ summary.run <= number /\ PredictedByOneSet
  BY DEF HorizonInd
<1>4. /\ number' \in 0 .. MaxTrainings /\ summary.run < number' /\ summary.run <= number'
  BY <1>1, <1>3, TrainingAssumption DEF HorizonTypeOK, TrainingFilesTypeOK
<1>5. NothingShown \in [run : 0 .. MaxTrainings, by : ModelSets] /\ NothingShown.by = NoModels
  BY TrainingFacts, TrainingAssumption DEF NothingShown, NoModels
<1>6. TrainingFilesTypeOK'
  BY <1>1, <1>2, <1>3, <1>5, TrainingFacts DEF HorizonTypeOK, TrainingFilesTypeOK
<1>7. HorizonTypeOK'
  BY <1>1, <1>3, <1>4, <1>6, TrainingFacts DEF HorizonTypeOK
<1>8. PredictedByOneSet'
  <2>1. CASE UNCHANGED shown
    BY <1>3, <2>1, ShownStays
  <2>2. CASE shown' = [c \in Cutoffs |-> NothingShown]
    BY <1>5, <2>2 DEF PredictedByOneSet
  <2> QED BY <1>2, <2>1, <2>2
<1>9. KeptBars(0)' = {}
  <2>1. \A b \in Cutoffs : ~(b < 0)
    BY TrainingFacts
  <2> QED BY <2>1 DEF KeptBars
<1>10. ChainSoFar'
  BY <1>1, <1>9 DEF ChainSoFar
<1> QED BY <1>1, <1>4, <1>7, <1>8, <1>10
        DEF HorizonInd, WhereItStands, FittedSoFar, UsableIsWhole, WarmChainUnbroken

LEMMA BeginSetStep ==
  ASSUME HorizonInd, BeginSet
  PROVE  HorizonInd'
<1>1. /\ phase = "step" /\ phase' = "fit" /\ todo' = Horizons /\ broken' = FALSE
      /\ UNCHANGED <<models, manifest, shown, summary, kind, number, cutoff, init, usable,
                     skipped, losses>>
  BY DEF BeginSet, trainingFiles
<1>2. HorizonTypeOK /\ WhereItStands /\ UsableIsWhole /\ ChainSoFar
  BY DEF HorizonInd
<1>3. HorizonTypeOK'
  BY <1>1, <1>2 DEF HorizonTypeOK, TrainingFilesTypeOK
<1>4. /\ PredictedByOneSet' /\ WarmChainUnbroken' /\ summary'.run <= number'
      /\ WhereItStands' /\ FittedSoFar'
  BY <1>1, <1>2, RunGoesOn DEF WhereItStands, FittedSoFar
<1>5. UsableIsWhole'
  BY <1>1, <1>2 DEF UsableIsWhole, OneSet, Before, KeptBars
<1>6. ChainSoFar'
  BY <1>1, <1>2 DEF ChainSoFar, OneSet, Before, KeptBars
<1> QED BY <1>3, <1>4, <1>5, <1>6 DEF HorizonInd

LEMMA FitStep ==
  ASSUME HorizonInd, NEW h \in Horizons, Fit(h)
  PROVE  HorizonInd'
<1> DEFINE r == [set |-> Own, from |-> StartedFrom(h)]
<1>1. /\ phase = "fit" /\ models' = [models EXCEPT ![cutoff][h] = r] /\ todo' = todo \ {h}
      /\ UNCHANGED <<manifest, shown, summary, kind, number, cutoff, phase, broken, init,
                     usable, skipped, losses>>
  BY DEF Fit
<1>2. HorizonTypeOK /\ WhereItStands /\ UsableIsWhole /\ ChainSoFar /\ FittedSoFar
  BY DEF HorizonInd
<1>3. StartedFrom(h) = Started
  <2>1. CASE init = -1
    BY <2>1 DEF StartedFrom, Started
  <2>2. CASE init # -1
    <3>1. init = usable
      BY <1>1, <1>2, <2>2 DEF WhereItStands
    <3>2. PICK from \in Sets : models[usable] = OneSet(usable, from)
      BY <1>1, <1>2, <2>2, <3>1 DEF UsableIsWhole
    <3> QED BY <2>2, <3>1, <3>2 DEF StartedFrom, Started, OneSet
  <2> QED BY <2>1, <2>2
<1>4. Own \in Sets /\ Started \in Sets
  BY <1>2, TrainingFacts DEF Own, Started, Sets, HorizonTypeOK, NoSet
<1>5. r \in [set : Sets, from : Sets] /\ r = [set |-> Own, from |-> Started]
  BY <1>3, <1>4
<1> HIDE DEF r
<1>6. /\ models' \in [Cutoffs -> ModelSets]
      /\ models'[cutoff][h] = r
      /\ \A g \in Horizons \ {h} : models'[cutoff][g] = models[cutoff][g]
      /\ \A c \in Cutoffs \ {cutoff} : models'[c] = models[c]
  BY <1>1, <1>2, <1>5 DEF HorizonTypeOK, TrainingFilesTypeOK, ModelSets
<1>7. HorizonTypeOK'
  BY <1>1, <1>2, <1>6 DEF HorizonTypeOK, TrainingFilesTypeOK
<1>8. /\ PredictedByOneSet' /\ WarmChainUnbroken' /\ summary'.run <= number' /\ WhereItStands'
  BY <1>1, <1>2, RunGoesOn DEF WhereItStands
<1>9. FittedSoFar'
  <2>1. Own' = Own /\ Started' = Started
    BY <1>1 DEF Own, Started
  <2>2. ASSUME ~broken, NEW g \in Horizons \ todo'
        PROVE  models'[cutoff][g] = [set |-> Own, from |-> Started]
    BY <1>1, <1>2, <1>5, <1>6, <2>2 DEF FittedSoFar
  <2> QED BY <1>1, <2>1, <2>2 DEF FittedSoFar
<1>10. UsableIsWhole'
  <2>1. usable < cutoff /\ usable \in Cutoffs \cup {-1} /\ cutoff \in Cutoffs
    BY <1>1, <1>2 DEF WhereItStands, HorizonTypeOK
  <2>2. usable # -1 => models'[usable] = models[usable]
    BY <1>6, <2>1, TrainingFacts
  <2> QED BY <1>1, <1>2, <2>2 DEF UsableIsWhole, OneSet, Before, KeptBars
<1>11. ChainSoFar'
  BY <1>1, <1>2 DEF ChainSoFar, OneSet, Before, KeptBars
<1> QED BY <1>7, <1>8, <1>9, <1>10, <1>11 DEF HorizonInd

LEMMA FitRaisesStep ==
  ASSUME HorizonInd, NEW h \in Horizons, FitRaises(h)
  PROVE  HorizonInd'
<1>1. /\ phase = "fit" /\ todo' = todo \ {h} /\ broken' = TRUE /\ Loss
      /\ UNCHANGED <<models, manifest, shown, summary, kind, number, cutoff, phase, init,
                     usable, skipped>>
  BY DEF FitRaises, trainingFiles
<1>2. HorizonTypeOK /\ WhereItStands /\ UsableIsWhole /\ ChainSoFar
  BY DEF HorizonInd
<1>3. losses' \in 0 .. MaxLosses
  BY <1>1, <1>2, TrainingAssumption DEF Loss, HorizonTypeOK
<1>4. HorizonTypeOK'
  BY <1>1, <1>2, <1>3 DEF HorizonTypeOK, TrainingFilesTypeOK
<1>5. /\ PredictedByOneSet' /\ WarmChainUnbroken' /\ summary'.run <= number'
      /\ WhereItStands' /\ FittedSoFar'
  BY <1>1, <1>2, RunGoesOn DEF WhereItStands, FittedSoFar
<1>6. UsableIsWhole' /\ ChainSoFar'
  BY <1>1, <1>2 DEF UsableIsWhole, ChainSoFar, OneSet, Before, KeptBars
<1> QED BY <1>4, <1>5, <1>6 DEF HorizonInd

LEMMA SetFailsStep ==
  ASSUME HorizonInd, SetFails
  PROVE  HorizonInd'
<1>1. /\ phase = "fit" /\ broken' = FALSE /\ todo' = {}
      /\ phase' = IF kind = "replay" THEN "ask" ELSE "idle"
      /\ UNCHANGED <<models, manifest, shown, summary, kind, number, cutoff, init, usable,
                     skipped, losses>>
  BY DEF SetFails, trainingFiles
<1>2. HorizonTypeOK /\ WhereItStands /\ UsableIsWhole /\ ChainSoFar
  BY DEF HorizonInd
<1>3. HorizonTypeOK'
  BY <1>1, <1>2 DEF HorizonTypeOK, TrainingFilesTypeOK
<1>4. CASE kind = "replay"
  <2>1. phase' = "ask" /\ kind' = "replay"
    BY <1>1, <1>4
  <2>2. PredictedByOneSet' /\ WarmChainUnbroken' /\ summary'.run <= number'
    BY <1>1, <2>1, RunGoesOn
  <2>3. FittedSoFar' /\ ChainSoFar'
    BY <2>1 DEF FittedSoFar, ChainSoFar
  <2>4. usable < cutoff /\ usable \in Int /\ cutoff \in Int
    BY <1>1, <1>2, TrainingFacts DEF WhereItStands, HorizonTypeOK
  <2>5. WhereItStands'
    BY <1>1, <1>2, <1>4, <2>4 DEF WhereItStands
  <2>6. UsableIsWhole'
    BY <1>1, <1>2, <1>4 DEF UsableIsWhole, OneSet
  <2> QED BY <1>3, <2>2, <2>3, <2>5, <2>6 DEF HorizonInd
<1>5. CASE kind # "replay"
  BY <1>1, <1>3, <1>5, RunStops DEF HorizonInd
<1> QED BY <1>4, <1>5

LEMMA NoSetHereStep ==
  ASSUME HorizonInd, NoSetHere
  PROVE  HorizonInd'
<1>1. /\ phase = "step" /\ kind = "replay" /\ phase' = "ask"
      /\ UNCHANGED <<models, manifest, shown, summary, kind, number, cutoff, todo, broken,
                     init, usable, skipped, losses>>
  BY DEF NoSetHere, trainingFiles
<1>2. HorizonTypeOK /\ WhereItStands /\ UsableIsWhole /\ ChainSoFar
  BY DEF HorizonInd
<1>3. HorizonTypeOK'
  BY <1>1, <1>2 DEF HorizonTypeOK, TrainingFilesTypeOK
<1>4. PredictedByOneSet' /\ WarmChainUnbroken' /\ summary'.run <= number'
  BY <1>1, RunGoesOn
<1>5. FittedSoFar' /\ ChainSoFar'
  BY <1>1 DEF FittedSoFar, ChainSoFar
<1>6. usable < cutoff /\ usable \in Int /\ cutoff \in Int
  BY <1>1, <1>2, TrainingFacts DEF WhereItStands, HorizonTypeOK
<1>7. WhereItStands'
  BY <1>1, <1>2, <1>6 DEF WhereItStands
<1>8. UsableIsWhole'
  BY <1>1, <1>2 DEF UsableIsWhole, OneSet
<1> QED BY <1>3, <1>4, <1>5, <1>7, <1>8 DEF HorizonInd

LEMMA WriteManifestStep ==
  ASSUME HorizonInd, WriteManifest
  PROVE  HorizonInd'
<1>1. /\ phase = "fit" /\ todo = {} /\ ~broken /\ phase' = "names"
      /\ manifest' = [manifest EXCEPT ![cutoff] = Own]
      /\ UNCHANGED <<models, shown, summary, kind, number, cutoff, todo, broken, init,
                     usable, skipped, losses>>
  BY DEF WriteManifest
<1>2. HorizonTypeOK /\ WhereItStands /\ UsableIsWhole /\ ChainSoFar /\ FittedSoFar
  BY DEF HorizonInd
<1>3. Own \in Sets
  BY <1>2, TrainingFacts DEF Own, Sets, HorizonTypeOK
<1>4. HorizonTypeOK'
  BY <1>1, <1>2, <1>3 DEF HorizonTypeOK, TrainingFilesTypeOK
<1>5. /\ PredictedByOneSet' /\ WarmChainUnbroken' /\ summary'.run <= number' /\ WhereItStands'
  BY <1>1, <1>2, RunGoesOn DEF WhereItStands
<1>6. FittedSoFar'
  <2>1. \A g \in Horizons : models[cutoff][g] = [set |-> Own, from |-> Started]
    BY <1>1, <1>2 DEF FittedSoFar
  <2>2. models[cutoff] = [g \in Horizons |-> models[cutoff][g]]
    BY <1>2 DEF HorizonTypeOK, TrainingFilesTypeOK, ModelSets
  <2>3. models[cutoff] = OneSet(cutoff, Started)
    BY <2>1, <2>2 DEF OneSet, Own
  <2>4. OneSet(cutoff, Started)' = OneSet(cutoff, Started)
    BY <1>1 DEF OneSet, Started
  <2> QED BY <1>1, <2>3, <2>4 DEF FittedSoFar
<1>7. UsableIsWhole' /\ ChainSoFar'
  BY <1>1, <1>2 DEF UsableIsWhole, ChainSoFar, OneSet, Before, KeptBars
<1> QED BY <1>4, <1>5, <1>6, <1>7 DEF HorizonInd

\* The newest of the bars a simulation has kept is the one CHOOSE takes.
LEMMA NewestKept ==
  ASSUME HorizonTypeOK, NEW c \in Cutoffs, NEW m \in KeptBars(c), \A x \in KeptBars(c) : x <= m
  PROVE  Before(c) = [run |-> number, at |-> m]
<1>1. KeptBars(c) \subseteq Int
  BY TrainingFacts DEF KeptBars
<1>2. PICK b : b = CHOOSE y \in KeptBars(c) : \A x \in KeptBars(c) : x <= y
  OBVIOUS
<1>3. b \in KeptBars(c) /\ \A x \in KeptBars(c) : x <= b
  BY <1>2
<1>4. b = m
  BY <1>1, <1>3
<1> QED BY <1>2, <1>4 DEF Before

\* A set that is complete comes from the set before it.
LEMMA StartedBefore ==
  ASSUME HorizonInd, phase = "names", kind = "simulate"
  PROVE  Started = Before(cutoff)
<1>1. /\ HorizonTypeOK /\ init = usable
      /\ usable = -1 => KeptBars(cutoff) = {}
      /\ usable # -1 => usable \in KeptBars(cutoff) /\ \A x \in KeptBars(cutoff) : x <= usable
  BY DEF HorizonInd, WhereItStands, ChainSoFar
<1>2. CASE usable = -1
  BY <1>1, <1>2 DEF Started, Before
<1>3. CASE usable # -1
  <2>1. cutoff \in Cutoffs /\ usable \in KeptBars(cutoff)
    BY <1>1, <1>3 DEF HorizonTypeOK
  <2>2. Before(cutoff) = [run |-> number, at |-> usable]
    BY <1>1, <1>3, <2>1, NewestKept
  <2> QED BY <1>1, <1>3, <2>2 DEF Started
<1> QED BY <1>2, <1>3

LEMMA CompleteStep ==
  ASSUME HorizonInd, Complete \/ CompleteCandidate
  PROVE  HorizonInd'
<1>1. /\ phase = "names" /\ phase' = "ask" /\ usable' = cutoff
      /\ init' = IF kind = "simulate" THEN cutoff ELSE init
      /\ UNCHANGED <<models, manifest, shown, summary, kind, number, cutoff, todo, broken,
                     skipped, losses>>
  BY DEF Complete, CompleteCandidate, trainingFiles
<1>2. HorizonTypeOK /\ WhereItStands /\ ChainSoFar /\ FittedSoFar
  BY DEF HorizonInd
<1>3. HorizonTypeOK'
  BY <1>1, <1>2 DEF HorizonTypeOK, TrainingFilesTypeOK
<1>4. /\ PredictedByOneSet' /\ WarmChainUnbroken' /\ summary'.run <= number'
      /\ summary'.run < number' /\ \A c \in skipped' : c < cutoff'
      /\ \A c : KeptBars(c)' = KeptBars(c) /\ Before(c)' = Before(c)
      /\ \A d, f : OneSet(d, f)' = OneSet(d, f)
      /\ kind = "simulate" => \A c \in KeptBars(cutoff)' : /\ shown'[c].run = number'
                                                       /\ shown'[c].by = OneSet(c, Before(c))'
  BY <1>1, RunGoesOn
<1>5. cutoff \in Cutoffs /\ cutoff # -1 /\ cutoff \in Int
  BY <1>2, TrainingFacts DEF HorizonTypeOK
<1>6. WhereItStands'
  <2>1. /\ summary'.run < number' /\ \A c \in skipped' : c < cutoff'
        /\ kind = "candidate" => cutoff = 0
        /\ init' = IF kind = "simulate" THEN cutoff ELSE -1
    BY <1>1, <1>2, <1>4 DEF WhereItStands
  <2>2. usable' <= cutoff'
    BY <1>1, <1>5
  <2> QED BY <1>1, <2>1, <2>2 DEF WhereItStands
<1>7. FittedSoFar' /\ ChainSoFar'
  BY <1>1, <1>4 DEF FittedSoFar, ChainSoFar
<1>8. UsableIsWhole'
  <2>1. models[cutoff] = OneSet(cutoff, Started)
    BY <1>1, <1>2 DEF FittedSoFar
  <2>2. Started \in Sets
    BY <1>2, TrainingFacts DEF Started, Sets, HorizonTypeOK
  <2>3. kind = "simulate" => Started = Before(cutoff)
    BY <1>1, StartedBefore
  <2>4. OneSet(cutoff, Started)' = OneSet(cutoff, Started') /\ Before(cutoff)' = Before(cutoff)
    BY <1>1 DEF OneSet, Before, KeptBars
  <2>5. \E from \in Sets : /\ models'[usable'] = [h \in Horizons |->
                               [set |-> [run |-> number', at |-> usable'], from |-> from]]
                           /\ kind' = "simulate" => from = Before(usable)'
    <3>1. Before(usable)' = Before(cutoff)
      BY <1>1 DEF Before, KeptBars
    <3> QED BY <1>1, <2>1, <2>2, <2>3, <3>1 DEF OneSet
  <2> QED BY <2>5 DEF UsableIsWhole, OneSet
<1> QED BY <1>3, <1>4, <1>6, <1>7, <1>8 DEF HorizonInd

LEMMA RunDiesStep ==
  ASSUME HorizonInd, RunDies
  PROVE  HorizonInd'
<1>1. /\ phase # "idle" /\ phase' = "idle" /\ todo' = {} /\ broken' = FALSE /\ Loss
      /\ UNCHANGED <<models, manifest, shown, summary, kind, number, cutoff, init, usable,
                     skipped>>
  BY DEF RunDies, trainingFiles
<1>2. HorizonTypeOK
  BY DEF HorizonInd
<1>3. losses' \in 0 .. MaxLosses
  BY <1>1, <1>2, TrainingAssumption DEF Loss, HorizonTypeOK
<1>4. HorizonTypeOK'
  BY <1>1, <1>2, <1>3 DEF HorizonTypeOK, TrainingFilesTypeOK
<1> QED BY <1>1, <1>4, RunStops DEF HorizonInd

\* The end of a simulation: every bar that it has not skipped is shown.
LEMMA SimulationEnds ==
  ASSUME HorizonInd, phase # "idle", kind = "simulate", LastCutoff,
         NEW passed \in SUBSET {cutoff}, summary' = Summary(passed),
         UNCHANGED <<number, kind>>,
         \A c \in KeptBars(cutoff) : shown'[c] = shown[c],
         cutoff \notin passed =>
           shown'[cutoff] = [run |-> number, by |-> OneSet(cutoff, Before(cutoff))]
  PROVE  WarmChainUnbroken'
<1>1. /\ HorizonTypeOK /\ \A c \in skipped : c < cutoff
      /\ \A c \in KeptBars(cutoff) : shown[c].run = number /\ shown[c].by = OneSet(c, Before(c))
  BY DEF HorizonInd, WhereItStands, ChainSoFar
<1>2. cutoff \in Cutoffs /\ cutoff = NumCutoffs - 1 /\ \A c \in Cutoffs : c <= cutoff
  BY <1>1, TrainingFacts DEF LastCutoff, HorizonTypeOK
<1>3. summary'.run = number /\ summary'.skipped = skipped \cup passed
  BY DEF Summary
<1> DEFINE before(c) == {b \in Cutoffs \ (skipped \cup passed) : b < c}
           from(c) == IF before(c) = {} THEN NoSet
                      ELSE [run |-> number,
                            at |-> CHOOSE b \in before(c) : \A x \in before(c) : x <= b]
<1> SUFFICES ASSUME NEW c \in Cutoffs \ (skipped \cup passed)
             PROVE  /\ shown'[c].run = number
                    /\ shown'[c].by = OneSet(c, Before(c)) /\ KeptBars(c) = before(c)
  <2>1. \A c \in Cutoffs : KeptBars(c) = before(c) => Before(c) = from(c)
    <3> SUFFICES ASSUME NEW c \in Cutoffs, KeptBars(c) = before(c) PROVE Before(c) = from(c)
      OBVIOUS
    <3> HIDE DEF before
    <3> QED BY DEF Before
  <2>2. \A c \in Cutoffs \ (skipped \cup passed) :
          /\ shown'[c].run = number
          /\ \A h \in Horizons : shown'[c].by[h] =
               [set |-> [run |-> number, at |-> c], from |-> from(c)]
    <3> SUFFICES ASSUME NEW c \in Cutoffs \ (skipped \cup passed)
                 PROVE  /\ shown'[c].run = number
                        /\ \A h \in Horizons : shown'[c].by[h] =
                             [set |-> [run |-> number, at |-> c], from |-> from(c)]
      OBVIOUS
    <3>1. /\ shown'[c].run = number
          /\ shown'[c].by = OneSet(c, Before(c)) /\ KeptBars(c) = before(c)
      OBVIOUS
    <3>2. Before(c) = from(c)
      BY <2>1, <3>1
    <3> HIDE DEF from, before
    <3> QED BY <3>1, <3>2 DEF OneSet
  <2> QED BY <1>3, <2>2 DEF WarmChainUnbroken
<1>4. c \in Int /\ cutoff \in Int /\ c <= cutoff /\ Cutoffs \subseteq Int
  BY <1>2, TrainingFacts
<1>5. KeptBars(c) = {b \in Cutoffs \ (skipped \cup passed) : b < c}
  <2>1. \A b \in Cutoffs : b < c => b \notin passed
    BY <1>4
  <2> QED BY <2>1 DEF KeptBars
<1>6. CASE c = cutoff
  BY <1>5, <1>6
<1>7. CASE c # cutoff
  <2>1. c \in KeptBars(cutoff)
    BY <1>4, <1>7 DEF KeptBars
  <2> QED BY <1>1, <1>5, <2>1
<1> QED BY <1>6, <1>7

LEMMA SkipStepStep ==
  ASSUME HorizonInd, SkipStep
  PROVE  HorizonInd'
<1>1. /\ phase = "step" /\ kind = "simulate" /\ skipped' = skipped \cup {cutoff}
      /\ UNCHANGED <<models, manifest, shown, kind, number, todo, broken, init, usable, losses>>
      /\ IF LastCutoff
         THEN phase' = "idle" /\ summary' = Summary({cutoff}) /\ UNCHANGED cutoff
         ELSE phase' = "step" /\ cutoff' = cutoff + 1 /\ UNCHANGED summary
  BY DEF SkipStep, Advance
<1>2. /\ HorizonTypeOK /\ WhereItStands /\ UsableIsWhole /\ ChainSoFar /\ PredictedByOneSet
      /\ summary.run <= number /\ cutoff \in Cutoffs
  BY DEF HorizonInd, HorizonTypeOK
<1>3. PredictedByOneSet' /\ FittedSoFar'
  <2>1. phase' \in {"idle", "step"}
    BY <1>1
  <2>2. FittedSoFar'
    BY <2>1 DEF FittedSoFar
  <2>3. shown' = shown /\ PredictedByOneSet
    BY <1>1, <1>2
  <2>4. PredictedByOneSet'
    BY <2>3, ShownStays
  <2> QED BY <2>2, <2>4
<1>4. CASE LastCutoff
  <2>1. summary' = [run |-> number, skipped |-> skipped \cup {cutoff}]
    BY <1>1, <1>4 DEF Summary
  <2>2. HorizonTypeOK' /\ summary'.run <= number'
    <3>1. skipped' \in SUBSET Cutoffs /\ phase' = "idle" /\ cutoff' = cutoff
      BY <1>1, <1>2, <1>4 DEF HorizonTypeOK
    <3>2. /\ summary' \in [run : 0 .. MaxTrainings, skipped : SUBSET Cutoffs]
          /\ summary'.run = number /\ number \in Int
      BY <1>1, <1>2, <2>1, <3>1, TrainingAssumption DEF HorizonTypeOK
    <3>3. HorizonTypeOK'
      BY <1>1, <1>2, <3>1, <3>2 DEF HorizonTypeOK, TrainingFilesTypeOK
    <3> QED BY <1>1, <3>2, <3>3
  <2>3. WarmChainUnbroken'
    <3>1. /\ \A c \in KeptBars(cutoff) : shown'[c] = shown[c]
          /\ cutoff \in {cutoff} /\ {cutoff} \in SUBSET {cutoff}
          /\ phase # "idle" /\ summary' = Summary({cutoff}) /\ UNCHANGED <<number, kind>>
      BY <1>1, <1>4
    <3> QED BY <1>1, <1>4, <3>1, SimulationEnds
  <2> QED BY <1>1, <1>3, <1>4, <2>2, <2>3 DEF HorizonInd, WhereItStands, UsableIsWhole, ChainSoFar
<1>5. CASE ~LastCutoff
  <2>1. /\ phase' = "step" /\ cutoff' = cutoff + 1 /\ summary' = summary
        /\ cutoff # NumCutoffs - 1
    BY <1>1, <1>5 DEF LastCutoff
  <2>2. cutoff' \in Cutoffs /\ cutoff \in Int /\ Cutoffs \cup {-1} \subseteq Int
    BY <1>2, <2>1, TrainingFacts
  <2>3. HorizonTypeOK'
    BY <1>1, <1>2, <2>1, <2>2 DEF HorizonTypeOK, TrainingFilesTypeOK
  <2>4. /\ usable < cutoff /\ usable \in Cutoffs \cup {-1} /\ skipped \subseteq Cutoffs
        /\ \A c \in skipped : c < cutoff
    BY <1>1, <1>2 DEF WhereItStands, HorizonTypeOK
  <2>5. \A c \in skipped' : c < cutoff'
    <3>1. \A c \in skipped : c < cutoff + 1
      BY <2>2, <2>4
    <3> QED BY <1>1, <2>1, <2>2, <3>1
  <2>6. usable < cutoff'
    BY <2>1, <2>2, <2>4
  <2>7. WhereItStands' /\ WarmChainUnbroken'
    BY <1>1, <1>2, <2>1, <2>5, <2>6 DEF WhereItStands, WarmChainUnbroken
  <2>8. \A c \in Cutoffs : c <= cutoff => KeptBars(c)' = KeptBars(c) /\ Before(c)' = Before(c)
    <3> SUFFICES ASSUME NEW c \in Cutoffs, c <= cutoff
                 PROVE  KeptBars(c)' = KeptBars(c)
      BY <1>1 DEF Before
    <3>1. \A b \in Cutoffs : b < c => b # cutoff
      BY <2>2
    <3> QED BY <1>1, <3>1 DEF KeptBars
  <2>9. KeptBars(cutoff)' = KeptBars(cutoff)
    <3>1. \A b \in Cutoffs : b # cutoff => (b < cutoff + 1 <=> b < cutoff)
      BY <2>2
    <3>2. \A b \in Cutoffs : ~(b < cutoff /\ b = cutoff)
      BY <2>2
    <3> QED BY <1>1, <2>1, <3>1, <3>2 DEF KeptBars
  <2>10. UsableIsWhole'
    <3>1. ASSUME usable # -1
          PROVE  \E from \in Sets : /\ models[usable] = OneSet(usable, from)
                                    /\ from = Before(usable)
      BY <1>1, <1>2, <3>1 DEF UsableIsWhole
    <3>2. usable # -1 => Before(usable)' = Before(usable)
      <4>1. usable # -1 => usable \in Cutoffs /\ usable <= cutoff
        BY <2>2, <2>4
      <4> QED BY <1>1, <2>8, <4>1 DEF Before, KeptBars
    <3> QED BY <1>1, <3>1, <3>2 DEF UsableIsWhole, OneSet
  <2>11. ChainSoFar'
    <3>1. \A c \in KeptBars(cutoff) : /\ c \in Cutoffs /\ c <= cutoff
                                  /\ shown[c].run = number /\ shown[c].by = OneSet(c, Before(c))
      BY <1>1, <1>2, <2>2 DEF ChainSoFar, KeptBars
    <3>2. \A c \in KeptBars(cutoff) : shown'[c].run = number' /\ shown'[c].by = OneSet(c, Before(c))'
      BY <1>1, <2>8, <3>1 DEF OneSet
    <3>3. /\ usable = -1 => KeptBars(cutoff) = {}
          /\ usable # -1 => usable \in KeptBars(cutoff) /\ \A x \in KeptBars(cutoff) : x <= usable
      BY <1>1, <1>2 DEF ChainSoFar
    <3> QED BY <1>1, <2>9, <3>2, <3>3 DEF ChainSoFar
  <2> QED BY <1>2, <1>1, <1>3, <2>1, <2>3, <2>7, <2>10, <2>11 DEF HorizonInd
<1> QED BY <1>4, <1>5

LEMMA PredictWithStep ==
  ASSUME HorizonInd, PredictWith
  PROVE  HorizonInd'
<1>1. /\ phase = "ask" /\ shown' = [shown EXCEPT ![cutoff] = StepOutput]
      /\ skipped' = skipped \cup {}
      /\ UNCHANGED <<models, manifest, kind, number, todo, broken, init, usable, losses>>
      /\ IF LastCutoff
         THEN phase' = "idle" /\ summary' = Summary({}) /\ UNCHANGED cutoff
         ELSE phase' = "step" /\ cutoff' = cutoff + 1 /\ UNCHANGED summary
  BY DEF PredictWith, Advance
<1>2. /\ HorizonTypeOK /\ WhereItStands /\ UsableIsWhole /\ ChainSoFar /\ PredictedByOneSet
      /\ summary.run <= number /\ cutoff \in Cutoffs /\ skipped' = skipped
  BY <1>1 DEF HorizonInd, HorizonTypeOK
<1>3. /\ usable \in Cutoffs \cup {-1} /\ usable <= cutoff
      /\ kind # "replay" => usable = cutoff
      /\ cutoff \in Int /\ Cutoffs \cup {-1} \subseteq Int /\ Cutoffs \subseteq Nat
      /\ cutoff # -1
      /\ kind = "candidate" => cutoff = 0
      /\ \A c \in skipped : c < cutoff
  BY <1>1, <1>2, TrainingFacts DEF WhereItStands, HorizonTypeOK
<1>4. /\ StepOutput \in [run : 0 .. MaxTrainings, by : ModelSets] /\ StepOutput.run = number
      /\ StepOutput.by = IF usable = -1 THEN NoModels ELSE models[usable]
  BY <1>2, <1>3, TrainingFacts DEF StepOutput, HorizonTypeOK, TrainingFilesTypeOK
<1>5. shown' \in [Cutoffs -> [run : 0 .. MaxTrainings, by : ModelSets]]
  BY <1>1, <1>2, <1>4 DEF HorizonTypeOK, TrainingFilesTypeOK
<1>6. shown'[cutoff] = StepOutput /\ \A c \in Cutoffs \ {cutoff} : shown'[c] = shown[c]
  BY <1>1, <1>2 DEF HorizonTypeOK, TrainingFilesTypeOK
<1>7. usable # -1 =>
        \E from \in Sets : /\ models[usable] = OneSet(usable, from)
                           /\ kind = "simulate" => from = Before(usable)
  BY <1>1, <1>2 DEF UsableIsWhole
<1>8. PredictedByOneSet'
  <2> SUFFICES ASSUME NEW c \in Cutoffs, shown'[c].by # NoModels
               PROVE  \E d \in 0 .. c, from \in Sets : shown'[c].by =
                        [h \in Horizons |-> [set |-> [run |-> shown'[c].run, at |-> d],
                                             from |-> from]]
    BY DEF PredictedByOneSet
  <2>1. CASE c # cutoff
    BY <1>2, <1>6, <2>1 DEF PredictedByOneSet
  <2>2. CASE c = cutoff
    <3>1. usable # -1 /\ usable \in 0 .. c
      <4>1. usable # -1
        BY <1>4, <1>6, <2>2
      <4>2. usable \in Nat /\ c \in Int /\ usable <= c
        BY <1>3, <2>2, <4>1
      <4> QED BY <4>1, <4>2
    <3>2. PICK from \in Sets : models[usable] = OneSet(usable, from)
      BY <1>7, <3>1
    <3>3. shown'[c].by = OneSet(usable, from) /\ shown'[c].run = number
      BY <1>4, <1>6, <2>2, <3>1, <3>2
    <3> QED BY <3>1, <3>3 DEF OneSet
  <2> QED BY <2>1, <2>2
<1>9. kind = "simulate" => /\ shown'[cutoff].run = number
                           /\ shown'[cutoff].by = OneSet(cutoff, Before(cutoff))
                           /\ StepOutput = [run |-> number, by |-> OneSet(cutoff, Before(cutoff))]
  BY <1>3, <1>4, <1>6, <1>7
<1>10. \A c \in KeptBars(cutoff) : c \in Cutoffs \ {cutoff} /\ shown'[c] = shown[c]
  <2>1. \A c \in KeptBars(cutoff) : c \in Cutoffs /\ c # cutoff
    BY <1>3 DEF KeptBars
  <2> QED BY <1>6, <2>1
<1>11. CASE LastCutoff
  <2>1. phase' = "idle" /\ summary' = Summary({}) /\ cutoff' = cutoff
    BY <1>1, <1>11
  <2>2. HorizonTypeOK' /\ summary'.run <= number'
    <3>1. /\ summary' \in [run : 0 .. MaxTrainings, skipped : SUBSET Cutoffs]
          /\ summary'.run = number /\ number \in Int
      BY <1>2, <2>1, TrainingAssumption DEF HorizonTypeOK, Summary
    <3>2. HorizonTypeOK'
      BY <1>1, <1>2, <1>5, <2>1, <3>1 DEF HorizonTypeOK, TrainingFilesTypeOK
    <3> QED BY <1>1, <3>1, <3>2
  <2>3. WarmChainUnbroken'
    <3>1. CASE kind = "simulate"
      <4>1. {} \in SUBSET {cutoff} /\ phase # "idle"
        BY <1>1
      <4>2. shown'[cutoff] = [run |-> number, by |-> OneSet(cutoff, Before(cutoff))]
        BY <1>6, <1>9, <3>1
      <4> QED BY <1>1, <1>10, <1>11, <2>1, <3>1, <4>1, <4>2, SimulationEnds
    <3>2. CASE kind # "simulate"
      BY <1>1, <3>2 DEF WarmChainUnbroken
    <3> QED BY <3>1, <3>2
  <2> QED BY <1>8, <2>1, <2>2, <2>3
          DEF HorizonInd, WhereItStands, FittedSoFar, UsableIsWhole, ChainSoFar
<1>12. CASE ~LastCutoff
  <2>1. /\ phase' = "step" /\ cutoff' = cutoff + 1 /\ summary' = summary
        /\ kind # "candidate" /\ cutoff # NumCutoffs - 1
    BY <1>1, <1>3, <1>12 DEF LastCutoff
  <2>2. cutoff' \in Cutoffs
    BY <1>2, <2>1, TrainingFacts
  <2>3. HorizonTypeOK'
    BY <1>1, <1>2, <1>5, <2>1, <2>2 DEF HorizonTypeOK, TrainingFilesTypeOK
  <2>4. usable < cutoff' /\ \A c \in skipped : c < cutoff'
    BY <1>3, <2>1, <1>2 DEF HorizonTypeOK
  <2>5. WhereItStands' /\ WarmChainUnbroken' /\ FittedSoFar'
    BY <1>1, <1>2, <2>1, <2>4 DEF WhereItStands, WarmChainUnbroken, FittedSoFar
  <2>6. /\ \A c : KeptBars(c)' = KeptBars(c) /\ Before(c)' = Before(c)
        /\ \A d, f : OneSet(d, f)' = OneSet(d, f)
    BY <1>1, <1>2 DEF KeptBars, Before, OneSet
  <2>7. UsableIsWhole'
    BY <1>1, <1>2, <1>7 DEF UsableIsWhole, OneSet, Before, KeptBars
  <2>8. ChainSoFar'
    <3> SUFFICES ASSUME kind = "simulate"
                 PROVE  /\ \A c \in KeptBars(cutoff') :
                             /\ shown'[c].run = number
                             /\ shown'[c].by = OneSet(c, Before(c))
                        /\ usable \in KeptBars(cutoff') /\ \A x \in KeptBars(cutoff') : x <= usable
                        /\ usable # -1
      BY <1>1, <1>2 DEF ChainSoFar, KeptBars, Before, OneSet
    <3>1. usable = cutoff /\ usable # -1
      BY <1>3
    <3>2. KeptBars(cutoff') = KeptBars(cutoff) \cup {cutoff}
      <4>1. \A c \in Cutoffs : c < cutoff + 1 <=> c < cutoff \/ c = cutoff
        BY <1>3
      <4>2. cutoff \notin skipped /\ cutoff \in Cutoffs
        BY <1>2, <1>3
      <4> QED BY <2>1, <4>1, <4>2 DEF KeptBars
    <3>3. \A x \in KeptBars(cutoff) : x <= cutoff
      BY <1>3 DEF KeptBars
    <3>4. \A c \in KeptBars(cutoff) : shown[c].run = number /\ shown[c].by = OneSet(c, Before(c))
      BY <1>1, <1>2 DEF ChainSoFar
    <3> QED BY <1>3, <1>9, <1>10, <3>1, <3>2, <3>3, <3>4
  <2> QED BY <1>2, <1>1, <1>8, <2>1, <2>3, <2>5, <2>7, <2>8 DEF HorizonInd
<1> QED BY <1>11, <1>12

LEMMA HorizonStep == HorizonInd /\ [HorizonNext]_trainingVars => HorizonInd'
<1> SUFFICES ASSUME HorizonInd, [HorizonNext]_trainingVars PROVE HorizonInd'
  OBVIOUS
<1>1. CASE UNCHANGED trainingVars
  <2>1. UNCHANGED <<models, manifest, shown, summary, kind, number, cutoff, phase, todo,
                    broken, init, usable, skipped, losses>>
    BY <1>1 DEF trainingVars, trainingFiles
  <2>2. HorizonTypeOK' /\ WhereItStands' /\ FittedSoFar' /\ summary'.run <= number'
    BY <2>1 DEF HorizonInd, HorizonTypeOK, TrainingFilesTypeOK, WhereItStands, FittedSoFar,
       OneSet, Started, Own
  <2>3. UsableIsWhole' /\ ChainSoFar'
    BY <2>1 DEF HorizonInd, UsableIsWhole, ChainSoFar, OneSet, Before, KeptBars
  <2>4. PredictedByOneSet'
    BY <2>1, ShownStays DEF HorizonInd
  <2>5. WarmChainUnbroken'
    BY <2>1 DEF HorizonInd, WarmChainUnbroken
  <2> QED BY <2>2, <2>3, <2>4, <2>5 DEF HorizonInd
<1>2. ASSUME NEW k \in RunKinds, StartRun(k) PROVE HorizonInd'
  BY <1>2, StartRunStep
<1>3. ASSUME NEW h \in Horizons, Fit(h) \/ FitRaises(h) PROVE HorizonInd'
  BY <1>3, FitStep, FitRaisesStep
<1>4. CASE BeginSet \/ SkipStep \/ NoSetHere \/ SetFails
  BY <1>4, BeginSetStep, SkipStepStep, NoSetHereStep, SetFailsStep
<1>5. CASE WriteManifest \/ Complete \/ CompleteCandidate \/ PredictWith \/ RunDies
  BY <1>5, WriteManifestStep, CompleteStep, PredictWithStep, RunDiesStep
<1> QED BY <1>1, <1>2, <1>3, <1>4, <1>5 DEF HorizonNext

LEMMA HorizonInvariant == HorizonSpec => []HorizonInd
<1> QED BY HorizonInitially, HorizonStep, PTL DEF HorizonSpec

\* However many horizons, workers of the pool, bars and failures: predictions
\* never come from a set that two trainings have a share in.
THEOREM AlwaysPredictedByOneSet == HorizonSpec => []PredictedByOneSet
<1>1. HorizonInd => PredictedByOneSet
  BY DEF HorizonInd
<1> QED BY <1>1, HorizonInvariant, PTL

\* A simulate_warm_refresh() that reports success has predicted every bar it
\* did not skip, with models that grew out of those of the kept bar before.
THEOREM WarmChainAlwaysUnbroken == HorizonSpec => []WarmChainUnbroken
<1>1. HorizonInd => WarmChainUnbroken
  BY DEF HorizonInd
<1> QED BY <1>1, HorizonInvariant, PTL

-----------------------------------------------------------------------------
(* Which rows are learnt from.                                              *)

\* The rows asked about are in the table, and lie after all that is learnt.
AskedLater ==
  /\ \A a \in asked : sessions[a.symbol][a.day] > 0
  /\ \A r \in learnt, a \in asked : r.day < a.day

\* The model that a replay or a simulation goes on with has learnt nothing of
\* its day.
LearntEarlier == job \in {"replay", "simulate"} => \A r \in learnt : r.day < day

SplitsInd == SplitsTypeOK /\ AskedLater /\ LearntEarlier

\* A label is of the next date that has any bar of the symbol.
LEMMA LabelIsNext ==
  ASSUME SplitsTypeOK, NEW r \in Rows, NEW e \in Days, r.day < e, sessions[r.symbol][e] > 0
  PROVE  LabelDay(r) <= e
<1>1. r.day \in Nat /\ e \in Nat /\ NumDays \in Nat /\ r.day + 1 <= e /\ e <= NumDays
  BY SplitsAssumption DEF Rows, Days
<1>2. e \in LaterDays(r.symbol, r.day, NumDays)
  BY <1>1 DEF LaterDays
<1>3. LaterDays(r.symbol, r.day, NumDays) \subseteq Nat
  BY <1>1 DEF LaterDays
<1> HIDE DEF LaterDays
<1> QED BY <1>2, <1>3, MinIsLeast DEF LabelDay

LEMMA SplitsAreSafe == SplitsInd => LearntBeforeAsked
<1> SUFFICES ASSUME SplitsInd, NEW r \in learnt, NEW a \in asked, r.symbol = a.symbol
             PROVE  r # a /\ LabelDay(r) <= a.day
  BY DEF LearntBeforeAsked
<1>1. SplitsTypeOK /\ r \in Rows /\ a \in Rows
  BY DEF SplitsInd, SplitsTypeOK
<1>2. r.day < a.day /\ sessions[a.symbol][a.day] > 0
  BY DEF SplitsInd, AskedLater
<1>3. a.day \in Days /\ r.day \in Int /\ a.day \in Int
  BY <1>1, SplitsAssumption DEF Rows, Days
<1>4. LabelDay(r) <= a.day
  BY <1>1, <1>2, <1>3, LabelIsNext
<1> QED BY <1>2, <1>3, <1>4

\* A row that is ready is in the table, and the next session of its symbol too.
LEMMA ReadyIs ==
  ASSUME SplitsTypeOK, NEW end \in Days, NEW r \in Ready(end)
  PROVE  r \in Rows /\ r.day \in Days /\ r.day < end /\ sessions[r.symbol][r.day] > 0
<1>1. /\ r \in Rows /\ r.slot < sessions[r.symbol][r.day]
      /\ LaterDays(r.symbol, r.day, end) # {}
  BY DEF Ready, HasLabel
<1>2. r.day \in Days /\ r.symbol \in Tickers /\ r.slot \in Nat /\ r.day \in Int /\ end \in Int
  BY <1>1, SplitsAssumption DEF Rows, Slots, Days
<1>3. sessions[r.symbol][r.day] \in Int
  BY <1>2, SplitsAssumption DEF SplitsTypeOK
<1>4. PICK e \in r.day + 1 .. end : TRUE
  BY <1>1 DEF LaterDays
<1> QED BY <1>1, <1>2, <1>3, <1>4

LEMMA DatesAre ==
  /\ Days \subseteq Nat /\ IsFiniteSet(Days)
  /\ \A rows \in SUBSET Rows : DatesOf(rows) \subseteq Days
<1>1. Days \subseteq Nat /\ IsFiniteSet(Days)
  BY FS_Interval, SplitsAssumption DEF Days
<1>2. \A rows \in SUBSET Rows : DatesOf(rows) \subseteq Days
  BY DEF DatesOf, Rows
<1> QED BY <1>1, <1>2

\* Of two rows, one lies before a date that the other does not.
LEMMA BetweenOrders ==
  ASSUME NEW rows \in SUBSET Rows, NEW i \in Int, NEW j \in Int, NEW start \in Int,
         NEW r \in Between(rows, i, start), NEW a \in Between(rows, start, j)
  PROVE  r.day < a.day
<1> DEFINE D == DatesOf(rows)
           Below(x) == {d \in D : d < x}
<1>1. r \in rows /\ a \in rows /\ D \subseteq Days /\ Days \subseteq Nat /\ IsFiniteSet(Days)
  BY DatesAre DEF Between
<1>2. r.day \in Int /\ a.day \in Int
  <2>1. r.day \in Days /\ a.day \in Days
    BY <1>1 DEF Rows
  <2>2. Days \subseteq Int
    BY SplitsAssumption DEF Days
  <2> HIDE DEF D
  <2> QED BY <2>1, <2>2
<1>3. Cardinality(Below(r.day)) < start /\ Cardinality(Below(a.day)) >= start
  BY DEF Between
<1> SUFFICES ASSUME a.day <= r.day PROVE FALSE
  BY <1>2
<1>4. Below(a.day) \subseteq Below(r.day) /\ Below(r.day) \subseteq Days
  <2>1. \A d \in Days : d < a.day => d < r.day
    BY <1>1, <1>2
  <2> QED BY <1>1, <2>1
<1>5. IsFiniteSet(Below(r.day))
  BY <1>1, <1>4, FS_Subset
<1>6. /\ Cardinality(Below(a.day)) <= Cardinality(Below(r.day))
      /\ Cardinality(Below(a.day)) \in Nat /\ Cardinality(Below(r.day)) \in Nat
  BY <1>4, <1>5, FS_Subset, FS_CardinalityType
<1> QED BY <1>3, <1>6

LEMMA BetweenIn == \A rows, i, j : Between(rows, i, j) \subseteq rows
BY DEF Between

\* One fold, whatever block it starts at.
LEMMA FoldIsSafe ==
  ASSUME SplitsTypeOK, NEW rows \in SUBSET Ready(NumDays), NEW start \in Int,
         learnt' = TrainRows(rows, start), asked' = TestRows(rows, start),
         job \in {"cv", "holdout"}, UNCHANGED <<sessions, job>>
  PROVE  /\ learnt' \in SUBSET Rows /\ asked' \in SUBSET Rows
         /\ AskedLater' /\ LearntEarlier'
<1>1. NumDays \in Days /\ Block \in Int
  BY SplitsAssumption DEF Days
<1>2. \A r \in rows : r \in Rows /\ sessions[r.symbol][r.day] > 0
  BY <1>1, ReadyIs
<1>3. learnt' \subseteq rows /\ asked' \subseteq rows
  BY BetweenIn DEF TrainRows, TestRows
<1>4. \A r \in learnt', a \in asked' : r.day < a.day
  <2>1. rows \in SUBSET Rows /\ start + Block \in Int
    BY <1>1, <1>2
  <2> QED BY <2>1, BetweenOrders DEF TrainRows, TestRows
<1> QED BY <1>2, <1>3, <1>4 DEF AskedLater, LearntEarlier

\* walkforward_folds() starts its blocks at whole numbers.
LEMMA StartIsWhole ==
  ASSUME NEW n \in Nat, NEW k \in 0 .. NumFolds - 1
  PROVE  TestStart(n, k) \in Int
<1>1. NumFolds - 1 \in Nat \ {0} /\ MinStart \in Nat /\ Block \in Nat /\ k \in Int
  BY SplitsAssumption
<1>2. FirstStart(n) \in Int
  <2> DEFINE half == n \div 2
  <2>1. half \in Int
    OBVIOUS
  <2> HIDE DEF half
  <2>2. \E x \in {half, MinStart} : \A y \in {half, MinStart} : x >= y
    BY <1>1, <2>1
  <2>3. Max({half, MinStart}) \in {half, MinStart}
    BY <2>2 DEF Max
  <2> QED BY <1>1, <2>1, <2>3 DEF FirstStart, half
<1> DEFINE m == k * (LastStart(n) - FirstStart(n))
           q == m \div (NumFolds - 1)
<1>3. m \in Int
  BY <1>1, <1>2 DEF LastStart
<1>4. \A x \in Int, y \in Nat \ {0} : x \div y \in Int
  OBVIOUS
<1>5. TestStart(n, k) = FirstStart(n) + q
  BY DEF TestStart
<1> HIDE DEF m
<1>6. q \in Int
  BY <1>1, <1>3, <1>4
<1> HIDE DEF q
<1> QED BY <1>2, <1>5, <1>6

LEMMA SplitsInitially == SplitsInit => SplitsInd
<1> SUFFICES ASSUME SplitsInit PROVE SplitsInd
  OBVIOUS
<1>1. sessions \in [Tickers -> [Days -> 0 .. NumSlots]] /\ job \in Jobs
  BY DEF SplitsInit
<1>2. day \in Days /\ step \in 0 .. NumFolds + NumSlots
  BY SplitsAssumption DEF SplitsInit, Days
<1>3. learnt = {} /\ asked = {}
  BY DEF SplitsInit
<1> QED BY <1>1, <1>2, <1>3 DEF SplitsInd, SplitsTypeOK, AskedLater, LearntEarlier

LEMMA TestFoldStep ==
  ASSUME SplitsInd, TestFold
  PROVE  SplitsInd'
<1> DEFINE rows == Ready(NumDays)
           n == Cardinality(DatesOf(rows))
           start == Folds[step]
<1>1. /\ job = "cv" /\ step < NumFolds /\ step' = step + 1
      /\ learnt' = TrainRows(rows, start) /\ asked' = TestRows(rows, start)
      /\ UNCHANGED <<sessions, job, day>>
  BY DEF TestFold
<1>2. SplitsTypeOK /\ NumFolds \in Nat /\ NumSlots \in Nat /\ step \in Nat
  BY SplitsAssumption DEF SplitsInd, SplitsTypeOK
<1>3. n \in Nat
  <2>1. DatesOf(rows) \subseteq Days /\ IsFiniteSet(Days)
    <3>1. rows \in SUBSET Rows
      BY DEF Ready
    <3> QED BY <3>1, DatesAre
  <2> QED BY <2>1, FS_Subset, FS_CardinalityType
<1>4. start \in Int
  <2>1. step \in 0 .. NumFolds - 1
    BY <1>1, <1>2
  <2>2. start = TestStart(n, step)
    BY <2>1 DEF Folds
  <2> HIDE DEF n, start
  <2> QED BY <1>3, <2>1, <2>2, StartIsWhole
<1>5. step' \in 0 .. NumFolds + NumSlots
  BY <1>1, <1>2
<1> HIDE DEF rows, start
<1>6. /\ learnt' \in SUBSET Rows /\ asked' \in SUBSET Rows /\ AskedLater' /\ LearntEarlier'
  BY <1>1, <1>2, <1>4, FoldIsSafe DEF rows
<1> QED BY <1>1, <1>2, <1>5, <1>6 DEF SplitsInd, SplitsTypeOK

LEMMA TestHoldoutStep ==
  ASSUME SplitsInd, NEW recent \in {RefreshDays, WarmDays}, TestHoldout(recent)
  PROVE  SplitsInd'
<1> DEFINE rows == Recent(Ready(NumDays), recent)
           start == Cardinality(DatesOf(rows)) - Block
<1>1. /\ job = "holdout" /\ step' = 1
      /\ learnt' = TrainRows(rows, start) /\ asked' = TestRows(rows, start)
      /\ UNCHANGED <<sessions, job, day>>
  BY DEF TestHoldout
<1>2. SplitsTypeOK /\ 1 \in 0 .. NumFolds + NumSlots
  BY SplitsAssumption DEF SplitsInd
<1>3. start \in Int
  <2>1. DatesOf(rows) \subseteq Days /\ IsFiniteSet(Days)
    <3>1. rows \in SUBSET Rows
      BY DEF Recent, Ready
    <3> QED BY <3>1, DatesAre
  <2>2. Cardinality(DatesOf(rows)) \in Nat
    BY <2>1, FS_Subset, FS_CardinalityType
  <2> QED BY <2>2, SplitsAssumption
<1>4. rows \in SUBSET Ready(NumDays)
  BY DEF Recent
<1> HIDE DEF rows, start
<1>5. /\ learnt' \in SUBSET Rows /\ asked' \in SUBSET Rows /\ AskedLater' /\ LearntEarlier'
  BY <1>1, <1>2, <1>3, <1>4, FoldIsSafe
<1> QED BY <1>1, <1>2, <1>5 DEF SplitsInd, SplitsTypeOK

LEMMA ReplayStepStep ==
  ASSUME SplitsInd, NEW fits \in BOOLEAN, ReplayStep(fits)
  PROVE  SplitsInd'
<1>1. /\ job = "replay" /\ step < NumSlots /\ step' = step + 1
      /\ learnt' \subseteq History \cup learnt
      /\ asked' \subseteq {r \in Ready(NumDays) : r.day = day}
      /\ UNCHANGED <<sessions, job, day>>
  BY DEF ReplayStep, Recent, Replayed, ReplayRows
<1>2. /\ SplitsTypeOK /\ NumDays \in Days /\ step' \in 0 .. NumFolds + NumSlots
      /\ \A r \in learnt : r.day < day
  BY <1>1, SplitsAssumption DEF SplitsInd, SplitsTypeOK, LearntEarlier, Days
<1>3. \A r \in Ready(NumDays) : r \in Rows /\ sessions[r.symbol][r.day] > 0
  BY <1>2, ReadyIs
<1>4. learnt' \in SUBSET Rows /\ asked' \in SUBSET Rows
  BY <1>1, <1>2, <1>3 DEF History, SplitsTypeOK
<1>5. \A r \in learnt' : r.day < day
  BY <1>1, <1>2 DEF History
<1>6. \A a \in asked' : a.day = day /\ sessions[a.symbol][a.day] > 0
  BY <1>1, <1>3
<1> QED BY <1>1, <1>2, <1>4, <1>5, <1>6 DEF SplitsInd, SplitsTypeOK, AskedLater, LearntEarlier

LEMMA SimulateStepStep ==
  ASSUME SplitsInd, SimulateStep
  PROVE  SplitsInd'
<1>1. /\ job = "simulate" /\ step < NumSlots /\ step' = step + 1
      /\ learnt' \subseteq learnt \cup Ready(day)
      /\ asked' \subseteq {r \in Rows : r.day = day /\ r.slot < sessions[r.symbol][day]}
      /\ UNCHANGED <<sessions, job, day>>
  BY DEF SimulateStep, Recent
<1>2. /\ SplitsTypeOK /\ day \in Days /\ step' \in 0 .. NumFolds + NumSlots
      /\ \A r \in learnt : r.day < day
  BY <1>1, SplitsAssumption DEF SplitsInd, SplitsTypeOK, LearntEarlier
<1>3. \A r \in Ready(day) : r \in Rows /\ r.day < day
  BY <1>2, ReadyIs
<1>4. learnt' \in SUBSET Rows /\ asked' \in SUBSET Rows /\ \A r \in learnt' : r.day < day
  BY <1>1, <1>2, <1>3 DEF SplitsTypeOK
<1>5. \A a \in asked' : a.day = day /\ sessions[a.symbol][a.day] > 0
  <2> SUFFICES ASSUME NEW a \in asked' PROVE a.day = day /\ sessions[a.symbol][a.day] > 0
    OBVIOUS
  <2>1. a \in Rows /\ a.day = day /\ a.slot < sessions[a.symbol][a.day]
    BY <1>1
  <2>2. a.slot \in Nat /\ sessions[a.symbol][a.day] \in Int
    BY <1>2, <2>1, SplitsAssumption DEF Rows, Slots, SplitsTypeOK
  <2> QED BY <2>1, <2>2
<1> QED BY <1>1, <1>2, <1>4, <1>5 DEF SplitsInd, SplitsTypeOK, AskedLater, LearntEarlier

LEMMA SplitsInvariant == SplitsSpec => []SplitsInd
<1>1. SplitsInd /\ [SplitsNext]_splitsVars => SplitsInd'
  <2> SUFFICES ASSUME SplitsInd, [SplitsNext]_splitsVars PROVE SplitsInd'
    OBVIOUS
  <2>1. CASE UNCHANGED splitsVars
    BY <2>1 DEF splitsVars, SplitsInd, SplitsTypeOK, AskedLater, LearntEarlier
  <2>2. CASE TestFold \/ SimulateStep
    BY <2>2, TestFoldStep, SimulateStepStep
  <2>3. ASSUME NEW recent \in {RefreshDays, WarmDays}, TestHoldout(recent) PROVE SplitsInd'
    BY <2>3, TestHoldoutStep
  <2>4. ASSUME NEW fits \in BOOLEAN, ReplayStep(fits) PROVE SplitsInd'
    BY <2>4, ReplayStepStep
  <2> QED BY <2>1, <2>2, <2>3, <2>4 DEF SplitsNext
<1> QED BY <1>1, SplitsInitially, PTL DEF SplitsSpec

\* For every table, however ragged its sessions, and every fold, holdout,
\* replay and simulation: no model has learnt a session of a symbol that lies
\* after the date of a row it is asked about.
THEOREM AlwaysLearntBeforeAsked == SplitsSpec => []LearntBeforeAsked
<1> QED BY SplitsInvariant, SplitsAreSafe, PTL

-----------------------------------------------------------------------------
(* Which bars a feature is made of.                                         *)

\* What was in the table up to the row that was answered.
RowsBelow == {n \in InTable : n <= vector.row}

\* An answer that no gap was filled behind is still the one its rows give.
AnswerFits == vector.row # -1 /\ ~late =>
  /\ vector.row \in InTable
  /\ vector.loaded \in {RecentDays(RowsBelow, PredictDays),
                        NewestOf(RowsBelow, ServeDays * SessionBars)}
  /\ vector.features = FeaturesOf(vector.loaded, vector.row)
  /\ vector.settled => Settled(vector.loaded)

NothingAhead == \A n \in TableBars : n >= closed => table[n] = "none"

FeatureInd == FeatureTypeOK /\ NothingAhead /\ AnswerFits

LEMMA FeatureNumbers ==
  /\ TableDays \in Nat \ {0} /\ SessionBars \in Nat \ {0} /\ RollDays \in Nat \ {0}
  /\ ServeDays \in Nat \ {0} /\ TrainDays \in Nat \ {0} /\ PredictDays \in Nat \ {0}
  /\ ServeDays > RollDays
  /\ TableDays * SessionBars \in Nat /\ ServeDays * SessionBars \in Nat \ {0}
  /\ TableBars \subseteq Nat
  /\ \A n \in TableBars : n <= TableDays * SessionBars
<1>1. /\ TableDays \in Nat \ {0} /\ SessionBars \in Nat \ {0} /\ RollDays \in Nat \ {0}
      /\ ServeDays \in Nat \ {0} /\ TrainDays \in Nat \ {0} /\ PredictDays \in Nat \ {0}
      /\ ServeDays > RollDays
  BY FeaturesAssumption
<1>2. TableDays * SessionBars \in Nat /\ ServeDays * SessionBars \in Nat \ {0}
  BY <1>1
<1>3. TableBars \subseteq Nat /\ \A n \in TableBars : n <= TableDays * SessionBars
  BY <1>2 DEF TableBars
<1> QED BY <1>1, <1>2, <1>3

\* The bars of day d begin with this one.
FirstOf(d) == d * SessionBars

LEMMA FirstsRise ==
  /\ \A d \in Nat : FirstOf(d) \in Nat
  /\ \A d, e \in Nat : d < e => FirstOf(d) + SessionBars <= FirstOf(e)
  /\ \A d, k \in Nat : FirstOf(d) + k * SessionBars = FirstOf(d + k)
<1>1. SessionBars \in Nat \ {0}
  BY FeatureNumbers
<1>2. \A d \in Nat : FirstOf(d) \in Nat
  BY <1>1 DEF FirstOf
<1>3. ASSUME NEW d \in Nat, NEW e \in Nat, d < e
      PROVE  FirstOf(d) + SessionBars <= FirstOf(e)
  <2>1. e - (d + 1) \in Nat
    BY <1>3
  <2>2. (e - (d + 1)) * SessionBars \in Nat
    BY <1>1, <2>1
  <2>3. e * SessionBars = (d + 1) * SessionBars + (e - (d + 1)) * SessionBars
    BY <1>1, <1>3
  <2>4. (d + 1) * SessionBars = d * SessionBars + SessionBars
    BY <1>1, <1>3
  <2>5. d * SessionBars \in Nat /\ e * SessionBars \in Nat
    BY <1>1
  <2> QED BY <1>1, <2>2, <2>3, <2>4, <2>5 DEF FirstOf
<1>4. ASSUME NEW d \in Nat, NEW k \in Nat
      PROVE  FirstOf(d) + k * SessionBars = FirstOf(d + k)
  BY <1>1 DEF FirstOf
<1> QED BY <1>2, <1>3, <1>4

LEMMA DayIs ==
  ASSUME NEW n \in Nat
  PROVE  /\ DayOf(n) \in Nat
         /\ FirstOf(DayOf(n)) <= n /\ n < FirstOf(DayOf(n)) + SessionBars
         /\ \A d \in Nat : FirstOf(d) <= n /\ n < FirstOf(d) + SessionBars => DayOf(n) = d
<1> DEFINE q == n \div SessionBars
<1>1. SessionBars \in Nat \ {0}
  BY FeatureNumbers
<1>2. q \in Nat /\ SessionBars * q <= n /\ n < SessionBars * (q + 1)
  BY <1>1
<1> HIDE DEF q
<1>3. SessionBars * q = q * SessionBars /\ SessionBars * (q + 1) = q * SessionBars + SessionBars
  BY <1>1, <1>2
<1>4. FirstOf(q) <= n /\ n < FirstOf(q) + SessionBars
  BY <1>2, <1>3 DEF FirstOf
<1>5. ASSUME NEW d \in Nat, FirstOf(d) <= n, n < FirstOf(d) + SessionBars
      PROVE  q = d
  <2>1. FirstOf(q) \in Nat /\ FirstOf(d) \in Nat
    BY <1>2, FirstsRise
  <2>2. CASE q < d
    <3>1. FirstOf(q) + SessionBars <= FirstOf(d)
      BY <1>2, <2>2, FirstsRise
    <3> QED BY <1>1, <1>4, <1>5, <2>1, <3>1
  <2>3. CASE d < q
    <3>1. FirstOf(d) + SessionBars <= FirstOf(q)
      BY <1>2, <2>3, FirstsRise
    <3> QED BY <1>1, <1>4, <1>5, <2>1, <3>1
  <2> QED BY <1>2, <2>2, <2>3
<1> QED BY <1>2, <1>4, <1>5 DEF DayOf, q

LEMMA DaysRise ==
  ASSUME NEW m \in Nat, NEW n \in Nat, m <= n
  PROVE  DayOf(m) <= DayOf(n)
<1>1. /\ DayOf(m) \in Nat /\ DayOf(n) \in Nat /\ SessionBars \in Nat
      /\ FirstOf(DayOf(m)) <= m /\ n < FirstOf(DayOf(n)) + SessionBars
  BY DayIs, FeatureNumbers
<1>2. FirstOf(DayOf(m)) \in Nat /\ FirstOf(DayOf(n)) \in Nat
  BY <1>1, FirstsRise
<1>3. CASE DayOf(n) < DayOf(m)
  <2>1. FirstOf(DayOf(n)) + SessionBars <= FirstOf(DayOf(m))
    BY <1>1, <1>3, FirstsRise
  <2> QED BY <1>1, <1>2, <2>1
<1> QED BY <1>1, <1>3

\* A set of bars is finite, and has a last one.
LEMMA BarSets ==
  ASSUME NEW rows, rows \subseteq TableBars
  PROVE  IsFiniteSet(rows) /\ Cardinality(rows) \in Nat
<1>1. rows \in SUBSET Nat /\ \A n \in rows : n <= TableDays * SessionBars
  BY FeatureNumbers
<1>2. IsFiniteSet(rows)
  BY <1>1, FeatureNumbers, FS_BoundedSetOfNaturals
<1> QED BY <1>2, FS_CardinalityType

LEMMA LastBarOf ==
  ASSUME NEW rows, rows \subseteq TableBars, rows # {}
  PROVE  Max(rows) \in rows /\ \A n \in rows : Max(rows) >= n
<1> DEFINE bound == TableDays * SessionBars
           Gaps == {bound - n : n \in rows}
<1>1. bound \in Nat /\ rows \subseteq Nat /\ \A n \in rows : n <= bound
  BY FeatureNumbers
<1> HIDE DEF bound
<1>2. Gaps \subseteq Nat /\ Gaps # {}
  <2>1. \A n \in rows : bound - n \in Nat
    BY <1>1
  <2>2. PICK n \in rows : TRUE
    OBVIOUS
  <2>3. bound - n \in Gaps
    BY <2>2
  <2> QED BY <2>1, <2>3
<1>3. PICK g \in Gaps : \A u \in Gaps : ~ (<<u, g>> \in OpToRel(<, Nat))
  <2> HIDE DEF Gaps
  <2> QED BY <1>2, NatLessThanWellFounded, WFMin
<1>4. PICK top \in rows : g = bound - top
  BY <1>3
<1>5. ASSUME NEW n \in rows PROVE top >= n
  <2>1. bound - n \in Gaps /\ bound - n \in Nat /\ g \in Nat
    BY <1>1, <1>2, <1>3
  <2>2. <<bound - n, g>> \in Nat \X Nat /\ <<bound - n, g>>[1] = bound - n
        /\ <<bound - n, g>>[2] = g
    BY <2>1
  <2>3. ~ (bound - n < g)
    BY <1>3, <2>1, <2>2 DEF OpToRel
  <2> QED BY <1>1, <1>4, <2>1, <2>3
<1> QED BY <1>4, <1>5 DEF Max

\* The last row is the one that no other exceeds.
LEMMA LastBarIs ==
  ASSUME NEW rows, rows \subseteq TableBars, NEW r \in rows, \A n \in rows : n <= r
  PROVE  Max(rows) = r
<1>1. Max(rows) \in rows /\ Max(rows) >= r /\ Max(rows) <= r
  BY LastBarOf
<1>2. Max(rows) \in Nat /\ r \in Nat
  BY <1>1, FeatureNumbers
<1> QED BY <1>1, <1>2

\* The rows above one, counted.
Above(rows, n) == {x \in rows : x > n}

LEMMA FewerAbove ==
  ASSUME NEW rows, rows \subseteq TableBars, NEW others, NEW n \in Nat, NEW m \in Nat,
         Above(others, m) \subseteq Above(rows, n)
  PROVE  Cardinality(Above(others, m)) <= Cardinality(Above(rows, n))
<1>1. Above(rows, n) \subseteq TableBars
  BY DEF Above
<1>2. IsFiniteSet(Above(rows, n))
  BY <1>1, BarSets
<1> QED BY <1>2, FS_Subset

LEMMA NewestAre ==
  ASSUME NEW rows, rows \subseteq TableBars, NEW k \in Nat \ {0}
  PROVE  /\ \A n \in rows : n \in NewestOf(rows, k) <=> Cardinality(Above(rows, n)) < k
         /\ NewestOf(rows, k) \subseteq rows
         /\ \A n \in NewestOf(rows, k) : \A m \in rows : m > n => m \in NewestOf(rows, k)
         /\ rows # {} => Max(rows) \in NewestOf(rows, k)
<1>1. \A n \in rows : n \in NewestOf(rows, k) <=> Cardinality(Above(rows, n)) < k
  BY DEF NewestOf, Above
<1>2. NewestOf(rows, k) \subseteq rows
  BY DEF NewestOf
<1>3. ASSUME NEW n \in NewestOf(rows, k), NEW m \in rows, m > n
      PROVE  m \in NewestOf(rows, k)
  <2>1. n \in rows /\ n \in Nat /\ m \in Nat
    BY <1>2, FeatureNumbers
  <2>2. Above(rows, m) \subseteq Above(rows, n)
    <3>1. \A x \in rows : x \in Nat
      BY FeatureNumbers
    <3>2. \A x \in rows : x > m => x > n
      BY <1>3, <2>1, <3>1
    <3> QED BY <3>2 DEF Above
  <2>3. Cardinality(Above(rows, m)) <= Cardinality(Above(rows, n))
    BY <2>1, <2>2, FewerAbove
  <2>4. Cardinality(Above(rows, m)) \in Nat /\ Cardinality(Above(rows, n)) \in Nat
    <3>1. Above(rows, m) \subseteq TableBars /\ Above(rows, n) \subseteq TableBars
      BY DEF Above
    <3> QED BY <3>1, BarSets
  <2> QED BY <1>1, <2>1, <2>3, <2>4
<1>4. ASSUME rows # {} PROVE Max(rows) \in NewestOf(rows, k)
  <2>1. Max(rows) \in rows /\ \A n \in rows : Max(rows) >= n
    BY <1>4, LastBarOf
  <2>2. Above(rows, Max(rows)) = {}
    <3>1. Max(rows) \in Nat /\ \A n \in rows : n \in Nat
      BY <2>1, FeatureNumbers
    <3>2. \A n \in rows : ~ (n > Max(rows))
      BY <2>1, <3>1
    <3> QED BY <3>2 DEF Above
  <2>3. Cardinality(Above(rows, Max(rows))) = 0
    BY <2>2, FS_EmptySet
  <2> QED BY <1>1, <2>1, <2>3
<1> QED BY <1>1, <1>2, <1>3, <1>4

\* Days of which the answer had all the rows.
WholeDay(d) == \A n \in RowsBelow : DayOf(n) = d => n \in vector.loaded

\* An answer is made of all newer rows of its day and of the days before it,
\* and a day that is cut off lies so many days back as the backend loads.
LEMMA LoadIs ==
  ASSUME FeatureInd, vector.row # -1, ~late
  PROVE  /\ RowsBelow \subseteq TableBars /\ vector.row \in RowsBelow
         /\ vector.loaded \subseteq RowsBelow /\ vector.row \in vector.loaded
         /\ \A n \in vector.loaded, m \in RowsBelow : m > n => m \in vector.loaded
         /\ \A m \in vector.loaded :
              WholeDay(DayOf(m)) \/ DayOf(m) + ServeDays <= DayOf(vector.row)
<1> DEFINE T == RowsBelow
           L == vector.loaded
           r == vector.row
<1>1. T \subseteq TableBars /\ r \in TableBars /\ r \in T /\ \A n \in T : n <= r
  <2>1. InTable \subseteq TableBars /\ r \in InTable
    BY DEF FeatureInd, AnswerFits, InTable
  <2>2. r \in Nat
    <3>1. r \in TableBars /\ TableBars \subseteq Nat
      BY <2>1, FeatureNumbers
    <3> HIDE DEF r
    <3> QED BY <3>1
  <2>3. r <= r
    <3> HIDE DEF r
    <3> QED BY <2>2
  <2> QED BY <2>1, <2>2, <2>3 DEF RowsBelow
<1>2. T \subseteq Nat /\ r \in Nat /\ Max(T) = r
  BY <1>1, FeatureNumbers, LastBarIs
<1>3. L \in {RecentDays(T, PredictDays), NewestOf(T, ServeDays * SessionBars)}
  BY DEF FeatureInd, AnswerFits
<1> HIDE DEF T, L, r
<1>4. CASE L = RecentDays(T, PredictDays)
  <2>1. L = {n \in T : DayOf(n) > DayOf(r) - PredictDays}
    BY <1>2, <1>4 DEF RecentDays
  <2>2. \A n \in T : DayOf(n) \in Nat
    BY <1>2, DayIs
  <2>3. r \in L
    BY <1>1, <2>1, <2>2, FeatureNumbers
  <2>4. ASSUME NEW n \in L, NEW m \in T, m > n PROVE m \in L
    <3>1. n \in Nat /\ m \in Nat /\ n \in T /\ n <= m
      BY <1>2, <2>1, <2>4
    <3>2. DayOf(n) <= DayOf(m)
      BY <3>1, DaysRise
    <3> QED BY <1>1, <2>1, <2>2, <2>4, <3>1, <3>2, FeatureNumbers
  <2>5. \A m \in L : WholeDay(DayOf(m))
    BY <2>1 DEF WholeDay, L, T
  <2> QED BY <1>1, <2>1, <2>3, <2>4, <2>5 DEF L, T, r
<1>5. CASE L = NewestOf(T, ServeDays * SessionBars)
  <2> DEFINE k == ServeDays * SessionBars
  <2>1. k \in Nat \ {0}
    BY FeatureNumbers
  <2>2. /\ \A n \in T : n \in L <=> Cardinality(Above(T, n)) < k
        /\ L \subseteq T
        /\ \A n \in L : \A m \in T : m > n => m \in L
        /\ r \in L
    <3> HIDE DEF k
    <3>1. L = NewestOf(T, k)
      BY <1>5 DEF k
    <3> QED BY <1>1, <1>2, <2>1, <3>1, NewestAre
  <2>3. ASSUME NEW m \in L, NEW y \in T, DayOf(y) = DayOf(m), y \notin L
        PROVE  DayOf(m) + ServeDays <= DayOf(r)
    <3>1. y \in Nat /\ m \in Nat /\ DayOf(m) \in Nat /\ DayOf(r) \in Nat /\ y <= r
      BY <1>1, <1>2, <2>2, DayIs
    <3>2. Above(T, y) \subseteq y + 1 .. r
      <4>1. \A x \in T : x \in Nat /\ x <= r
        BY <1>1, <1>2
      <4>2. \A x \in T : x > y => x \in y + 1 .. r
        BY <1>2, <3>1, <4>1
      <4> QED BY <4>2 DEF Above
    <3>3. IsFiniteSet(y + 1 .. r) /\ Cardinality(y + 1 .. r) = r - y
      <4>1. y + 1 \in Int /\ r \in Int
        BY <1>2, <3>1
      <4>2. Cardinality(y + 1 .. r) = IF y + 1 > r THEN 0 ELSE r - (y + 1) + 1
        BY <4>1, FS_Interval
      <4>3. Cardinality(y + 1 .. r) = r - y
        <5>1. CASE y + 1 > r
          BY <1>2, <3>1, <4>2, <5>1
        <5>2. CASE ~ (y + 1 > r)
          BY <1>2, <3>1, <4>2, <5>2
        <5> QED BY <5>1, <5>2
      <4> QED BY <4>1, <4>3, FS_Interval
    <3>4. Cardinality(Above(T, y)) <= r - y /\ Cardinality(Above(T, y)) \in Nat
      <4>1. IsFiniteSet(Above(T, y)) /\ Cardinality(Above(T, y)) <= Cardinality(y + 1 .. r)
        BY <3>2, <3>3, FS_Subset
      <4> QED BY <3>3, <4>1, FS_CardinalityType
    <3>5. ~ (Cardinality(Above(T, y)) < k)
      BY <2>2, <2>3
    <3>6. FirstOf(DayOf(m)) <= y /\ FirstOf(DayOf(m)) \in Nat
      BY <2>3, <3>1, DayIs, FirstsRise
    <3>7. FirstOf(DayOf(m)) + k = FirstOf(DayOf(m) + ServeDays)
      BY <3>1, FeatureNumbers, FirstsRise
    <3> DEFINE first == FirstOf(DayOf(m) + ServeDays)
               last == FirstOf(DayOf(r))
    <3>8. first <= r
      <4> HIDE DEF k, first
      <4>1. k <= r - y /\ FirstOf(DayOf(m)) + k = first
        BY <2>1, <3>4, <3>5, <3>7, <1>2, <3>1 DEF first
      <4> QED BY <1>2, <2>1, <3>1, <3>6, <4>1
    <3>9. last \in Nat /\ r < last + SessionBars /\ first \in Nat
          /\ DayOf(m) + ServeDays \in Nat
      BY <1>2, <3>1, DayIs, FirstsRise, FeatureNumbers
    <3>10. ASSUME DayOf(r) < DayOf(m) + ServeDays PROVE FALSE
      <4>1. last + SessionBars <= first
        BY <3>1, <3>9, <3>10, FirstsRise
      <4> HIDE DEF first, last
      <4> QED BY <1>2, <3>8, <3>9, <4>1, FeatureNumbers
    <3> QED BY <3>1, <3>9, <3>10
  <2>4. \A m \in L : WholeDay(DayOf(m)) \/ DayOf(m) + ServeDays <= DayOf(r)
    BY <2>3 DEF WholeDay, L, T
  <2> QED BY <1>1, <2>2, <2>4 DEF L, T, r
<1> QED BY <1>3, <1>4, <1>5

\* The rows that the newest row's rolling features are made from.
Peers(batch, r) == {m \in batch : m <= r /\ Slot(batch, m) = Slot(batch, r)}

LEMMA IntervalSize ==
  ASSUME NEW a \in Nat, NEW c \in Nat, a <= c
  PROVE  IsFiniteSet(a .. c - 1) /\ Cardinality(a .. c - 1) = c - a
<1>1. a \in Int /\ c - 1 \in Int
  OBVIOUS
<1>2. Cardinality(a .. c - 1) = IF a > c - 1 THEN 0 ELSE c - 1 - a + 1
  BY <1>1, FS_Interval
<1>3. Cardinality(a .. c - 1) = c - a
  <2>1. CASE a > c - 1
    BY <1>2, <2>1
  <2>2. CASE ~ (a > c - 1)
    BY <1>2, <2>2
  <2> QED BY <2>1, <2>2
<1> QED BY <1>1, <1>3, FS_Interval

\* A slot is a place in the session.
LEMMA SlotIs ==
  ASSUME NEW batch, batch \subseteq TableBars, NEW n \in Nat
  PROVE  Slot(batch, n) \in Nat /\ FirstOf(DayOf(n)) + Slot(batch, n) <= n
<1> DEFINE first == FirstOf(DayOf(n))
           rows == {m \in batch : DayOf(m) = DayOf(n) /\ m < n}
<1>1. first \in Nat /\ first <= n
  BY DayIs, FirstsRise
<1>2. rows \subseteq first .. n - 1
  <2>1. SUFFICES ASSUME NEW m \in batch, DayOf(m) = DayOf(n), m < n
                 PROVE  m \in first .. n - 1
    OBVIOUS
  <2>2. m \in Nat
    BY FeatureNumbers
  <2>3. first <= m
    BY <2>1, <2>2, DayIs
  <2> HIDE DEF first
  <2> QED BY <1>1, <2>1, <2>2, <2>3
<1> HIDE DEF first, rows
<1>3. IsFiniteSet(first .. n - 1) /\ Cardinality(first .. n - 1) = n - first
  BY <1>1, IntervalSize
<1>4. IsFiniteSet(rows) /\ Cardinality(rows) <= n - first
  BY <1>2, <1>3, FS_Subset
<1>5. Cardinality(rows) \in Nat
  BY <1>4, FS_CardinalityType
<1> QED BY <1>1, <1>4, <1>5 DEF Slot, rows, first

LEMMA ShortDaysFinite ==
  ASSUME FeatureInd
  PROVE  IsFiniteSet(ShortDays) /\ Cardinality(ShortDays) \in Nat
<1>1. closed \in Nat
  BY FeatureNumbers DEF FeatureInd, FeatureTypeOK
<1>2. DayOf(closed) \in Nat
  BY <1>1, DayIs
<1>3. ShortDays \subseteq 0 .. DayOf(closed)
  <2>1. ASSUME NEW n \in 0 .. closed - 1 PROVE DayOf(n) \in 0 .. DayOf(closed)
    <3>1. n \in Nat /\ n <= closed
      BY <1>1
    <3>2. DayOf(n) \in Nat /\ DayOf(n) <= DayOf(closed)
      BY <1>1, <3>1, DayIs, DaysRise
    <3> QED BY <1>2, <3>2
  <2> QED BY <2>1 DEF ShortDays
<1>4. IsFiniteSet(0 .. DayOf(closed))
  BY <1>2, FS_Interval
<1> QED BY <1>3, <1>4, FS_Subset, FS_CardinalityType

\* A session without a gap, behind the day that is cut off, has its peer.
LEMMA PeerOfDay ==
  ASSUME FeatureInd, vector.row # -1, ~late, NEW m \in vector.loaded,
         NEW e \in Nat, DayOf(m) < e, e <= DayOf(vector.row), e \notin ShortDays,
         NEW s, s = Slot(vector.loaded, vector.row)
  PROVE  /\ FirstOf(e) + s \in Peers(vector.loaded, vector.row)
         /\ DayOf(FirstOf(e) + s) = e
<1> DEFINE L == vector.loaded
           r == vector.row
           first == FirstOf(e)
<1>1. /\ L \subseteq TableBars /\ r \in L /\ r \in Nat /\ m \in Nat /\ r \in RowsBelow
      /\ \A n \in L, x \in RowsBelow : x > n => x \in L
  <2>1. L \subseteq TableBars /\ r \in L /\ r \in RowsBelow
    BY LoadIs
  <2> QED BY <2>1, LoadIs, FeatureNumbers
<1>2. /\ first \in Nat /\ s \in Nat /\ DayOf(r) \in Nat /\ DayOf(m) \in Nat
      /\ FirstOf(DayOf(r)) + s <= r /\ r < FirstOf(DayOf(r)) + SessionBars
      /\ FirstOf(DayOf(r)) \in Nat /\ SessionBars \in Nat \ {0}
  <2> HIDE DEF L, r
  <2>1. s = Slot(L, r)
    BY DEF L, r
  <2>2. s \in Nat /\ FirstOf(DayOf(r)) + s <= r
    BY <1>1, <2>1, SlotIs
  <2>3. DayOf(r) \in Nat /\ DayOf(m) \in Nat /\ r < FirstOf(DayOf(r)) + SessionBars
    BY <1>1, DayIs
  <2>4. first \in Nat /\ FirstOf(DayOf(r)) \in Nat
    BY <2>3, FirstsRise
  <2> QED BY <2>2, <2>3, <2>4, FeatureNumbers
<1>3. s < SessionBars
  <2> HIDE DEF r
  <2> QED BY <1>1, <1>2
<1>4. first + s <= r
  <2>1. CASE e = DayOf(r)
    BY <1>2, <2>1
  <2>2. CASE e < DayOf(r)
    <3>1. first + SessionBars <= FirstOf(DayOf(r))
      BY <1>2, <2>2, FirstsRise
    <3> HIDE DEF r, first
    <3> QED BY <1>1, <1>2, <1>3, <3>1
  <2>3. e = DayOf(r) \/ e < DayOf(r)
    BY <1>2
  <2> QED BY <2>1, <2>2, <2>3
<1>5. r < closed /\ closed \in Nat /\ closed <= TableDays * SessionBars
      /\ TableDays * SessionBars \in Nat
  <2>1. r \in TableBars /\ table[r] # "none"
    BY <1>1 DEF RowsBelow, InTable
  <2>2. closed \in Nat /\ closed <= TableDays * SessionBars /\ TableDays * SessionBars \in Nat
    BY FeatureNumbers DEF FeatureInd, FeatureTypeOK
  <2>3. ~ (r >= closed)
    BY <2>1 DEF FeatureInd, NothingAhead
  <2> QED BY <1>1, <2>2, <2>3
<1>6. ASSUME NEW x \in Nat, first <= x, x <= first + s
      PROVE  x \in L /\ DayOf(x) = e
  <2>1. DayOf(x) = e
    <3>1. x < first + SessionBars
      <4> HIDE DEF first
      <4> QED BY <1>2, <1>3, <1>6
    <3> QED BY <1>6, <3>1, DayIs
  <2>2. x <= r /\ x \in 0 .. closed - 1 /\ x \in TableBars
    <3> HIDE DEF first, r
    <3>1. x <= r
      BY <1>1, <1>2, <1>4, <1>6
    <3>2. x \in 0 .. closed - 1
      BY <1>1, <1>5, <3>1
    <3>3. x \in 0 .. TableDays * SessionBars - 1
      <4> DEFINE top == TableDays * SessionBars
      <4>1. closed <= top /\ top \in Nat
        BY <1>5
      <4> HIDE DEF top
      <4>2. x \in 0 .. top - 1
        BY <1>1, <1>5, <3>1, <4>1
      <4> QED BY <4>2 DEF top
    <3> QED BY <3>1, <3>2, <3>3 DEF TableBars
  <2>3. table[x] # "none"
    BY <2>1, <2>2 DEF ShortDays
  <2>4. x \in RowsBelow
    BY <2>2, <2>3 DEF RowsBelow, InTable
  <2>5. x > m
    <3>1. CASE x <= m
      <4>1. DayOf(x) <= DayOf(m)
        BY <1>1, <1>6, <3>1, DaysRise
      <4> QED BY <1>2, <2>1, <4>1
    <3> QED BY <1>1, <1>6, <3>1
  <2> QED BY <1>1, <2>1, <2>4, <2>5
<1>7. first + s \in L /\ DayOf(first + s) = e
  <2>1. first + s \in Nat /\ first <= first + s /\ first + s <= first + s
    <3> HIDE DEF first
    <3> QED BY <1>2
  <2> QED BY <1>6, <2>1
<1>8. Slot(L, first + s) = s
  <2> DEFINE here == {x \in L : DayOf(x) = DayOf(first + s) /\ x < first + s}
  <2>1. here = first .. (first + s) - 1
    <3>1. ASSUME NEW x \in here PROVE x \in first .. (first + s) - 1
      <4>1. x \in Nat /\ DayOf(x) = e /\ x < first + s
        BY <1>1, <1>7, <3>1, FeatureNumbers
      <4>2. first <= x
        BY <4>1, DayIs
      <4> HIDE DEF first
      <4> QED BY <1>2, <4>1, <4>2
    <3>2. ASSUME NEW x \in first .. (first + s) - 1 PROVE x \in here
      <4>1. x \in Nat /\ first <= x /\ x < first + s /\ x <= first + s
        <5> HIDE DEF first
        <5> QED BY <1>2, <3>2
      <4> QED BY <1>6, <1>7, <4>1
    <3> QED BY <3>1, <3>2
  <2>2. Cardinality(first .. (first + s) - 1) = s
    <3> HIDE DEF first
    <3>1. first + s \in Nat /\ first <= first + s /\ (first + s) - first = s
      BY <1>2
    <3> QED BY <1>2, <3>1, IntervalSize
  <2> QED BY <2>1, <2>2 DEF Slot
<1> QED BY <1>4, <1>7, <1>8 DEF Peers

\* Behind a day that is cut off there are peers enough for the window.
LEMMA PeersEnough ==
  ASSUME FeatureInd, vector.row # -1, ~late, NEW m \in vector.loaded,
         ~WholeDay(DayOf(m)), Cardinality(ShortDays) <= ServeDays - RollDays
  PROVE  RollDays <= Cardinality({x \in Peers(vector.loaded, vector.row) :
                                    DayOf(x) > DayOf(m)})
<1> DEFINE L == vector.loaded
           r == vector.row
           s == Slot(L, r)
           later == DayOf(m) + 1 .. DayOf(r)
           good == later \ ShortDays
           behind == {x \in Peers(L, r) : DayOf(x) > DayOf(m)}
           place == [e \in good |-> FirstOf(e) + s]
<1>1. L \subseteq TableBars /\ r \in L /\ DayOf(m) + ServeDays <= DayOf(r)
  BY LoadIs
<1>2. r \in Nat /\ m \in Nat /\ DayOf(m) \in Nat /\ DayOf(r) \in Nat
  <2>1. r \in Nat /\ m \in Nat
    BY <1>1, FeatureNumbers
  <2> QED BY <2>1, DayIs
<1>3. IsFiniteSet(later) /\ Cardinality(later) \in Nat /\ ServeDays <= Cardinality(later)
  <2>1. DayOf(m) + 1 \in Nat /\ DayOf(r) + 1 \in Nat /\ DayOf(m) + 1 <= DayOf(r) + 1
    BY <1>1, <1>2, FeatureNumbers
  <2>2. (DayOf(r) + 1) - 1 = DayOf(r)
    BY <1>2
  <2>3. IsFiniteSet(later) /\ Cardinality(later) = (DayOf(r) + 1) - (DayOf(m) + 1)
    BY <2>1, <2>2, IntervalSize
  <2> QED BY <1>1, <1>2, <2>3, FeatureNumbers
<1>4. IsFiniteSet(good) /\ Cardinality(good) \in Nat /\ RollDays <= Cardinality(good)
  <2> HIDE DEF later
  <2>1. /\ IsFiniteSet(good)
        /\ Cardinality(good) = Cardinality(later) - Cardinality(later \cap ShortDays)
    BY <1>3, FS_Difference
  <2>2. /\ Cardinality(later \cap ShortDays) <= Cardinality(ShortDays)
        /\ IsFiniteSet(later \cap ShortDays)
    BY ShortDaysFinite, FS_Intersection
  <2>3. Cardinality(later \cap ShortDays) \in Nat /\ Cardinality(ShortDays) \in Nat
    BY <2>2, ShortDaysFinite, FS_CardinalityType
  <2> QED BY <1>3, <2>1, <2>2, <2>3, FeatureNumbers
<1>5. \A e \in good : /\ FirstOf(e) + s \in behind
                      /\ DayOf(FirstOf(e) + s) = e
  <2>1. SUFFICES ASSUME NEW e \in good
                 PROVE  FirstOf(e) + s \in behind /\ DayOf(FirstOf(e) + s) = e
    OBVIOUS
  <2>2. e \in Nat /\ DayOf(m) < e /\ e <= DayOf(r) /\ e \notin ShortDays
    BY <1>2
  <2>3. FirstOf(e) + s \in Peers(L, r) /\ DayOf(FirstOf(e) + s) = e
    BY <2>2, PeerOfDay
  <2> QED BY <1>2, <2>2, <2>3
<1>6. IsFiniteSet(behind)
  <2>1. behind \subseteq TableBars
    BY <1>1 DEF Peers
  <2> QED BY <2>1, BarSets
<1>7. place \in Injection(good, behind)
  <2> HIDE DEF good, behind, s
  <2>1. place \in [good -> behind]
    BY <1>5
  <2>2. \A d, e \in good : place[d] = place[e] => d = e
    BY <1>5
  <2> QED BY <2>1, <2>2 DEF Injection, IsInjective
<1>8. Cardinality(good) <= Cardinality(behind)
  <2> HIDE DEF good, behind, place
  <2> QED BY <1>6, <1>7, FS_Injection
<1>9. Cardinality(behind) \in Nat
  BY <1>6, FS_CardinalityType
<1> QED
  <2>1. RollDays <= Cardinality(behind)
    <3> HIDE DEF good, behind
    <3> QED BY <1>4, <1>8, <1>9, FeatureNumbers
  <2> QED BY <2>1

\* A training has all final rows from some day on.
LEMMA TrainLoadIs ==
  ASSUME FeatureInd
  PROVE  \E b \in Int : \A n \in TableBars :
           n \in TrainLoad <=> n \in InTable /\ table[n] = "final" /\ DayOf(n) >= b
<1> DEFINE final == {n \in InTable : table[n] = "final"}
<1>1. TrainLoad = {n \in final : DayOf(n) > DayOf(Max(final)) - TrainDays}
  BY DEF TrainLoad, RecentDays
<1>2. CASE final = {}
  <2>1. \A n \in TableBars : n \in TrainLoad <=> n \in InTable /\ table[n] = "final" /\ DayOf(n) >= 0
    BY <1>1, <1>2
  <2> QED BY <2>1
<1>3. CASE final # {}
  <2> DEFINE b == DayOf(Max(final)) - TrainDays + 1
  <2>1. final \subseteq TableBars
    BY DEF InTable
  <2>2. Max(final) \in Nat
    <3> HIDE DEF final
    <3>1. Max(final) \in final
      BY <1>3, <2>1, LastBarOf
    <3> QED BY <2>1, <3>1, FeatureNumbers
  <2>3. DayOf(Max(final)) \in Nat /\ TrainDays \in Nat
    <3> HIDE DEF final
    <3> QED BY <2>2, DayIs, FeatureNumbers
  <2>4. b \in Int
    <3> HIDE DEF final
    <3> QED BY <2>3
  <2>5. \A n \in TableBars : DayOf(n) \in Nat
    BY DayIs, FeatureNumbers
  <2>6. \A n \in TableBars : DayOf(n) > DayOf(Max(final)) - TrainDays <=> DayOf(n) >= b
    <3> HIDE DEF final
    <3> QED BY <2>3, <2>5
  <2>7. \A n \in TableBars : n \in TrainLoad <=> n \in final /\ DayOf(n) >= b
    <3> HIDE DEF b, final
    <3> QED BY <1>1, <2>1, <2>6
  <2> HIDE DEF b
  <2>8. \A n \in TableBars : n \in TrainLoad <=> n \in InTable /\ table[n] = "final" /\ DayOf(n) >= b
    BY <2>7
  <2> QED BY <2>4, <2>8
<1> QED BY <1>2, <1>3

\* A row of the answer whose day it had whole.
Deep(m) == m \in vector.loaded /\ WholeDay(DayOf(m))

LEMMA DeepIs ==
  ASSUME FeatureInd, vector.row # -1, ~late
  PROVE  /\ Deep(vector.row)
         /\ \A m, x \in RowsBelow : Deep(m) /\ m <= x => Deep(x)
<1>1. /\ RowsBelow \subseteq Nat /\ vector.loaded \subseteq RowsBelow
      /\ vector.row \in vector.loaded
      /\ \A n \in vector.loaded, m \in RowsBelow : m > n => m \in vector.loaded
      /\ \A m \in vector.loaded :
              WholeDay(DayOf(m)) \/ DayOf(m) + ServeDays <= DayOf(vector.row)
  <2>1. RowsBelow \subseteq Nat
    BY LoadIs, FeatureNumbers
  <2> QED BY <2>1, LoadIs
<1>2. Deep(vector.row)
  <2>1. vector.row \in Nat /\ ServeDays \in Nat \ {0}
    BY <1>1, FeatureNumbers
  <2>2. DayOf(vector.row) \in Nat
    BY <2>1, DayIs
  <2>3. ~ (DayOf(vector.row) + ServeDays <= DayOf(vector.row))
    BY <2>1, <2>2
  <2> QED BY <1>1, <2>3 DEF Deep
<1>3. ASSUME NEW m \in RowsBelow, NEW x \in RowsBelow, Deep(m), m <= x PROVE Deep(x)
  <2>1. m \in Nat /\ x \in Nat /\ m \in vector.loaded
    BY <1>1, <1>3 DEF Deep
  <2>2. x \in vector.loaded
    <3>1. x = m \/ x > m
      BY <1>3, <2>1
    <3> QED BY <1>1, <2>1, <3>1
  <2>3. DayOf(m) \in Nat /\ DayOf(x) \in Nat /\ DayOf(m) <= DayOf(x)
    BY <1>3, <2>1, DayIs, DaysRise
  <2>4. ASSUME NEW n \in RowsBelow, DayOf(n) = DayOf(x) PROVE n \in vector.loaded
    <3>1. CASE DayOf(x) = DayOf(m)
      BY <1>3, <2>4, <3>1 DEF Deep, WholeDay
    <3>2. CASE DayOf(x) # DayOf(m)
      <4>1. n \in Nat /\ DayOf(n) > DayOf(m)
        BY <1>1, <2>3, <2>4, <3>2
      <4>2. ~ (n <= m)
        <5>1. n <= m => DayOf(n) <= DayOf(m)
          BY <2>1, <4>1, DaysRise
        <5> QED BY <2>3, <2>4, <4>1, <5>1
      <4>3. n > m
        BY <2>1, <4>1, <4>2
      <4> QED BY <1>1, <2>1, <4>3
    <3> QED BY <3>1, <3>2
  <2> QED BY <2>2, <2>4 DEF Deep, WholeDay
<1> QED BY <1>2, <1>3

\* What an answer and a later training have of the days both have whole.
LEMMA SharedDays ==
  ASSUME FeatureInd, ~late, vector.settled, vector.row \in TrainLoad
  PROVE  /\ \A x \in TrainLoad : x <= vector.row => x \in RowsBelow
         /\ \A m \in vector.loaded, x \in vector.loaded :
              m \in TrainLoad /\ m <= x => x \in TrainLoad
         /\ \A m \in TrainLoad : Deep(m) =>
              {x \in vector.loaded : DayOf(x) = DayOf(m)} =
              {x \in TrainLoad : DayOf(x) = DayOf(m) /\ x <= vector.row}
<1>1. PICK b \in Int : \A n \in TableBars :
        n \in TrainLoad <=> n \in InTable /\ table[n] = "final" /\ DayOf(n) >= b
  BY TrainLoadIs
<1>2. TrainLoad \subseteq InTable /\ InTable \subseteq TableBars
  BY DEF TrainLoad, RecentDays, InTable
<1>3. vector.row # -1
  BY <1>2, FeatureNumbers
<1>4. /\ vector.loaded \subseteq RowsBelow /\ RowsBelow \subseteq InTable
      /\ \A n \in vector.loaded : table[n] = "final"
  <2>1. vector.loaded \subseteq RowsBelow /\ RowsBelow \subseteq InTable
    BY <1>3, LoadIs DEF RowsBelow
  <2> QED BY <1>3, <2>1 DEF FeatureInd, AnswerFits, Settled
<1>5. \A x \in TrainLoad : x <= vector.row => x \in RowsBelow
  BY <1>2 DEF RowsBelow
<1>6. \A n \in vector.loaded : n \in TrainLoad <=> DayOf(n) >= b
  BY <1>1, <1>2, <1>4
<1>7. \A n \in TableBars : n \in Nat /\ DayOf(n) \in Nat
  BY DayIs, FeatureNumbers
<1>8. ASSUME NEW m \in vector.loaded, NEW x \in vector.loaded, m \in TrainLoad, m <= x
      PROVE  x \in TrainLoad
  <2>1. m \in Nat /\ x \in Nat /\ DayOf(m) \in Nat /\ DayOf(x) \in Nat /\ DayOf(m) >= b
    BY <1>2, <1>4, <1>6, <1>7, <1>8
  <2>2. DayOf(m) <= DayOf(x)
    BY <1>8, <2>1, DaysRise
  <2> QED BY <1>6, <2>1, <2>2
<1>9. ASSUME NEW m \in TrainLoad, Deep(m)
      PROVE  {x \in vector.loaded : DayOf(x) = DayOf(m)} =
             {x \in TrainLoad : DayOf(x) = DayOf(m) /\ x <= vector.row}
  <2>1. ASSUME NEW x \in vector.loaded, DayOf(x) = DayOf(m)
        PROVE  x \in TrainLoad /\ x <= vector.row
    <3>1. m \in vector.loaded
      BY <1>9 DEF Deep
    <3>2. x \in TrainLoad
      BY <1>6, <1>9, <2>1, <3>1
    <3> QED BY <1>4, <2>1, <3>2 DEF RowsBelow
  <2>2. ASSUME NEW x \in TrainLoad, DayOf(x) = DayOf(m), x <= vector.row
        PROVE  x \in vector.loaded
    BY <1>5, <1>9, <2>2 DEF Deep, WholeDay
  <2> QED BY <2>1, <2>2
<1> QED BY <1>5, <1>8, <1>9

LEMMA SlotsAgree ==
  ASSUME FeatureInd, ~late, vector.settled, vector.row \in TrainLoad,
         NEW m \in TrainLoad, Deep(m)
  PROVE  Slot(vector.loaded, m) = Slot(TrainLoad, m)
<1>1. {x \in vector.loaded : DayOf(x) = DayOf(m)} =
      {x \in TrainLoad : DayOf(x) = DayOf(m) /\ x <= vector.row}
  BY SharedDays
<1>2. TrainLoad \subseteq Nat
  BY FeatureNumbers DEF TrainLoad, RecentDays, InTable
<1>3. m <= vector.row
  <2>1. vector.row # -1
    BY <1>2
  <2> QED BY <2>1, LoadIs DEF Deep, RowsBelow
<1>4. \A x \in TrainLoad : x < m => x <= vector.row
  <2>1. m \in Nat /\ vector.row \in Nat /\ \A x \in TrainLoad : x \in Nat
    BY <1>2
  <2> QED BY <1>3, <2>1
<1>5. {x \in vector.loaded : DayOf(x) = DayOf(m) /\ x < m} =
      {x \in TrainLoad : DayOf(x) = DayOf(m) /\ x < m}
  BY <1>1, <1>4
<1> QED BY <1>5 DEF Slot

\* The windows of both are made from the same rows, as far as the asker loads.
LEMMA WindowsAgree ==
  ASSUME FeatureInd, ~late, vector.settled, vector.row \in TrainLoad,
         Cardinality(ShortDays) <= ServeDays - RollDays,
         NEW askedPeers, askedPeers = NewestOf(Peers(vector.loaded, vector.row), RollDays),
         NEW learntPeers, learntPeers = NewestOf(Peers(TrainLoad, vector.row), RollDays),
         askedPeers \subseteq TrainLoad
  PROVE  learntPeers \cap vector.loaded = askedPeers
<1> DEFINE L == vector.loaded
           R == TrainLoad
           r == vector.row
           PL == Peers(L, r)
           PR == Peers(R, r)
<1>1. R \subseteq TableBars /\ TableBars \subseteq Nat
  BY FeatureNumbers DEF TrainLoad, RecentDays, InTable
<1>2. r # -1 /\ r \in Nat
  <2>1. r \in R
    OBVIOUS
  <2> HIDE DEF r, R
  <2>2. r \in Nat
    BY <1>1, <2>1
  <2> QED BY <2>2
<1>3. L \subseteq RowsBelow /\ RowsBelow \subseteq TableBars /\ r \in L
  BY <1>2, LoadIs
<1>4. PL \subseteq L /\ PR \subseteq R /\ PL \subseteq TableBars /\ PR \subseteq TableBars
  BY <1>1, <1>3 DEF Peers
<1>5. Deep(r) /\ \A m, x \in RowsBelow : Deep(m) /\ m <= x => Deep(x)
  BY <1>2, DeepIs
<1>6. ASSUME NEW m \in R, Deep(m) PROVE m \in PL <=> m \in PR
  <2>1. Slot(L, m) = Slot(R, m) /\ Slot(L, r) = Slot(R, r)
    BY <1>5, <1>6, SlotsAgree
  <2>2. m \in L
    BY <1>6 DEF Deep
  <2> QED BY <1>6, <2>1, <2>2 DEF Peers
<1>7. ASSUME NEW m \in R, Deep(m), NEW x, x > m, x \in Nat
      PROVE  x \in PL <=> x \in PR
  <2>1. m \in L /\ m \in RowsBelow /\ m \in Nat
    BY <1>1, <1>3, <1>7 DEF Deep
  <2>2. ASSUME x \in PL PROVE x \in PR
    <3>1. x \in L /\ m <= x
      BY <1>4, <1>7, <2>1, <2>2
    <3>2. x \in R
      BY <1>7, <2>1, <3>1, SharedDays
    <3>3. Deep(x)
      BY <1>3, <1>5, <1>7, <2>1, <3>1
    <3> QED BY <1>6, <2>2, <3>2, <3>3
  <2>3. ASSUME x \in PR PROVE x \in PL
    <3>1. x \in R /\ x <= r /\ m <= x
      BY <1>4, <1>7, <2>1, <2>3 DEF Peers
    <3>2. x \in RowsBelow
      BY <3>1, SharedDays
    <3>3. Deep(x)
      BY <1>5, <1>7, <2>1, <3>1, <3>2
    <3> QED BY <1>6, <2>3, <3>1, <3>3
  <2> QED BY <2>2, <2>3
<1>8. ASSUME NEW m \in R, Deep(m) PROVE m \in learntPeers <=> m \in askedPeers
  <2>1. Above(PL, m) = Above(PR, m)
    <3>1. \A x \in PL \cup PR : x \in Nat
      BY <1>1, <1>4
    <3>2. \A x \in PL : x > m => x \in PR
      BY <1>7, <1>8, <3>1
    <3>3. \A x \in PR : x > m => x \in PL
      BY <1>7, <1>8, <3>1
    <3> HIDE DEF PL, PR
    <3> QED BY <3>2, <3>3 DEF Above
  <2>2. m \in PL <=> m \in PR
    BY <1>6, <1>8
  <2> HIDE DEF PL, PR
  <2>3. learntPeers = NewestOf(PR, RollDays) /\ askedPeers = NewestOf(PL, RollDays)
    BY DEF PL, PR
  <2>4. RollDays \in Nat \ {0}
    BY FeatureNumbers
  <2>5. m \in learntPeers <=> m \in PR /\ Cardinality(Above(PR, m)) < RollDays
    BY <1>4, <2>3, <2>4, NewestAre
  <2>6. m \in askedPeers <=> m \in PL /\ Cardinality(Above(PL, m)) < RollDays
    BY <1>4, <2>3, <2>4, NewestAre
  <2> QED BY <2>1, <2>2, <2>5, <2>6
<1>9. \A n \in PL : n \in askedPeers <=> Cardinality(Above(PL, n)) < RollDays
  <2>1. RollDays \in Nat \ {0}
    BY FeatureNumbers
  <2>2. askedPeers = NewestOf(PL, RollDays)
    OBVIOUS
  <2> HIDE DEF PL
  <2> QED BY <1>4, <2>1, <2>2, NewestAre
<1>10. \A n \in PR : n \in learntPeers <=> Cardinality(Above(PR, n)) < RollDays
  <2>1. RollDays \in Nat \ {0}
    BY FeatureNumbers
  <2>2. learntPeers = NewestOf(PR, RollDays)
    OBVIOUS
  <2> HIDE DEF PR
  <2> QED BY <1>4, <2>1, <2>2, NewestAre
<1>11. askedPeers \subseteq PL /\ learntPeers \subseteq PR
  BY DEF NewestOf
<1>12. ASSUME NEW m \in L, ~WholeDay(DayOf(m))
       PROVE  /\ {x \in PL : DayOf(x) > DayOf(m)} \subseteq Above(PL, m)
              /\ \A x \in PL : DayOf(x) > DayOf(m) => Deep(x)
              /\ RollDays <= Cardinality({x \in PL : DayOf(x) > DayOf(m)})
  <2>1. m \in Nat /\ \A x \in PL : x \in Nat /\ x \in L
    BY <1>1, <1>3, <1>4
  <2>2. ASSUME NEW x \in PL, DayOf(x) > DayOf(m) PROVE x > m /\ Deep(x)
    <3>1. x \in Nat /\ DayOf(x) \in Nat /\ DayOf(m) \in Nat
      BY <2>1, DayIs
    <3>2. x <= m => DayOf(x) <= DayOf(m)
      BY <2>1, <3>1, DaysRise
    <3>3. x > m
      BY <2>1, <2>2, <3>1, <3>2
    <3>4. WholeDay(DayOf(x))
      <4>1. SUFFICES ASSUME NEW n \in RowsBelow, DayOf(n) = DayOf(x) PROVE n \in L
        BY DEF WholeDay
      <4>2. n \in Nat
        BY <1>1, <1>3
      <4>3. n <= m => DayOf(n) <= DayOf(m)
        BY <2>1, <4>2, DaysRise
      <4>4. n > m
        BY <2>1, <2>2, <3>1, <4>1, <4>2, <4>3
      <4> QED BY <1>2, <1>12, <4>4, LoadIs
    <3> QED BY <2>1, <3>3, <3>4 DEF Deep
  <2>3. RollDays <= Cardinality({x \in PL : DayOf(x) > DayOf(m)})
    BY <1>2, <1>12, PeersEnough
  <2> HIDE DEF PL
  <2> QED BY <2>2, <2>3 DEF Above
<1>13. ASSUME NEW m \in askedPeers PROVE m \in learntPeers /\ m \in L
  <2>1. m \in PL /\ m \in L /\ m \in R
    BY <1>4, <1>11, <1>13
  <2>2. Deep(m)
    <3>1. SUFFICES ASSUME ~WholeDay(DayOf(m)) PROVE FALSE
      BY <2>1 DEF Deep
    <3> DEFINE behind == {x \in PL : DayOf(x) > DayOf(m)}
    <3>2. behind \subseteq Above(PL, m) /\ RollDays <= Cardinality(behind)
      BY <1>12, <2>1, <3>1
    <3>3. Above(PL, m) \subseteq TableBars
      BY <1>4 DEF Above
    <3> HIDE DEF behind, PL
    <3>4. IsFiniteSet(Above(PL, m)) /\ Cardinality(Above(PL, m)) \in Nat
      BY <3>3, BarSets
    <3>5. Cardinality(behind) <= Cardinality(Above(PL, m)) /\ Cardinality(behind) \in Nat
      BY <3>2, <3>4, FS_Subset, FS_CardinalityType
    <3>6. Cardinality(Above(PL, m)) < RollDays
      BY <1>9, <1>13, <2>1
    <3> QED BY <3>2, <3>4, <3>5, <3>6, FeatureNumbers
  <2> QED BY <1>8, <1>13, <2>1, <2>2
<1>14. ASSUME NEW m \in learntPeers, m \in L PROVE m \in askedPeers
  <2>1. m \in PR /\ m \in R /\ m \in Nat
    BY <1>1, <1>4, <1>11, <1>14
  <2>2. CASE Deep(m)
    BY <1>8, <1>14, <2>1, <2>2
  <2>3. CASE ~Deep(m)
    <3>1. ~WholeDay(DayOf(m))
      BY <1>14, <2>3 DEF Deep
    <3> DEFINE behind == {x \in PL : DayOf(x) > DayOf(m)}
               unlearnt == behind \ R
    <3>2. /\ behind \subseteq Above(PL, m) /\ RollDays <= Cardinality(behind)
          /\ \A x \in behind : Deep(x)
      BY <1>12, <1>14, <3>1
    <3>3. behind \subseteq PL /\ behind \subseteq TableBars
      BY <1>4
    <3>4. Cardinality(Above(PR, m)) < RollDays /\ Above(PR, m) \subseteq TableBars
      BY <1>4, <1>10, <1>14, <2>1 DEF Above
    <3>5. ASSUME NEW some, some \subseteq behind, some \subseteq R,
                 RollDays <= Cardinality(some)
          PROVE  FALSE
      <4>1. \A x \in some : x \in PR /\ x > m
        <5>1. \A x \in some : x \in R /\ Deep(x) /\ x \in PL /\ x \in Above(PL, m)
          BY <3>2, <3>3, <3>5
        <5> QED BY <1>6, <5>1 DEF Above
      <4>2. some \subseteq Above(PR, m)
        BY <4>1 DEF Above
      <4> HIDE DEF PR
      <4>3. IsFiniteSet(Above(PR, m)) /\ Cardinality(Above(PR, m)) \in Nat
        BY <3>4, BarSets
      <4>4. Cardinality(some) <= Cardinality(Above(PR, m)) /\ Cardinality(some) \in Nat
        BY <4>2, <4>3, FS_Subset, FS_CardinalityType
      <4> QED BY <3>4, <3>5, <4>3, <4>4, FeatureNumbers
    <3>6. CASE unlearnt = {}
      BY <3>2, <3>5, <3>6
    <3>7. CASE unlearnt # {}
      <4> DEFINE top == Max(unlearnt)
      <4>1. unlearnt \subseteq TableBars
        BY <3>3
      <4>2. top \in unlearnt /\ \A x \in unlearnt : top >= x
        <5> HIDE DEF unlearnt
        <5> QED BY <3>7, <4>1, LastBarOf
      <4> HIDE DEF top
      <4>3. top \in PL /\ top \notin askedPeers /\ top \in Nat /\ DayOf(top) > DayOf(m)
        BY <1>1, <3>3, <4>2
      <4>4. ~ (Cardinality(Above(PL, top)) < RollDays)
        BY <1>9, <4>3
      <4>5. Above(PL, top) \subseteq behind
        <5>1. ASSUME NEW x \in PL, x > top PROVE DayOf(x) > DayOf(m)
          <6>1. x \in Nat /\ top <= x
            <7>1. x \in Nat
              BY <1>1, <1>4, <5>1
            <7> QED BY <4>3, <5>1, <7>1
          <6>2. DayOf(x) \in Nat /\ DayOf(top) \in Nat /\ DayOf(m) \in Nat
                /\ DayOf(top) <= DayOf(x)
            BY <2>1, <4>3, <6>1, DayIs, DaysRise
          <6> QED BY <4>3, <6>2
        <5> QED BY <5>1 DEF Above
      <4>6. Above(PL, top) \subseteq R
        <5>1. SUFFICES ASSUME NEW x \in Above(PL, top), x \notin R PROVE FALSE
          OBVIOUS
        <5>2. x \in unlearnt /\ x > top
          BY <4>5, <5>1 DEF Above
        <5>3. x \in Nat /\ top >= x
          BY <1>1, <4>1, <4>2, <5>2
        <5> QED BY <4>3, <5>2, <5>3
      <4>7. RollDays <= Cardinality(Above(PL, top))
        <5>1. Above(PL, top) \subseteq TableBars
          BY <1>4 DEF Above
        <5> HIDE DEF PL
        <5>2. Cardinality(Above(PL, top)) \in Nat
          BY <5>1, BarSets
        <5> QED BY <4>4, <5>2, FeatureNumbers
      <4> QED BY <3>5, <4>5, <4>6, <4>7
    <3> QED BY <3>6, <3>7
  <2> QED BY <2>2, <2>3
<1> QED BY <1>13, <1>14

LEMMA FeatureShows == FeatureInd => TrainedAsServed
<1> DEFINE L == vector.loaded
           R == TrainLoad
           r == vector.row
           askedPeers == NewestOf(Peers(L, r), RollDays)
           learntPeers == NewestOf(Peers(R, r), RollDays)
<1> SUFFICES ASSUME FeatureInd, r \in R, vector.settled, ~late,
                    vector.features.window \subseteq R,
                    Cardinality(ShortDays) <= ServeDays - RollDays
             PROVE  vector.features =
                      [FeaturesOf(R, r) EXCEPT !.window = Rolling(@ \cap L)]
  BY DEF TrainedAsServed
<1>1. R \subseteq TableBars /\ TableBars \subseteq Nat
  BY FeatureNumbers DEF TrainLoad, RecentDays, InTable
<1>2. r # -1 /\ r \in Nat
  <2>1. r \in R
    OBVIOUS
  <2> HIDE DEF r, R
  <2>2. r \in Nat
    BY <1>1, <2>1
  <2> QED BY <2>2
<1>3. L \subseteq RowsBelow /\ RowsBelow \subseteq TableBars /\ r \in L
      /\ \A n \in L : n <= r
  BY <1>2, LoadIs DEF RowsBelow
<1>4. vector.features = FeaturesOf(L, r)
  BY <1>2 DEF FeatureInd, AnswerFits
<1>5. Slot(L, r) = Slot(R, r)
  BY <1>2, DeepIs, SlotsAgree
<1>6. {m \in L : DayOf(m) = DayOf(r) /\ m <= r} = {m \in R : DayOf(m) = DayOf(r) /\ m <= r}
  <2>1. {m \in L : DayOf(m) = DayOf(r)} = {m \in R : DayOf(m) = DayOf(r) /\ m <= r}
    BY <1>2, DeepIs, SharedDays
  <2> QED BY <1>3, <2>1
<1>7. FeaturesOf(L, r) = [slot |-> Slot(L, r),
                          seen |-> {m \in L : DayOf(m) = DayOf(r) /\ m <= r},
                          window |-> Rolling(askedPeers)]
  BY DEF FeaturesOf, Peers
<1>8. FeaturesOf(R, r) = [slot |-> Slot(R, r),
                          seen |-> {m \in R : DayOf(m) = DayOf(r) /\ m <= r},
                          window |-> Rolling(learntPeers)]
  BY DEF FeaturesOf, Peers
<1>9. Peers(L, r) \subseteq TableBars /\ Peers(R, r) \subseteq TableBars
  BY <1>1, <1>3 DEF Peers
<1>10. askedPeers \subseteq TableBars /\ learntPeers \subseteq TableBars
  BY <1>9 DEF NewestOf
<1>11. r \in askedPeers
  <2> DEFINE PL == Peers(L, r)
  <2>1. r \in PL /\ \A n \in PL : n <= r
    BY <1>2, <1>3 DEF Peers
  <2>2. askedPeers = NewestOf(PL, RollDays) /\ PL \subseteq TableBars
    BY <1>9
  <2>3. RollDays \in Nat \ {0}
    BY FeatureNumbers
  <2> HIDE DEF PL, askedPeers, r
  <2>4. Max(PL) = r /\ PL # {}
    BY <2>1, <2>2, LastBarIs
  <2>5. Max(PL) \in NewestOf(PL, RollDays)
    BY <2>2, <2>3, <2>4, NewestAre
  <2> QED BY <2>2, <2>4, <2>5
<1>12. askedPeers \subseteq R
  <2>1. CASE Cardinality(askedPeers) < 2
    <3>1. SUFFICES ASSUME NEW x \in askedPeers, x # r PROVE FALSE
      OBVIOUS
    <3> HIDE DEF askedPeers, r
    <3>2. IsFiniteSet({r}) /\ Cardinality({r}) = 1
      BY FS_Singleton
    <3>3. {r} \cup {x} \subseteq askedPeers
      BY <1>11, <3>1
    <3>4. Cardinality({r} \cup {x}) = 2
      <4>1. Cardinality({r} \cup {x}) = 1 + 1
        BY <3>1, <3>2, FS_AddElement
      <4> QED BY <4>1
    <3>5. IsFiniteSet(askedPeers) /\ Cardinality(askedPeers) \in Nat
      BY <1>10, BarSets
    <3>6. Cardinality({r} \cup {x}) <= Cardinality(askedPeers)
      BY <3>3, <3>5, FS_Subset
    <3> QED BY <2>1, <3>4, <3>5, <3>6
  <2>2. CASE ~ (Cardinality(askedPeers) < 2)
    <3>1. Rolling(askedPeers) = askedPeers
      BY <2>2 DEF Rolling
    <3>2. vector.features.window = askedPeers
      BY <1>4, <1>7, <3>1
    <3> QED BY <3>2
  <2> QED BY <2>1, <2>2
<1>13. learntPeers \cap L = askedPeers
  BY <1>12, WindowsAgree
<1>14. Rolling(askedPeers) = Rolling(Rolling(learntPeers) \cap L)
  <2> HIDE DEF askedPeers, learntPeers, L
  <2>1. IsFiniteSet(learntPeers) /\ Cardinality(learntPeers) \in Nat
    BY <1>10, BarSets
  <2>2. Cardinality(askedPeers) <= Cardinality(learntPeers) /\ Cardinality(askedPeers) \in Nat
    <3>1. askedPeers \subseteq learntPeers
      BY <1>13
    <3> QED BY <2>1, <3>1, FS_Subset, FS_CardinalityType
  <2>3. CASE Cardinality(learntPeers) < 2
    <3>1. Cardinality(askedPeers) < 2
      BY <2>1, <2>2, <2>3
    <3>2. Cardinality({}) = 0
      BY FS_EmptySet
    <3>3. Rolling(learntPeers) \cap L = {} /\ Rolling(askedPeers) = {}
      BY <2>3, <3>1 DEF Rolling
    <3> QED BY <3>2, <3>3 DEF Rolling
  <2>4. CASE ~ (Cardinality(learntPeers) < 2)
    <3>1. Rolling(learntPeers) = learntPeers
      BY <2>4 DEF Rolling
    <3> QED BY <1>13, <3>1
  <2> QED BY <2>3, <2>4
<1> HIDE DEF L, R, r, askedPeers, learntPeers
<1> QED BY <1>4, <1>5, <1>6, <1>7, <1>8, <1>14

LEMMA FeatureInitially == FeatureInit => FeatureInd
<1> SUFFICES ASSUME FeatureInit PROVE FeatureInd
  OBVIOUS
<1> USE DEF FeatureInit
<1>1. FeatureTypeOK
  <2>1. 0 \in 0 .. SessionBars - 1 /\ 0 \in 0 .. TableDays * SessionBars
    BY FeatureNumbers
  <2>2. closed \in 0 .. TableDays * SessionBars /\ odd \in 0 .. Oddities
    BY <2>1, FeaturesAssumption
  <2>3. vector.features \in [slot : 0 .. SessionBars - 1, seen : SUBSET TableBars,
                             window : SUBSET TableBars]
    BY <2>1
  <2>4. table \in [TableBars -> {"none", "provisional", "final"}]
    OBVIOUS
  <2>5. vector.row \in TableBars \cup {-1} /\ vector.loaded \in SUBSET TableBars
        /\ vector.settled \in BOOLEAN /\ late \in BOOLEAN
    OBVIOUS
  <2> QED BY <2>2, <2>3, <2>4, <2>5 DEF FeatureTypeOK
<1>2. NothingAhead /\ AnswerFits
  BY DEF NothingAhead, AnswerFits
<1> QED BY <1>1, <1>2 DEF FeatureInd

\* An answer stands as long as the rows up to its own stay where they are.
LEMMA AnswerStands ==
  ASSUME FeatureInd, FeatureTypeOK', UNCHANGED vector, late' = late,
         \A n \in TableBars : n < closed => (table'[n] = "none" <=> table[n] = "none"),
         \A n \in TableBars : table[n] = "final" => table'[n] = "final",
         closed' \in Nat, closed <= closed'
  PROVE  AnswerFits'
<1> SUFFICES ASSUME vector.row # -1, ~late PROVE AnswerFits'
  BY DEF AnswerFits
<1>1. /\ vector.row \in InTable
      /\ vector.loaded \in {RecentDays(RowsBelow, PredictDays),
                            NewestOf(RowsBelow, ServeDays * SessionBars)}
      /\ vector.features = FeaturesOf(vector.loaded, vector.row)
      /\ vector.settled => Settled(vector.loaded)
  BY DEF FeatureInd, AnswerFits
<1>2. vector.row \in TableBars /\ vector.row \in Nat /\ table[vector.row] # "none"
      /\ closed \in Nat
  <2>1. vector.row \in TableBars /\ table[vector.row] # "none"
    BY <1>1 DEF InTable
  <2>2. closed \in Nat
    BY FeatureNumbers DEF FeatureInd, FeatureTypeOK
  <2> QED BY <2>1, <2>2, FeatureNumbers
<1>3. vector.row < closed
  <2>1. ~ (vector.row >= closed)
    BY <1>2 DEF FeatureInd, NothingAhead
  <2> QED BY <1>2, <2>1
<1>4. \A n \in TableBars : n <= vector.row => n < closed
  <2>1. \A n \in TableBars : n \in Nat
    BY FeatureNumbers
  <2> QED BY <1>2, <1>3, <2>1
<1>5. RowsBelow' = RowsBelow
  BY <1>4 DEF RowsBelow, InTable
<1>6. vector.row \in InTable'
  BY <1>2, <1>3 DEF InTable
<1>7. Settled(vector.loaded) => Settled(vector.loaded)'
  <2>1. vector.loaded \subseteq TableBars
    BY LoadIs
  <2> QED BY <2>1 DEF Settled
<1> QED BY <1>1, <1>5, <1>6, <1>7 DEF AnswerFits

LEMMA AnswerStep ==
  ASSUME FeatureInd, NEW batch, AnswerFrom(batch),
         batch \in {RecentDays(InTable, PredictDays), NewestOf(InTable, ServeDays * SessionBars)}
  PROVE  FeatureInd'
<1>1. InTable \subseteq TableBars /\ InTable # {}
  BY DEF InTable, AnswerFrom
<1> DEFINE r == Max(InTable)
<1>2. r \in InTable /\ \A n \in InTable : r >= n
  BY <1>1, LastBarOf
<1>3. r \in TableBars /\ r \in Nat /\ \A n \in InTable : n \in Nat
  BY <1>1, <1>2, FeatureNumbers
<1>4. batch \subseteq InTable /\ r \in batch
  <2>1. CASE batch = RecentDays(InTable, PredictDays)
    <3>1. DayOf(r) \in Nat /\ PredictDays \in Nat \ {0}
      BY <1>3, DayIs, FeatureNumbers
    <3>2. DayOf(r) > DayOf(r) - PredictDays
      <4> HIDE DEF r
      <4> QED BY <3>1
    <3> QED BY <1>2, <2>1, <3>2 DEF RecentDays
  <2>2. CASE batch = NewestOf(InTable, ServeDays * SessionBars)
    <3>1. ServeDays * SessionBars \in Nat \ {0}
      BY FeatureNumbers
    <3> QED BY <1>1, <2>2, <3>1, NewestAre
  <2> QED BY <2>1, <2>2
<1>5. Max(batch) = r
  <2>1. batch \subseteq TableBars /\ \A n \in batch : n <= r
    BY <1>1, <1>2, <1>3, <1>4
  <2> HIDE DEF r
  <2> QED BY <1>4, <2>1, LastBarIs
<1> HIDE DEF r
<1>6. vector' = [row |-> r, loaded |-> batch, settled |-> Settled(batch),
                 features |-> FeaturesOf(batch, r)]
      /\ late' = FALSE /\ UNCHANGED <<table, closed, odd>>
  BY <1>5 DEF AnswerFrom
<1>7. FeaturesOf(batch, r) \in [slot : 0 .. SessionBars - 1, seen : SUBSET TableBars,
                               window : SUBSET TableBars]
  <2>1. batch \subseteq TableBars
    BY <1>1, <1>4
  <2>2. Slot(batch, r) \in 0 .. SessionBars - 1
    <3>1. Slot(batch, r) \in Nat /\ FirstOf(DayOf(r)) + Slot(batch, r) <= r
      BY <1>3, <2>1, SlotIs
    <3>2. DayOf(r) \in Nat /\ r < FirstOf(DayOf(r)) + SessionBars
      BY <1>3, DayIs
    <3>3. FirstOf(DayOf(r)) \in Nat
      BY <3>2, FirstsRise
    <3> QED BY <1>3, <3>1, <3>2, <3>3, FeatureNumbers
  <2>3. Rolling(NewestOf({m \in batch : m <= r /\ Slot(batch, m) = Slot(batch, r)}, RollDays))
          \subseteq TableBars
    BY <2>1 DEF Rolling, NewestOf
  <2> QED BY <2>1, <2>2, <2>3 DEF FeaturesOf
<1>8. FeatureTypeOK'
  <2>1. Settled(batch) \in BOOLEAN
    BY DEF Settled
  <2>2. batch \in SUBSET TableBars
    BY <1>1, <1>4
  <2> QED BY <1>3, <1>6, <1>7, <2>1, <2>2 DEF FeatureInd, FeatureTypeOK
<1>9. NothingAhead'
  BY <1>6 DEF FeatureInd, NothingAhead
<1>10. AnswerFits'
  <2>1. RowsBelow' = InTable /\ InTable' = InTable
    BY <1>2, <1>3, <1>6 DEF RowsBelow, InTable
  <2>2. Settled(batch)' <=> Settled(batch)
    BY <1>6 DEF Settled
  <2> QED BY <1>2, <1>6, <2>1, <2>2 DEF AnswerFits
<1> QED BY <1>8, <1>9, <1>10 DEF FeatureInd

LEMMA FeatureStep == FeatureInd /\ [FeatureNext]_featureVars => FeatureInd'
<1> SUFFICES ASSUME FeatureInd, [FeatureNext]_featureVars PROVE FeatureInd'
  OBVIOUS
<1>0. /\ closed \in Nat /\ closed <= TableDays * SessionBars /\ TableDays * SessionBars \in Nat
      /\ table \in [TableBars -> {"none", "provisional", "final"}]
      /\ odd \in Nat /\ Oddities \in Nat /\ odd <= Oddities
      /\ \A n \in TableBars : n \in Nat
  BY FeatureNumbers, FeaturesAssumption DEF FeatureInd, FeatureTypeOK
<1>1. CASE UNCHANGED featureVars
  <2>1. FeatureTypeOK' /\ NothingAhead'
    BY <1>1 DEF featureVars, FeatureInd, FeatureTypeOK, NothingAhead
  <2>2. AnswerFits'
    BY <1>0, <1>1, <2>1, AnswerStands DEF featureVars
  <2> QED BY <2>1, <2>2 DEF FeatureInd
<1>2. ASSUME NEW quality \in {"none", "provisional", "final"}, Arrive(quality)
      PROVE  FeatureInd'
  <2>1. /\ closed \in TableBars /\ closed' = closed + 1
        /\ closed' <= TableDays * SessionBars /\ closed' \in Nat
    <3> DEFINE top == TableDays * SessionBars
    <3>1. closed < top /\ closed' = closed + 1 /\ top \in Nat
      BY <1>0, <1>2 DEF Arrive
    <3> HIDE DEF top
    <3>2. closed \in 0 .. top - 1 /\ closed' <= top /\ closed' \in Nat
      BY <1>0, <3>1
    <3> QED BY <3>1, <3>2 DEF top, TableBars
  <2>2. \A n \in TableBars : table'[n] = IF n = closed THEN quality ELSE table[n]
    BY <1>0, <1>2 DEF Arrive
  <2>3. table' \in [TableBars -> {"none", "provisional", "final"}]
    BY <1>0, <1>2 DEF Arrive
  <2>4. odd' \in 0 .. Oddities /\ UNCHANGED <<vector, late>>
    BY <1>0, <1>2 DEF Arrive
  <2>5. closed' \in 0 .. TableDays * SessionBars
    BY <1>0, <2>1
  <2>6. FeatureTypeOK'
    BY <2>3, <2>4, <2>5 DEF FeatureInd, FeatureTypeOK
  <2>7. NothingAhead'
    <3>1. SUFFICES ASSUME NEW n \in TableBars, n >= closed' PROVE table'[n] = "none"
      BY DEF NothingAhead
    <3>2. n >= closed /\ n # closed
      BY <1>0, <2>1, <3>1
    <3> QED BY <2>2, <3>2 DEF FeatureInd, NothingAhead
  <2>8. /\ \A n \in TableBars : n < closed => (table'[n] = "none" <=> table[n] = "none")
        /\ \A n \in TableBars : table[n] = "final" => table'[n] = "final"
    <3>1. table[closed] = "none"
      BY <1>0, <2>1 DEF FeatureInd, NothingAhead
    <3>2. \A n \in TableBars : n < closed => n # closed
      BY <1>0
    <3> QED BY <2>2, <3>1, <3>2
  <2>9. closed <= closed'
    BY <1>0, <2>1
  <2> QED BY <2>1, <2>4, <2>6, <2>7, <2>8, <2>9, AnswerStands DEF FeatureInd
<1>3. ASSUME NEW n \in TableBars, Finalise(n) PROVE FeatureInd'
  <2>1. /\ table[n] = "provisional" /\ UNCHANGED <<closed, odd, vector, late>>
        /\ \A m \in TableBars : table'[m] = IF m = n THEN "final" ELSE table[m]
        /\ table' \in [TableBars -> {"none", "provisional", "final"}]
    BY <1>0, <1>3 DEF Finalise
  <2>2. FeatureTypeOK'
    BY <2>1 DEF FeatureInd, FeatureTypeOK
  <2>3. NothingAhead'
    BY <2>1 DEF FeatureInd, NothingAhead
  <2>4. closed <= closed' /\ closed' \in Nat
    BY <1>0, <2>1
  <2> QED BY <2>1, <2>2, <2>3, <2>4, AnswerStands DEF FeatureInd
<1>4. ASSUME NEW n \in TableBars, FillIn(n) PROVE FeatureInd'
  <2>1. /\ n < closed /\ late' = TRUE /\ UNCHANGED <<closed, odd, vector>>
        /\ \A m \in TableBars : table'[m] = IF m = n THEN "final" ELSE table[m]
        /\ table' \in [TableBars -> {"none", "provisional", "final"}]
    BY <1>0, <1>4 DEF FillIn
  <2>2. FeatureTypeOK'
    BY <2>1 DEF FeatureInd, FeatureTypeOK
  <2>3. NothingAhead'
    <3>1. SUFFICES ASSUME NEW m \in TableBars, m >= closed PROVE table'[m] = "none"
      BY <2>1 DEF NothingAhead
    <3>2. m # n
      BY <1>0, <2>1, <3>1
    <3> QED BY <2>1, <3>1, <3>2 DEF FeatureInd, NothingAhead
  <2> QED BY <2>1, <2>2, <2>3 DEF FeatureInd, AnswerFits
<1>5. CASE ServeRow
  BY <1>5, AnswerStep DEF ServeRow, ServeLoad
<1>6. CASE PredictRow
  BY <1>6, AnswerStep DEF PredictRow, PredictLoad
<1> QED BY <1>1, <1>2, <1>3, <1>4, <1>5, <1>6 DEF FeatureNext

\* A row has the same features when a model is asked about it as when one
\* learns from it later, as far back as the asker loads, for any sessions,
\* windows and histories: with rows that were final, no gap filled in since,
\* and no more short sessions than the backend's history has days to spare.
THEOREM AlwaysTrainedAsServed == FeatureSpec => []TrainedAsServed
<1> QED BY FeatureInitially, FeatureStep, FeatureShows, PTL DEF FeatureSpec
=============================================================================
