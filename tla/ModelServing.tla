---------------------------- MODULE ModelServing ----------------------------
(***************************************************************************)
(* The backend's model cache: get_model_bundle() under @lru_cache in each  *)
(* of the uvicorn worker processes, the requests that fill it and use it,  *)
(* and reload_model(), which empties it.  A bundle is read file by file    *)
(* through the link current_base, which promotions move meanwhile; the     *)
(* cache takes no lock while it loads.                                     *)
(***************************************************************************)
EXTENDS Naturals, FiniteSets

CONSTANTS Workers,    \* worker processes of the backend
          Threads,    \* requests in progress at a time
          MaxPromotions,  \* bound: models promoted
          NoBundle    \* an empty cache

ASSUME ServingAssumption == /\ MaxPromotions \in Nat
                            /\ NoBundle \notin [head : Nat, models : Nat]

VARIABLES
  current,    \* current_base: the newest model, a number per promotion
  cache,      \* the bundle each worker keeps
  request,    \* what each thread is doing
  told,       \* history: the model current when the worker last emptied its cache
  straddled   \* history: a load was under way then

servingVars == <<current, cache, request, told, straddled>>

Models == 0 .. MaxPromotions
CachedBundles == [head : Models, models : Models]
Kinds == {"predict", "reload"}
Stages == {"idle", "clear", "look", "head", "models", "store"}
Loading == {"head", "models", "store"}
Requests == [stage : Stages, worker : Workers, head : Models, models : Models]

ServingTypeOK == /\ current \in Models
                 /\ cache \in [Workers -> CachedBundles \cup {NoBundle}]
                 /\ request \in [Threads -> Requests]
                 /\ told \in [Workers -> Models]
                 /\ straddled \in [Workers -> BOOLEAN]

ServingInit ==
  /\ current = 0
  /\ cache = [w \in Workers |-> NoBundle]
  /\ request \in [Threads -> {r \in Requests :
                    r.stage = "idle" /\ r.head = 0 /\ r.models = 0}]
  /\ told = [w \in Workers |-> 0]
  /\ straddled = [w \in Workers |-> FALSE]

RequestAt(t, stage) == request[t].stage = stage
RequestGoesTo(t, stage) == request' = [request EXCEPT ![t].stage = stage]
Answer(t) == request' = [request EXCEPT ![t].stage = "idle", ![t].head = 0,
                                        ![t].models = 0]
LoadingIn(w, t) == \E u \in Threads \ {t} :
                     request[u].worker = w /\ request[u].stage \in Loading
----------------------------------------------------------------------------
\* A promotion of the nightly or of the intraday DAG.
PromoteModel == /\ current < MaxPromotions
                /\ current' = current + 1
                /\ UNCHANGED <<cache, request, told, straddled>>

\* A request reaches some worker.
Ask(t, w, kind) ==
  /\ RequestAt(t, "idle")
  /\ request' = [request EXCEPT ![t].worker = w,
                                ![t].stage = IF kind = "reload" THEN "clear" ELSE "look"]
  /\ UNCHANGED <<current, cache, told, straddled>>

\* Mutant of CacheClear: the reload only asks for the bundle.
CacheClearForgotten(t) ==
  /\ RequestAt(t, "clear")
  /\ RequestGoesTo(t, "look")
  /\ told' = [told EXCEPT ![request[t].worker] = current]
  /\ straddled' = [straddled EXCEPT ![request[t].worker] =
                     LoadingIn(request[t].worker, t)]
  /\ UNCHANGED <<current, cache>>

CacheClear(t) ==
  LET w == request[t].worker
  IN /\ RequestAt(t, "clear")
     /\ RequestGoesTo(t, "look")
     /\ cache' = [cache EXCEPT ![w] = NoBundle]
     /\ told' = [told EXCEPT ![w] = current]
     /\ straddled' = [straddled EXCEPT ![w] = LoadingIn(w, t)]
     /\ UNCHANGED current

\* A hit is answered at once, a miss starts a load.
LookUp(t) ==
  /\ RequestAt(t, "look")
  /\ IF cache[request[t].worker] = NoBundle THEN RequestGoesTo(t, "head") ELSE Answer(t)
  /\ UNCHANGED <<current, cache, told, straddled>>

\* feature_names.json and metadata.json, then the manifest and the boosters.
ReadHead(t) ==
  /\ RequestAt(t, "head")
  /\ request' = [request EXCEPT ![t].stage = "models", ![t].head = current]
  /\ UNCHANGED <<current, cache, told, straddled>>

ReadModels(t) ==
  /\ RequestAt(t, "models")
  /\ request' = [request EXCEPT ![t].stage = "store", ![t].models = current]
  /\ UNCHANGED <<current, cache, told, straddled>>

\* A file is missing: HTTP 500, and nothing is kept.
LoadFails(t) ==
  /\ request[t].stage \in {"head", "models"}
  /\ Answer(t)
  /\ UNCHANGED <<current, cache, told, straddled>>

\* Kept unless another load was faster; the answer uses its own bundle.
Store(t) ==
  LET w == request[t].worker
  IN /\ RequestAt(t, "store")
     /\ Answer(t)
     /\ cache' = [cache EXCEPT ![w] =
                    IF @ = NoBundle
                    THEN [head |-> request[t].head, models |-> request[t].models]
                    ELSE @]
     /\ UNCHANGED <<current, told, straddled>>

\* A worker process dies and is started again.
Restart(w) ==
  /\ cache' = [cache EXCEPT ![w] = NoBundle]
  /\ request' = [t \in Threads |->
                   IF request[t].worker # w THEN request[t]
                   ELSE [stage |-> "idle", worker |-> w, head |-> 0, models |-> 0]]
  /\ told' = [told EXCEPT ![w] = current]
  /\ straddled' = [straddled EXCEPT ![w] = FALSE]
  /\ UNCHANGED current

Serve(t) == \/ \E w \in Workers, kind \in Kinds : Ask(t, w, kind)
            \/ CacheClear(t) \/ LookUp(t) \/ ReadHead(t) \/ ReadModels(t)
            \/ LoadFails(t) \/ Store(t)

ServingNext == \/ PromoteModel
               \/ \E t \in Threads : Serve(t)
               \/ \E w \in Workers : Restart(w)

ServingSpec == ServingInit /\ [][ServingNext]_servingVars
----------------------------------------------------------------------------
\* A reload sticks: what a worker keeps after it is, in all its files, at
\* least as new as the model that was current when the reload emptied the
\* cache, unless a load was under way at that moment, which may then store
\* the old model, or a mixture, behind the reload's back.
ReloadSticks ==
  \A w \in Workers : cache[w] # NoBundle /\ ~straddled[w] =>
    cache[w].head >= told[w] /\ cache[w].models >= told[w]
=============================================================================
