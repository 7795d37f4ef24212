-------------------------- MODULE MarketDataProofs --------------------------
(***************************************************************************)
(* Proofs about the day's way from bars to windows, for any symbols,       *)
(* scripts, bars, window sizes and thresholds: what the marker, the lags,  *)
(* the snapshot and the truncation promise, and why a bar may be missing.  *)
(* Then the loads by the month, which die and resume, and the repairs of   *)
(* the 15-minute table: what a checkpoint vouches for, and why a derived   *)
(* column may be stale.                                                    *)
(***************************************************************************)
EXTENDS MarketData, VendorRefetch, GapRepair, FiniteSetTheorems, WellFoundedInduction, TLAPS

-----------------------------------------------------------------------------
(* Types.                                                                  *)

Rows == [bars : SUBSET Bars, lag : Bars \cup {0}]

LEMMA LargestIsMember ==
  ASSUME NEW S, S \subseteq Nat, S # {}, NEW bound \in Nat, \A x \in S : x <= bound
  PROVE  Largest(S) \in S /\ \A y \in S : Largest(S) >= y
<1> DEFINE T == {bound - x : x \in S}
<1>1. T \subseteq Nat /\ T # {}
  <2>1. \A x \in S : bound - x \in Nat
    OBVIOUS
  <2>2. PICK x \in S : TRUE
    OBVIOUS
  <2>3. bound - x \in T
    BY <2>2
  <2> QED BY <2>1, <2>3
<1>2. PICK t \in T : \A u \in T : ~ (<<u, t>> \in OpToRel(<, Nat))
  <2> HIDE DEF T
  <2> QED BY <1>1, NatLessThanWellFounded, WFMin
<1>3. PICK x \in S : t = bound - x
  BY <1>2
<1>4. ASSUME NEW y \in S PROVE x >= y
  <2>1. bound - y \in T /\ bound - y \in Nat /\ t \in Nat /\ x \in Nat /\ y \in Nat
    BY <1>3
  <2>2. ~ (<<bound - y, t>> \in OpToRel(<, Nat))
    BY <1>2, <2>1
  <2>3. <<bound - y, t>> \in Nat \X Nat /\ <<bound - y, t>>[1] = bound - y
        /\ <<bound - y, t>>[2] = t
    BY <2>1
  <2>4. ~ (bound - y < t)
    BY <2>2, <2>3 DEF OpToRel
  <2> QED BY <1>3, <2>1, <2>4
<1> QED BY <1>3, <1>4 DEF Largest

LEMMA WindowsAreNumbers == Windows \subseteq Nat \ {0}
  BY BarsAssumption, MarketAssumption DEF Windows

LEMMA CloseIsBar ==
  ASSUME NEW row \in Rows
  PROVE  CloseOf(row) \in Bars \cup {0}
<1>1. CASE row.bars = {}
  BY <1>1 DEF CloseOf
<1>2. CASE row.bars # {}
  <2>1. row.bars \subseteq Nat /\ \A x \in row.bars : x <= NumBars
    BY BarsAssumption DEF Rows, Bars
  <2>2. Largest(row.bars) \in row.bars
    BY <1>2, <2>1, BarsAssumption, LargestIsMember
  <2> QED BY <1>2, <2>2 DEF CloseOf, Rows
<1> QED BY <1>1, <1>2

LEMMA LagIsBar ==
  ASSUME NEW held \in [Windows -> Rows], NEW w \in Windows
  PROVE  LagAt(held, w) \in Bars \cup {0}
<1>1. CASE Earlier(held, w) = {}
  BY <1>1 DEF LagAt
<1>2. CASE Earlier(held, w) # {}
  <2>1. /\ Earlier(held, w) \subseteq Nat /\ w \in Nat
        /\ \A v \in Earlier(held, w) : v <= w
    <3>1. Windows \subseteq Nat /\ w \in Nat
      BY WindowsAreNumbers
    <3>2. \A v \in Earlier(held, w) : v \in Windows /\ v < w
      BY DEF Earlier
    <3>3. ASSUME NEW v \in Earlier(held, w) PROVE v \in Nat /\ v <= w
      <4>1. v \in Nat /\ w \in Nat /\ v < w
        BY <3>1, <3>2
      <4> QED BY <4>1
    <3> QED BY <3>1, <3>3
  <2>2. Largest(Earlier(held, w)) \in Earlier(held, w)
    BY <1>2, <2>1, LargestIsMember
  <2>3. held[Largest(Earlier(held, w))] \in Rows
    BY <2>2 DEF Earlier
  <2> QED BY <1>2, <2>3, CloseIsBar DEF LagAt
<1> QED BY <1>1, <1>2

LEMMA InputIsFromCore ==
  ASSUME NEW s \in Symbols, NEW w \in Windows
  PROVE  Input(s, w) \subseteq core[s] \cap BarsOf(w)
  BY DEF Input

LEMMA ProcessedIsRows ==
  ASSUME NEW s \in Symbols, core[s] \in SUBSET Bars, NEW held \in [Windows -> Rows],
         NEW w \in Windows
  PROVE  Processed(s, held, w) \in [Windows -> Rows]
<1>1. LagAt(held, w) \in Bars \cup {0} /\ Input(s, w) \in SUBSET Bars
  BY LagIsBar, InputIsFromCore
<1>2. [bars |-> Input(s, w), lag |-> LagAt(held, w)] \in Rows
  BY <1>1 DEF Rows
<1> QED BY <1>2 DEF Processed

LEMMA ProcessedDayIsRows ==
  ASSUME NEW s \in Symbols, core[s] \in SUBSET Bars, dw[s] \in [Windows -> Rows]
  PROVE  ProcessedDay(s) \in [Windows -> Rows]
<1> DEFINE found(w) == Input(s, w)
           held == [w \in Windows |-> IF found(w) = {} THEN dw[s][w]
                                      ELSE [dw[s][w] EXCEPT !.bars = found(w)]]
<1>1. held \in [Windows -> Rows]
  <2>1. \A w \in Windows : [dw[s][w] EXCEPT !.bars = found(w)] \in Rows
    BY InputIsFromCore DEF Rows
  <2> QED BY <2>1
<1> HIDE DEF held
<1>2. ASSUME NEW w \in Windows PROVE [held[w] EXCEPT !.lag = LagAt(held, w)] \in Rows
  <2>1. LagAt(held, w) \in Bars \cup {0} /\ held[w] \in Rows
    BY <1>1, LagIsBar
  <2> QED BY <2>1 DEF Rows
<1>3. ProcessedDay(s) = [w \in Windows |-> IF found(w) = {} THEN held[w]
                                          ELSE [held[w] EXCEPT !.lag = LagAt(held, w)]]
  BY DEF ProcessedDay, held
<1> QED BY <1>1, <1>2, <1>3

-----------------------------------------------------------------------------
(* What a script is doing, and in which script.                            *)

\* Which scripts come to which stage.
StageOfJob ==
  \A p \in Scripts : /\ pc[p] \in {"gate", "mark"} => job[p] = "pipeline"
                     /\ pc[p] = "truncate" => job[p] = "operations"
                     /\ pc[p] \in {"day", "snapshot"} => job[p] \in {"catchup", "repair"}
                     /\ pc[p] = "recheck" => job[p] = "repair"

MarketInd0 == MarketTypeOK /\ dw \in [Symbols -> [Windows -> Rows]] /\ StageOfJob

LEMMA MarketInitially0 == Init => MarketInd0
<1> SUFFICES ASSUME Init PROVE MarketInd0
  OBVIOUS
<1> USE BarsAssumption DEF Init, BarInit
<1>1. dw \in [Symbols -> [Windows -> Rows]]
  BY DEF Rows
<1>2. BarTypeOK
  BY DEF BarTypeOK, NoRows, Quality, Jobs
<1>3. MarketTypeOK
  BY <1>1, <1>2 DEF MarketTypeOK, Stages, Rows
<1> QED BY <1>1, <1>3 DEF MarketInd0, StageOfJob

LEMMA BarTypesKept == MarketInd0 /\ [Next]_vars => BarTypeOK'
<1> SUFFICES ASSUME MarketInd0, [Next]_vars PROVE BarTypeOK'
  OBVIOUS
<1> USE BarsAssumption DEF MarketInd0, MarketTypeOK, BarTypeOK, market, place, loop, causes,
        reasons, Quality, Fault
<1>1. CASE Feed
  <2>1. CASE Tick
    BY <2>1 DEF Tick
  <2>2. ASSUME NEW s \in Symbols, NEW q \in {"none", "bad"}, Misprint(s, q) PROVE BarTypeOK'
    BY <2>2 DEF Misprint
  <2>3. ASSUME NEW s \in Symbols, NEW b \in Bars, Correct(s, b) PROVE BarTypeOK'
    BY <2>3 DEF Correct
  <2> QED BY <1>1, <2>1, <2>2, <2>3 DEF Feed
<1>2. ASSUME NEW p \in Scripts, StartPipeline(p) PROVE BarTypeOK'
  BY <1>2 DEF StartPipeline, BeginCollect, Begin, Jobs
<1>3. ASSUME NEW p \in Scripts, StartCatchup(p) PROVE BarTypeOK'
  BY <1>3 DEF StartCatchup, BeginCollect, Begin, Jobs
<1>4. ASSUME NEW p \in Scripts, StartOperations(p) PROVE BarTypeOK'
  BY <1>4 DEF StartOperations, Begin, Jobs
<1>5. ASSUME NEW p \in Scripts, StartRepair(p) PROVE BarTypeOK'
  <2>1. CASE Covered
    BY <1>5, <2>1 DEF StartRepair, Begin, Jobs
  <2>2. CASE ~Covered
    <3>1. /\ job' = [job EXCEPT ![p] = "repair"] /\ todo' = [todo EXCEPT ![p] = Symbols]
          /\ upto' = [upto EXCEPT ![p] = NumBars]
      BY <1>5, <2>2 DEF StartRepair, BeginCollect, Begin
    <3>2. UNCHANGED <<clock, feed, listed, staging, core, current, batch, fresh, causes>>
      BY <1>5 DEF StartRepair
    <3> QED BY <3>1, <3>2 DEF Jobs
  <2> QED BY <2>1, <2>2
<1>6. ASSUME NEW p \in Scripts, Collect(p) PROVE BarTypeOK'
  <2>1. ASSUME NEW s \in Symbols, Fetch(p, s) PROVE BarTypeOK'
    <3>1. [b \in Bars |-> IF b <= upto[p] THEN feed[s][b] ELSE "none"] \in [Bars -> Quality]
      OBVIOUS
    <3>2. 1 .. upto[p] \subseteq Bars
      <4>1. upto[p] \in Nat /\ upto[p] <= NumBars
        OBVIOUS
      <4> QED BY <4>1 DEF Bars
    <3>3. excused' \subseteq Symbols \X Bars
      <4> DEFINE held == [b \in Bars |-> IF b <= upto[p] THEN feed[s][b] ELSE "none"]
                 out == {x \in 1 .. upto[p] : held[x] = "none"}
      <4>1. excused' = excused \cup {<<s, b>> : b \in out}
        BY <2>1 DEF Fetch
      <4>2. out \subseteq Bars
        BY <3>2
      <4> HIDE DEF out
      <4> QED BY <4>1, <4>2
    <3>4. batch' \in [Scripts -> [Bars -> Quality]] /\ current' \in [Scripts -> SUBSET Symbols]
          /\ todo' \in [Scripts -> SUBSET Symbols]
      BY <2>1, <3>1 DEF Fetch
    <3> QED BY <2>1, <3>3, <3>4 DEF Fetch
  <2>2. ASSUME NEW s \in Symbols, FetchFails(p, s) PROVE BarTypeOK'
    BY <2>2 DEF FetchFails
  <2>3. ASSUME NEW s \in Symbols, NEW b \in Bars, Insert(p, s, b) PROVE BarTypeOK'
    <3>1. NoRows \in [Bars -> Quality] /\ [batch[p] EXCEPT ![b] = "none"] \in [Bars -> Quality]
      BY DEF NoRows
    <3>2. [staging EXCEPT ![s][b] = batch[p][b]] \in [Symbols -> [Bars -> Quality]]
      OBVIOUS
    <3>3. \A q \in Scripts : fresh[q] \cup {<<s, b>>} \subseteq Symbols \X Bars
      OBVIOUS
    <3> QED BY <2>3, <3>1, <3>2, <3>3 DEF Insert
  <2>4. CASE InsertFails(p)
    <3>1. LeftOver(p) \subseteq Symbols \X Bars
      BY DEF LeftOver, RowsOf
    <3> QED BY <2>4, <3>1 DEF InsertFails, NoRows
  <2> QED BY <1>6, <2>1, <2>2, <2>3, <2>4 DEF Collect
<1>7. ASSUME NEW p \in Scripts, Export(p) PROVE BarTypeOK'
  <2>1. \A s \in Symbols : core[s] \cup GoodStaged(s) \subseteq Bars
    BY DEF GoodStaged
  <2>2. core' \in [Symbols -> SUBSET Bars]
    BY <1>7, <2>1 DEF Export, ExportTo
  <2>3. job' = job \/ job' = [job EXCEPT ![p] = "none"]
    BY <1>7 DEF Export, ExportTo, End, GoOn
  <2>4. UNCHANGED <<clock, feed, listed, staging, todo, current, batch, excused, swept, faults>>
    BY <1>7 DEF Export, ExportTo
  <2>5. fresh' = [fresh EXCEPT ![p] = {}] /\ upto' = [upto EXCEPT ![p] = 0]
    BY <1>7 DEF Export, ExportTo
  <2>6. job' \in [Scripts -> Jobs \cup {"none"}]
    BY <2>3
  <2>7. upto' \in [Scripts -> 0 .. NumBars]
    BY <2>5
  <2>8. fresh' \in [Scripts -> SUBSET (Symbols \X Bars)]
    BY <2>5
  <2> QED BY <2>2, <2>4, <2>6, <2>7, <2>8
<1>8. ASSUME NEW p \in Scripts, Fail(p) PROVE BarTypeOK'
  <2>1. LeftOver(p) \subseteq Symbols \X Bars
    BY DEF LeftOver, RowsOf
  <2>2. NoRows \in [Bars -> Quality] /\ 0 \in 0 .. NumBars
    BY DEF NoRows
  <2>3. /\ job' = [job EXCEPT ![p] = "none"] /\ todo' = [todo EXCEPT ![p] = {}]
        /\ batch' = [batch EXCEPT ![p] = NoRows] /\ current' = [current EXCEPT ![p] = {}]
        /\ upto' = [upto EXCEPT ![p] = 0] /\ fresh' = [fresh EXCEPT ![p] = {}]
    BY <1>8 DEF Fail, Halt, End
  <2>4. /\ UNCHANGED <<clock, feed, listed, staging, core, swept>>
        /\ excused' = excused \cup LeftOver(p)
        /\ faults < FaultCap /\ faults' = faults + 1
    BY <1>8 DEF Fail, Halt
  <2> QED BY <2>1, <2>2, <2>3, <2>4
<1>9. ASSUME NEW p \in Scripts, Clear(p) PROVE BarTypeOK'
  <2>1. Backfilled \subseteq Symbols
    BY DEF Backfilled
  <2>2. UNION {{s} \X Staged(s) : s \in Backfilled} \subseteq Symbols \X Bars
    BY <2>1 DEF Staged, RowsOf
  <2>3. swept' = swept \cup UNION {{s} \X Staged(s) : s \in Backfilled}
    BY <1>9 DEF Clear, Truncate
  <2> QED BY <1>9, <2>2, <2>3 DEF Clear, Truncate, End, NoRows
<1>10. ASSUME NEW p \in Scripts, \/ GateCloses(p) \/ WriteMarker(p) \/ Recheck(p)
                                 \/ ExportParquet(p) \/ Aggregate(p) \/ AggregateDay(p)
                                 \/ AggregateNothing(p)
       PROVE  BarTypeOK'
  <2>1. UNCHANGED <<clock, feed, listed, staging, core, todo, current, batch, upto, fresh, excused,
                    swept>>
    BY <1>10 DEF GateCloses, WriteMarker, Recheck, ExportParquet, Aggregate, AggregateDay,
                 AggregateNothing, inputs
  <2>2. job' = job \/ job' = [job EXCEPT ![p] = "none"]
    BY <1>10 DEF GateCloses, WriteMarker, Recheck, ExportParquet, Aggregate, AggregateDay,
                 AggregateNothing, End, GoOn
  <2>3. faults' = faults \/ (faults < FaultCap /\ faults' = faults + 1)
    BY <1>10 DEF GateCloses, WriteMarker, Recheck, ExportParquet, Aggregate, AggregateDay,
                 AggregateNothing, inputs
  <2>4. job' \in [Scripts -> Jobs \cup {"none"}]
    BY <2>2
  <2>5. faults' \in 0 .. FaultCap
    BY <2>3
  <2> QED BY <2>1, <2>4, <2>5
<1>11. CASE UNCHANGED vars
  BY <1>11 DEF vars, barVars
<1> QED BY <1>1, <1>2, <1>3, <1>4, <1>5, <1>6, <1>7, <1>8, <1>9, <1>10, <1>11
        DEF Next, Step

\* What the steps of a script do to its stage and its window.
LEMMA StagesKept == MarketInd0 /\ [Next]_vars =>
  /\ pc' \in [Scripts -> Stages]
  /\ window' \in [Scripts -> Windows \cup {0}]
  /\ \A p \in Scripts : job'[p] = "none" <=> pc'[p] = "idle"
  /\ \A p \in Scripts : job'[p] = "pipeline" <=> window'[p] # 0
  /\ StageOfJob'
<1> DEFINE Goal == /\ pc' \in [Scripts -> Stages]
                   /\ window' \in [Scripts -> Windows \cup {0}]
                   /\ \A p \in Scripts : job'[p] = "none" <=> pc'[p] = "idle"
                   /\ \A p \in Scripts : job'[p] = "pipeline" <=> window'[p] # 0
                   /\ StageOfJob'
<1> SUFFICES ASSUME MarketInd0, [Next]_vars PROVE Goal
  OBVIOUS
<1>t. /\ pc \in [Scripts -> Stages] /\ job \in [Scripts -> Jobs \cup {"none"}]
      /\ window \in [Scripts -> Windows \cup {0}]
      /\ \A p \in Scripts : job[p] = "none" <=> pc[p] = "idle"
      /\ \A p \in Scripts : job[p] = "pipeline" <=> window[p] # 0
      /\ StageOfJob
  BY DEF MarketInd0, MarketTypeOK, BarTypeOK
<1> USE DEF Stages, Jobs, StageOfJob
<1>1. CASE UNCHANGED <<job, pc, window>>
  BY <1>1, <1>t
<1>2. ASSUME NEW p \in Scripts, StartPipeline(p) PROVE Goal
  <2>1. clock \div WindowSize \in Windows
    <3>1. clock \in Nat /\ clock >= WindowSize /\ clock <= NumBars
      BY <1>2, BarsAssumption, MarketAssumption DEF StartPipeline
    <3>2. clock \div WindowSize >= 1 /\ clock \div WindowSize <= NumBars \div WindowSize
          /\ clock \div WindowSize \in Nat
      BY <3>1, BarsAssumption, MarketAssumption
    <3> QED BY <3>2 DEF Windows
  <2>2. clock \div WindowSize # 0
    BY <2>1, WindowsAreNumbers
  <2> QED BY <1>2, <1>t, <2>1, <2>2 DEF StartPipeline, BeginCollect, Begin
<1>3. ASSUME NEW p \in Scripts, StartCatchup(p) PROVE Goal
  BY <1>3, <1>t DEF StartCatchup, BeginCollect, Begin, dwVars
<1>4. ASSUME NEW p \in Scripts, StartOperations(p) PROVE Goal
  BY <1>4, <1>t DEF StartOperations, Begin, dwVars
<1>5. ASSUME NEW p \in Scripts, StartRepair(p) PROVE Goal
  <2>1. \E stage \in {"snapshot", "backfill"} : Begin(p, "repair", stage)
    BY <1>5 DEF StartRepair, BeginCollect
  <2> QED BY <1>5, <1>t, <2>1 DEF StartRepair, Begin
<1>6. ASSUME NEW p \in Scripts, Export(p) PROVE Goal
  <2>1. window' = window /\ job[p] # "none"
    <3>1. pc[p] # "idle"
      BY <1>6 DEF Export, ExportTo, Collected, Collecting
    <3> QED BY <1>6, <1>t, <3>1 DEF Export, dwVars
  <2>2. CASE AfterExport(p) = "end"
    <3>1. job[p] = "operations"
      BY <2>2 DEF AfterExport
    <3> QED BY <1>6, <1>t, <2>1, <2>2, <3>1 DEF Export, ExportTo, End
  <2>3. CASE AfterExport(p) # "end"
    <3>1. /\ AfterExport(p) \in {"gate", "truncate", "day"}
          /\ AfterExport(p) = "gate" => job[p] = "pipeline"
          /\ AfterExport(p) = "truncate" => job[p] = "operations"
          /\ AfterExport(p) = "day" => job[p] \in {"catchup", "repair"}
      BY <1>t, <2>1, <2>3 DEF AfterExport
    <3>2. job' = job /\ pc' = [pc EXCEPT ![p] = AfterExport(p)]
      BY <1>6, <2>3 DEF Export, ExportTo, GoOn
    <3> QED BY <1>t, <2>1, <3>1, <3>2
  <2> QED BY <2>2, <2>3
<1>7. ASSUME NEW p \in Scripts, Fail(p) \/ GateCloses(p) \/ WriteMarker(p) PROVE Goal
  <2>1. End(p) /\ window' = [window EXCEPT ![p] = 0]
    BY <1>7 DEF Fail, Halt, GateCloses, WriteMarker
  <2> QED BY <1>t, <2>1 DEF End
<1>8. ASSUME NEW p \in Scripts, Clear(p) PROVE Goal
  BY <1>8, <1>t DEF Clear, Truncate, End, dwVars
<1>9. ASSUME NEW p \in Scripts, Aggregate(p) PROVE Goal
  BY <1>9, <1>t DEF Aggregate, GoOn
<1>10. ASSUME NEW p \in Scripts, AggregateDay(p) \/ AggregateNothing(p) PROVE Goal
  <2>1. /\ pc[p] = "day" /\ UNCHANGED <<job, window>>
        /\ \/ pc' = [pc EXCEPT ![p] = "snapshot"]
           \/ job[p] = "repair" /\ pc' = [pc EXCEPT ![p] = "recheck"]
    BY <1>10 DEF AggregateDay, AggregateNothing, GoOn, dwVars
  <2> QED BY <1>t, <2>1
<1>11. ASSUME NEW p \in Scripts, Recheck(p) PROVE Goal
  BY <1>11, <1>t DEF Recheck, GoOn, End
<1>12. ASSUME NEW p \in Scripts, ExportParquet(p) PROVE Goal
  BY <1>12, <1>t DEF ExportParquet, End
<1> HIDE DEF Goal
<1>13. (Feed \/ \E p \in Scripts : Collect(p)) => UNCHANGED <<job, pc, window>>
  BY DEF Feed, Tick, Misprint, Correct, Collect, Fetch, FetchFails, Insert, InsertFails,
         place, dwVars
<1> QED BY <1>1, <1>2, <1>3, <1>4, <1>5, <1>6, <1>7, <1>8, <1>9, <1>10, <1>11, <1>12, <1>13
        DEF Next, Step, vars, barVars, place, dwVars

LEMMA RowTypesKept == MarketInd0 /\ [Next]_vars => dw' \in [Symbols -> [Windows -> Rows]]
<1> SUFFICES ASSUME MarketInd0, [Next]_vars PROVE dw' \in [Symbols -> [Windows -> Rows]]
  OBVIOUS
<1>t. /\ dw \in [Symbols -> [Windows -> Rows]] /\ core \in [Symbols -> SUBSET Bars]
      /\ window \in [Scripts -> Windows \cup {0}]
      /\ \A p \in Scripts : job[p] = "pipeline" <=> window[p] # 0
      /\ StageOfJob
  BY DEF MarketInd0, MarketTypeOK, BarTypeOK
<1>1. ASSUME NEW p \in Scripts, Aggregate(p) PROVE dw' \in [Symbols -> [Windows -> Rows]]
  <2>1. window[p] \in Windows
    BY <1>1, <1>t DEF Aggregate, StageOfJob
  <2>2. \A s \in Symbols : Processed(s, dw[s], window[p]) \in [Windows -> Rows]
    BY <1>t, <2>1, ProcessedIsRows
  <2> QED BY <1>1, <2>2 DEF Aggregate
<1>2. ASSUME NEW p \in Scripts, AggregateDay(p) PROVE dw' \in [Symbols -> [Windows -> Rows]]
  <2>1. \A s \in Symbols : ProcessedDay(s) \in [Windows -> Rows]
    BY <1>t, ProcessedDayIsRows
  <2> QED BY <1>2, <2>1 DEF AggregateDay
<1>3. dw' = dw \/ \E p \in Scripts : Aggregate(p) \/ AggregateDay(p)
  BY DEF Next, Step, Feed, StartPipeline, StartCatchup, StartOperations, StartRepair, Collect,
         Export, Fail, Clear, GateCloses, WriteMarker, AggregateNothing, Recheck,
         ExportParquet, vars, dwVars
<1> QED BY <1>t, <1>1, <1>2, <1>3

LEMMA FilesKept == MarketInd0 /\ [Next]_vars =>
  /\ marker' \in Windows \cup {0}
  /\ snapshot' \in Snapshots \cup {NoFile}
  /\ backfilled' \in [Scripts -> BOOLEAN]
  /\ shipped' \in {"no", "own", "reused"}
  /\ disordered' \in BOOLEAN
<1> DEFINE Goal == /\ marker' \in Windows \cup {0}
                   /\ snapshot' \in Snapshots \cup {NoFile}
                   /\ backfilled' \in [Scripts -> BOOLEAN]
                   /\ shipped' \in {"no", "own", "reused"}
                   /\ disordered' \in BOOLEAN
<1> SUFFICES ASSUME MarketInd0, [Next]_vars PROVE Goal
  OBVIOUS
<1>t. /\ marker \in Windows \cup {0}
      /\ snapshot \in Snapshots \cup {NoFile}
      /\ backfilled \in [Scripts -> BOOLEAN]
      /\ shipped \in {"no", "own", "reused"}
      /\ disordered \in BOOLEAN
      /\ window \in [Scripts -> Windows \cup {0}]
  BY DEF MarketInd0, MarketTypeOK
<1>1. CASE UNCHANGED <<marker, snapshot, backfilled, shipped, disordered>>
  BY <1>1, <1>t
<1>2. ASSUME NEW p \in Scripts, StartRepair(p) PROVE Goal
  BY <1>2, <1>t DEF StartRepair
<1>3. ASSUME NEW p \in Scripts, Aggregate(p) \/ AggregateDay(p) PROVE Goal
  <2>1. UNCHANGED <<marker, snapshot, backfilled, shipped>>
    BY <1>3 DEF Aggregate, AggregateDay, files
  <2>2. disordered' \in BOOLEAN
    BY <1>3, <1>t DEF Aggregate, AggregateDay
  <2> QED BY <1>t, <2>1, <2>2
<1>4. ASSUME NEW p \in Scripts, WriteMarker(p) PROVE Goal
  BY <1>4, <1>t DEF WriteMarker
<1>5. ASSUME NEW p \in Scripts, Recheck(p) PROVE Goal
  BY <1>5, <1>t DEF Recheck
<1>6. ASSUME NEW p \in Scripts, ExportParquet(p) PROVE Goal
  <2>1. Table \in Snapshots
    BY DEF Table, Snapshots
  <2>2. snapshot' \in {snapshot, Table} /\ shipped' \in {shipped, "own", "reused"}
    BY <1>6 DEF ExportParquet
  <2> QED BY <1>6, <1>t, <2>1, <2>2 DEF ExportParquet
<1> HIDE DEF Goal
<1>7. \/ UNCHANGED <<marker, snapshot, backfilled, shipped, disordered>>
      \/ \E p \in Scripts : \/ StartRepair(p) \/ Aggregate(p) \/ AggregateDay(p)
                            \/ WriteMarker(p) \/ Recheck(p) \/ ExportParquet(p)
  BY DEF Next, Step, Feed, StartPipeline, StartCatchup, StartOperations, Collect, Export,
         Fail, Clear, GateCloses, AggregateNothing, vars, dwVars, files
<1> QED BY <1>1, <1>2, <1>3, <1>4, <1>5, <1>6, <1>7

LEMMA MarketStep0 == MarketInd0 /\ [Next]_vars => MarketInd0'
  BY BarTypesKept, StagesKept, RowTypesKept, FilesKept
     DEF MarketInd0, MarketTypeOK, Rows

\* Every variable keeps to its type, and a script to its stages.
THEOREM MarketTypes == Spec => []MarketTypeOK
<1>1. MarketInd0 => MarketTypeOK
  BY DEF MarketInd0
<1> QED BY <1>1, MarketInitially0, MarketStep0, PTL DEF Spec

-----------------------------------------------------------------------------
(* The truncation.                                                         *)

\* What a script that is about to truncate has exported, or has seen staged
\* since.
ExportedIsInCore ==
  \A p \in Scripts : pc[p] = "truncate" =>
    \A s \in Symbols : \A b \in GoodStaged(s) : b \in core[s] \/ <<s, b>> \in fresh[p]

LEMMA CoreGrows ==
  MarketInd0 /\ [Next]_vars => \A s \in Symbols : core[s] \subseteq core'[s]
<1> SUFFICES ASSUME MarketInd0, [Next]_vars PROVE \A s \in Symbols : core[s] \subseteq core'[s]
  OBVIOUS
<1>1. ASSUME NEW p \in Scripts, Export(p) PROVE \A s \in Symbols : core[s] \subseteq core'[s]
  BY <1>1 DEF Export, ExportTo
<1>2. core' = core \/ \E p \in Scripts : Export(p)
  BY DEF Next, Step, Feed, Tick, Misprint, Correct, StartPipeline, StartCatchup,
         StartOperations, StartRepair, Collect, Fetch, FetchFails, Insert, InsertFails, Fail,
         Halt, Clear, Truncate, GateCloses, Aggregate, WriteMarker, AggregateDay,
         AggregateNothing, Recheck, ExportParquet, vars, barVars, inputs
<1> QED BY <1>1, <1>2

LEMMA ExportedKept ==
  MarketInd0 /\ ExportedIsInCore /\ [Next]_vars => ExportedIsInCore'
<1> SUFFICES ASSUME MarketInd0, ExportedIsInCore, [Next]_vars PROVE ExportedIsInCore'
  OBVIOUS
<1>t. /\ staging \in [Symbols -> [Bars -> Quality]] /\ core \in [Symbols -> SUBSET Bars]
      /\ pc \in [Scripts -> Stages] /\ fresh \in [Scripts -> SUBSET (Symbols \X Bars)]
  BY DEF MarketInd0, MarketTypeOK, BarTypeOK
<1> USE DEF ExportedIsInCore, GoodStaged
<1>1. ASSUME UNCHANGED <<staging, core>>, NEW p \in Scripts, NEW stage, stage # "truncate",
             \/ UNCHANGED <<pc, fresh>>
             \/ pc' = [pc EXCEPT ![p] = stage]
                  /\ (fresh' = fresh \/ fresh' = [fresh EXCEPT ![p] = {}])
      PROVE  ExportedIsInCore'
  BY <1>1, <1>t
<1>2. ASSUME NEW p \in Scripts, Export(p) PROVE ExportedIsInCore'
  <2>1. \A s \in Symbols : core'[s] = core[s] \cup GoodStaged(s) /\ staging' = staging
    BY <1>2 DEF Export, ExportTo
  <2> QED BY <2>1
<1>3. ASSUME NEW p \in Scripts, Clear(p) PROVE ExportedIsInCore'
  BY <1>3 DEF Clear, Truncate, NoRows
<1>4. ASSUME NEW p \in Scripts, Collect(p) PROVE ExportedIsInCore'
  <2>1. ASSUME NEW s \in Symbols, NEW b \in Bars, Insert(p, s, b) PROVE ExportedIsInCore'
    <3>1. UNCHANGED <<core, pc>>
      BY <2>1 DEF Insert, place
    <3>2. CASE staging' = staging
      <4>1. \A q \in Scripts : fresh[q] \subseteq fresh'[q]
        BY <2>1, <1>t DEF Insert
      <4> QED BY <3>1, <3>2, <4>1
    <3>3. CASE staging[s][b] = "none"
      <4>1. /\ staging' = [staging EXCEPT ![s][b] = batch[p][b]]
            /\ fresh' = [q \in Scripts |-> IF pc[q] = "truncate"
                                           THEN fresh[q] \cup {<<s, b>>} ELSE fresh[q]]
        BY <2>1, <3>3 DEF Insert
      <4>2. ASSUME NEW q \in Scripts, pc'[q] = "truncate", NEW t \in Symbols,
                   NEW x \in Bars, staging'[t][x] = "good"
            PROVE  x \in core'[t] \/ <<t, x>> \in fresh'[q]
        <5>1. staging[t][x] = "good" \/ <<t, x>> = <<s, b>>
          BY <1>t, <4>1, <4>2
        <5>2. pc[q] = "truncate" /\ fresh'[q] = fresh[q] \cup {<<s, b>>}
          BY <3>1, <4>1, <4>2
        <5> QED BY <3>1, <5>1, <5>2
      <4> QED BY <4>2
    <3> QED BY <2>1, <3>2, <3>3 DEF Insert
  <2>2. CASE ~ \E s \in Symbols, b \in Bars : Insert(p, s, b)
    BY <1>4, <2>2 DEF Collect, Fetch, FetchFails, InsertFails, place
  <2> QED BY <2>1, <2>2
<1>5. ASSUME NEW p \in Scripts, Fail(p) PROVE ExportedIsInCore'
  BY <1>1, <1>5 DEF Fail, Halt, End
<1>6. ASSUME NEW p \in Scripts, \/ StartPipeline(p) \/ StartCatchup(p) \/ StartOperations(p)
                                \/ StartRepair(p)
      PROVE  ExportedIsInCore'
  <2>1. UNCHANGED <<staging, core, fresh>>
    BY <1>6 DEF StartPipeline, StartCatchup, StartOperations, StartRepair
  <2>2. \E stage \in {"collect", "export", "snapshot", "backfill"} :
          pc' = [pc EXCEPT ![p] = stage]
    BY <1>6 DEF StartPipeline, StartCatchup, StartOperations, StartRepair, BeginCollect, Begin
  <2> QED BY <1>1, <2>1, <2>2
<1>7. ASSUME NEW p \in Scripts, \/ GateCloses(p) \/ Aggregate(p) \/ WriteMarker(p)
                                \/ AggregateDay(p) \/ AggregateNothing(p) \/ Recheck(p)
                                \/ ExportParquet(p)
      PROVE  ExportedIsInCore'
  <2>1. UNCHANGED <<staging, core, fresh>>
    BY <1>7 DEF GateCloses, Aggregate, WriteMarker, AggregateDay, AggregateNothing, Recheck,
                ExportParquet, inputs
  <2>2. \E stage \in {"idle", "mark", "recheck", "snapshot"} : pc' = [pc EXCEPT ![p] = stage]
    BY <1>7 DEF GateCloses, Aggregate, WriteMarker, AggregateDay, AggregateNothing, Recheck,
                ExportParquet, End, GoOn
  <2> QED BY <1>1, <2>1, <2>2
<1>8. CASE Feed \/ UNCHANGED vars
  BY <1>8 DEF Feed, Tick, Misprint, Correct, vars, barVars, place
<1> QED BY <1>2, <1>3, <1>4, <1>5, <1>6, <1>7, <1>8 DEF Next, Step

\* No row of the staging table is lost by the truncation but those that came
\* after the export, whichever scripts run and fail beside it.
THEOREM TruncationSpares == Spec => TruncateSpares
<1>1. Init => MarketInd0 /\ ExportedIsInCore
  BY MarketInitially0 DEF Init, BarInit, ExportedIsInCore
<1>2. MarketInd0 /\ ExportedIsInCore /\ [Next]_vars => (MarketInd0 /\ ExportedIsInCore)'
  BY MarketStep0, ExportedKept
<1>3. ExportedIsInCore =>
        [\A p \in Scripts : Clear(p) =>
           \A s \in Symbols : \A b \in GoodStaged(s) :
             b \in core[s] \/ <<s, b>> \in fresh[p]]_vars
  BY DEF ExportedIsInCore, Clear, Truncate
<1> QED BY <1>1, <1>2, <1>3, PTL DEF Spec, TruncateSpares

-----------------------------------------------------------------------------
(* The marker and the snapshot: rows only grow.                            *)

\* A row holds bars that are in the table of bars, which only grows too, and
\* is a symbol's that the procedure takes.
RowsAreFromCore ==
  \A s \in Symbols : \A w \in Windows : dw[s][w].bars \subseteq Input(s, w)

LEMMA ProcessedRow ==
  ASSUME NEW s \in Symbols, NEW held \in [Windows -> Rows], NEW w \in Windows,
         NEW v \in Windows
  PROVE  LET found == Input(s, w)
         IN Processed(s, held, w)[v].bars =
              IF v = w /\ found # {} THEN found ELSE held[v].bars
<1> DEFINE found == Input(s, w)
           row == [bars |-> found, lag |-> LagAt(held, w)]
<1>1. CASE found = {}
  BY <1>1 DEF Processed
<1>2. CASE found # {}
  <2>1. Processed(s, held, w) = [held EXCEPT ![w] = row]
    BY <1>2 DEF Processed
  <2>2. row.bars = found
    OBVIOUS
  <2> HIDE DEF row
  <2> QED BY <1>2, <2>1, <2>2
<1> QED BY <1>1, <1>2

LEMMA ProcessedDayRow ==
  ASSUME NEW s \in Symbols, dw[s] \in [Windows -> Rows], NEW w \in Windows
  PROVE  LET found == Input(s, w)
         IN ProcessedDay(s)[w].bars = IF found # {} THEN found ELSE dw[s][w].bars
<1> DEFINE found(v) == Input(s, v)
           held == [v \in Windows |-> IF found(v) = {} THEN dw[s][v]
                                      ELSE [dw[s][v] EXCEPT !.bars = found(v)]]
<1>1. dw[s][w] \in Rows
  OBVIOUS
<1>2. [dw[s][w] EXCEPT !.bars = found(w)].bars = found(w)
  BY <1>1 DEF Rows
<1>3. held[w].bars = IF found(w) # {} THEN found(w) ELSE dw[s][w].bars
  BY <1>2
<1>4. found(w) # {} => held[w] = [dw[s][w] EXCEPT !.bars = found(w)]
  OBVIOUS
<1>5. ProcessedDay(s)[w] = IF found(w) = {} THEN held[w]
                           ELSE [held[w] EXCEPT !.lag = LagAt(held, w)]
  BY DEF ProcessedDay
<1>6. found(w) # {} => [held[w] EXCEPT !.lag = LagAt(held, w)].bars = held[w].bars
  BY <1>1, <1>4 DEF Rows
<1> HIDE DEF held, found
<1> QED BY <1>3, <1>5, <1>6 DEF found

LEMMA ListedStays == [Next]_vars => listed' = listed
  BY DEF Next, Step, Feed, StartPipeline, StartCatchup, StartOperations, StartRepair, Collect,
         Export, ExportTo, Fail, Halt, Clear, Truncate, GateCloses, Aggregate, WriteMarker,
         AggregateDay, AggregateNothing, Recheck, ExportParquet, vars, barVars, market, inputs,
         Tick, Misprint, Correct, Fetch, FetchFails, Insert, InsertFails

\* The steps that write rows, and what they make of them.
LEMMA RowsGrow ==
  MarketInd0 /\ RowsAreFromCore /\ [Next]_vars =>
    /\ RowsAreFromCore'
    /\ \A s \in Symbols : \A w \in Windows : dw[s][w].bars \subseteq dw'[s][w].bars
<1> SUFFICES ASSUME MarketInd0, RowsAreFromCore, [Next]_vars,
                    NEW s \in Symbols, NEW w \in Windows
             PROVE  /\ dw'[s][w].bars \subseteq Input(s, w)'
                    /\ dw[s][w].bars \subseteq dw'[s][w].bars
  BY DEF RowsAreFromCore
<1>t. /\ dw \in [Symbols -> [Windows -> Rows]] /\ core \in [Symbols -> SUBSET Bars]
      /\ window \in [Scripts -> Windows \cup {0}]
      /\ \A p \in Scripts : job[p] = "pipeline" <=> window[p] # 0
      /\ StageOfJob
  BY DEF MarketInd0, MarketTypeOK, BarTypeOK
<1>c. Input(s, w) \subseteq Input(s, w)' /\ dw[s][w].bars \subseteq Input(s, w)
  BY CoreGrows, ListedStays DEF RowsAreFromCore, Input
<1>1. ASSUME NEW p \in Scripts, Aggregate(p)
      PROVE  \/ dw'[s][w].bars = dw[s][w].bars
             \/ Input(s, w) # {} /\ dw'[s][w].bars = Input(s, w)
  <2>1. window[p] \in Windows /\ dw'[s] = Processed(s, dw[s], window[p])
    BY <1>1, <1>t DEF Aggregate, StageOfJob
  <2>2. dw[s] \in [Windows -> Rows]
    BY <1>t
  <2> DEFINE found == Input(s, window[p])
  <2>3. Processed(s, dw[s], window[p])[w].bars =
          IF w = window[p] /\ found # {} THEN found ELSE dw[s][w].bars
    BY <2>1, <2>2, ProcessedRow
  <2> QED BY <2>1, <2>3
<1>2. ASSUME NEW p \in Scripts, AggregateDay(p)
      PROVE  \/ dw'[s][w].bars = dw[s][w].bars
             \/ Input(s, w) # {} /\ dw'[s][w].bars = Input(s, w)
  <2>1. dw'[s] = ProcessedDay(s) /\ dw[s] \in [Windows -> Rows]
    BY <1>2, <1>t DEF AggregateDay
  <2> QED BY <2>1, ProcessedDayRow
<1>3. dw' = dw \/ \E p \in Scripts : Aggregate(p) \/ AggregateDay(p)
  BY DEF Next, Step, Feed, StartPipeline, StartCatchup, StartOperations, StartRepair, Collect,
         Export, Fail, Clear, GateCloses, WriteMarker, AggregateNothing, Recheck,
         ExportParquet, vars, dwVars
<1> QED BY <1>c, <1>1, <1>2, <1>3

\* The symbols with the last bar in their row, and those that were counted only.
Holding(w) == {s \in Symbols : w * WindowSize \in dw[s][w].bars} \cup (Symbols \ listed)
Vouched(w) == Cardinality(Holding(w)) >= Required

MarkIsVouched == \A p \in Scripts : pc[p] = "mark" => Vouched(window[p])

LEMMA VouchedStays ==
  ASSUME NEW w \in Windows, Vouched(w),
         \A s \in Symbols : dw[s][w].bars \subseteq dw'[s][w].bars, listed' = listed
  PROVE  Vouched(w)'
<1>1. Holding(w) \subseteq Holding(w)' /\ Holding(w)' \subseteq Symbols
  BY DEF Holding
<1>2. IsFiniteSet(Holding(w)')
  BY <1>1, BarsAssumption, FS_Subset
<1>3. Cardinality(Holding(w)) <= Cardinality(Holding(w)') /\ IsFiniteSet(Holding(w))
  BY <1>1, <1>2, FS_Subset
<1>4. Cardinality(Holding(w)) \in Nat /\ Cardinality(Holding(w)') \in Nat
  BY <1>2, <1>3, FS_CardinalityType
<1> QED BY <1>3, <1>4, MarketAssumption DEF Vouched

LEMMA LastBarIsInWindow ==
  ASSUME NEW w \in Windows PROVE w * WindowSize \in BarsOf(w)
<1>1. w \in Nat \ {0} /\ WindowSize \in Nat \ {0}
  BY WindowsAreNumbers, MarketAssumption
<1>2. (w - 1) * WindowSize = w * WindowSize - WindowSize
  BY <1>1
<1>3. w * WindowSize \in Nat /\ (w - 1) * WindowSize + 1 <= w * WindowSize
  BY <1>1, <1>2
<1>4. (w - 1) * WindowSize \in Int
  BY <1>1
<1> QED BY <1>3, <1>4 DEF BarsOf

MarkInd == MarketInd0 /\ RowsAreFromCore /\ MarkIsVouched /\ MarkerVouches

LEMMA MarkStep == MarkInd /\ [Next]_vars => MarkIsVouched' /\ MarkerVouches'
<1> SUFFICES ASSUME MarkInd, [Next]_vars PROVE MarkIsVouched' /\ MarkerVouches'
  OBVIOUS
<1>t. /\ window \in [Scripts -> Windows \cup {0}] /\ marker \in Windows \cup {0}
      /\ pc \in [Scripts -> Stages] /\ dw \in [Symbols -> [Windows -> Rows]]
      /\ \A p \in Scripts : job[p] = "pipeline" <=> window[p] # 0
      /\ StageOfJob
  BY DEF MarkInd, MarketInd0, MarketTypeOK, BarTypeOK
<1>g. \A s \in Symbols : \A w \in Windows : dw[s][w].bars \subseteq dw'[s][w].bars
  BY RowsGrow DEF MarkInd
<1>l. listed' = listed
  BY ListedStays
<1>v. \A w \in Windows : Vouched(w) => Vouched(w)'
  BY <1>g, <1>l, VouchedStays
<1>w. \A p \in Scripts : pc[p] = "mark" => window[p] \in Windows
  BY <1>t DEF StageOfJob
<1>m. MarkerVouches = (marker # 0 => Vouched(marker))
  BY DEF MarkerVouches, Vouched, Holding
<1>n. MarkerVouches' = (marker' # 0 => Vouched(marker)')
  BY DEF MarkerVouches, Vouched, Holding
<1>1. ASSUME NEW p \in Scripts, Aggregate(p) PROVE MarkIsVouched' /\ MarkerVouches'
  <2>0. PICK w \in Windows : w = window[p]
    BY <1>1, <1>t DEF Aggregate, StageOfJob
  <2>1. dw' = [s \in Symbols |-> Processed(s, dw[s], w)] /\ GateOpen(w)
    BY <1>1, <2>0 DEF Aggregate
  <2>2. LastBarSymbols(w) \subseteq Holding(w)'
    <3> SUFFICES ASSUME NEW s \in listed, s \in Symbols, w * WindowSize \in core[s]
                 PROVE  w * WindowSize \in dw'[s][w].bars
      BY <1>l DEF LastBarSymbols, Holding
    <3>1. w * WindowSize \in Input(s, w)
      BY <2>1, LastBarIsInWindow DEF Input
    <3>2. dw[s] \in [Windows -> Rows] /\ dw'[s] = Processed(s, dw[s], w)
      BY <1>t, <2>1
    <3> DEFINE found == Input(s, w)
    <3>3. dw'[s][w].bars = found
      <4>1. Processed(s, dw[s], w)[w].bars = IF w = w /\ found # {} THEN found
                                              ELSE dw[s][w].bars
        BY <3>2, ProcessedRow
      <4> QED BY <3>1, <3>2, <4>1
    <3> QED BY <3>1, <3>3
  <2>3. IsFiniteSet(Holding(w)')
    <3>1. Holding(w)' \subseteq Symbols
      BY DEF Holding
    <3> QED BY <3>1, BarsAssumption, FS_Subset
  <2>4. Cardinality(LastBarSymbols(w)) <= Cardinality(Holding(w)')
        /\ IsFiniteSet(LastBarSymbols(w))
    BY <2>2, <2>3, FS_Subset
  <2>5. Cardinality(LastBarSymbols(w)) \in Nat /\ Cardinality(Holding(w)') \in Nat
    BY <2>3, <2>4, FS_CardinalityType
  <2>6. Cardinality(Holding(w)') >= Required
    BY <2>1, <2>4, <2>5, MarketAssumption DEF GateOpen
  <2>7. /\ window' = window /\ marker' = marker
        /\ pc' = [pc EXCEPT ![p] = "mark"]
    BY <1>1 DEF Aggregate, GoOn, files
  <2>8. Vouched(window[p])'
    BY <2>0, <2>6, <2>7 DEF Vouched, Holding
  <2>9. ASSUME NEW q \in Scripts, pc'[q] = "mark" PROVE Vouched(window[q])'
    <3>1. CASE q = p
      BY <2>8, <3>1
    <3>2. CASE q # p
      <4>1. pc[q] = "mark" /\ window[q] \in Windows /\ Vouched(window[q])
        BY <1>t, <1>w, <2>7, <2>9, <3>2 DEF MarkInd, MarkIsVouched
      <4>2. \A v \in Windows : v = window[q] => Vouched(v)'
        BY <1>v, <4>1
      <4> QED BY <2>7, <4>1, <4>2 DEF Vouched, Holding
    <3> QED BY <3>1, <3>2
  <2>10. MarkerVouches'
    <3>1. \A v \in Windows : v = marker => (Vouched(v) => Vouched(v)')
      BY <1>v
    <3> QED BY <1>m, <1>n, <1>t, <2>7, <3>1 DEF MarkInd, Vouched, Holding
  <2> QED BY <2>9, <2>10 DEF MarkIsVouched
<1>2. ASSUME ~ \E p \in Scripts : Aggregate(p),
             \A q \in Scripts : pc'[q] = "mark" => pc[q] = "mark" /\ window'[q] = window[q],
             marker' # marker => \E p \in Scripts : pc[p] = "mark" /\ marker' = window[p]
      PROVE  MarkIsVouched' /\ MarkerVouches'
  <2>1. ASSUME NEW q \in Scripts, pc'[q] = "mark" PROVE Vouched(window[q])'
    <3>1. window[q] \in Windows /\ Vouched(window[q]) /\ window'[q] = window[q]
      BY <1>2, <1>w, <2>1 DEF MarkInd, MarkIsVouched
    <3>2. \A v \in Windows : v = window[q] => Vouched(v)'
      BY <1>v, <3>1
    <3> QED BY <3>1, <3>2 DEF Vouched, Holding
  <2>2. MarkerVouches'
    <3>1. marker' # 0 => marker' \in Windows /\ Vouched(marker')
      BY <1>2, <1>m, <1>t, <1>w DEF MarkInd, MarkIsVouched
    <3>2. \A v \in Windows : v = marker' /\ Vouched(v) => Vouched(v)'
      BY <1>v
    <3> QED BY <1>n, <3>1, <3>2 DEF Vouched, Holding
  <2> QED BY <2>1, <2>2 DEF MarkIsVouched
<1>3. ASSUME ~ \E p \in Scripts : Aggregate(p)
      PROVE  /\ \A q \in Scripts : pc'[q] = "mark" => pc[q] = "mark" /\ window'[q] = window[q]
             /\ marker' # marker => \E p \in Scripts : pc[p] = "mark" /\ marker' = window[p]
  <2>1. CASE UNCHANGED <<pc, window, marker>>
    BY <2>1
  <2>2. ASSUME NEW p \in Scripts, NEW stage, stage # "mark", pc' = [pc EXCEPT ![p] = stage],
               \/ window' = window
               \/ \E w \in Windows \cup {0} : window' = [window EXCEPT ![p] = w]
        PROVE  \A q \in Scripts : pc'[q] = "mark" => pc[q] = "mark" /\ window'[q] = window[q]
    BY <1>t, <2>2
  <2> DEFINE Moves(p) == \/ Export(p) \/ Fail(p) \/ Clear(p) \/ GateCloses(p) \/ WriteMarker(p)
                         \/ AggregateDay(p) \/ AggregateNothing(p) \/ Recheck(p)
                         \/ ExportParquet(p)
             Starts(p) == \/ StartPipeline(p) \/ StartCatchup(p) \/ StartOperations(p)
                          \/ StartRepair(p)
  <2>3. ASSUME NEW p \in Scripts, Starts(p)
        PROVE  /\ \E stage \in Stages \ {"mark"} : pc' = [pc EXCEPT ![p] = stage]
               /\ job[p] = "none" /\ marker' = marker
               /\ \/ window' = window
                  \/ window' = [window EXCEPT ![p] = clock \div WindowSize]
    BY <2>3 DEF StartPipeline, StartCatchup, StartOperations, StartRepair, BeginCollect,
                Begin, Stages, dwVars, files
  <2>4. ASSUME NEW p \in Scripts, Moves(p)
        PROVE  /\ \E stage \in Stages \ {"mark"} : pc' = [pc EXCEPT ![p] = stage]
               /\ window' = window \/ window' = [window EXCEPT ![p] = 0]
               /\ marker' # marker => pc[p] = "mark" /\ marker' = window[p]
    <3>1. CASE Export(p)
      BY <3>1 DEF Export, ExportTo, AfterExport, End, GoOn, Stages, dwVars, files
    <3>2. CASE ~ Export(p)
      BY <2>4, <3>2 DEF Fail, Halt, Clear, Truncate, GateCloses, WriteMarker, AggregateDay,
               AggregateNothing, Recheck, ExportParquet, End, GoOn, Stages, dwVars, files
    <3> QED BY <3>1, <3>2
  <2>5. ASSUME NEW p \in Scripts, Starts(p)
        PROVE  \A q \in Scripts : pc'[q] = "mark" => pc[q] = "mark" /\ window'[q] = window[q]
    BY <1>t, <2>3, <2>5
  <2>6. Feed \/ (\E p \in Scripts : Collect(p)) \/ UNCHANGED vars
          => UNCHANGED <<pc, window, marker>>
    BY DEF Feed, Tick, Misprint, Correct, Collect, Fetch, FetchFails, Insert, InsertFails,
           vars, barVars, place, dwVars, files
  <2>7. UNCHANGED <<pc, window, marker>> \/ \E p \in Scripts : Starts(p) \/ Moves(p)
    BY <1>3, <2>6 DEF Next, Step
  <2> HIDE DEF Starts, Moves
  <2> QED BY <1>t, <2>1, <2>2, <2>3, <2>4, <2>5, <2>7
<1> QED BY <1>1, <1>2, <1>3

\* The marker names only windows that enough symbols have in full, for any
\* symbols, scripts and thresholds.
THEOREM MarkerAlwaysVouches == Spec => []MarkerVouches
<1>1. Init => MarkInd
  <2> SUFFICES ASSUME Init PROVE MarkInd
    OBVIOUS
  <2>1. RowsAreFromCore /\ MarkIsVouched /\ MarkerVouches
    BY DEF Init, BarInit, RowsAreFromCore, MarkIsVouched, MarkerVouches
  <2> QED BY <2>1, MarketInitially0 DEF MarkInd
<1>2. MarkInd /\ [Next]_vars => MarkInd'
  BY MarketStep0, RowsGrow, MarkStep DEF MarkInd
<1> QED BY <1>1, <1>2, PTL DEF Spec, MarkInd

-----------------------------------------------------------------------------
(* The snapshot of the nightly runs.                                       *)

\* What a repair has found covered stays covered, and so does what it ships.
CoveredWhenShipped ==
  /\ \A p \in Scripts : pc[p] = "snapshot" /\ job[p] = "repair" => Covered
  /\ shipped = "own" => Covered /\ snapshot # NoFile
  /\ ShippedIsCovered

LEMMA CoveredStays ==
  ASSUME Covered, \A s \in Symbols : \A w \in Windows : dw[s][w].bars \subseteq dw'[s][w].bars
  PROVE  Covered'
<1>1. Complete \subseteq Complete' /\ Complete' \subseteq Symbols
  BY DEF Complete, Present
<1>2. IsFiniteSet(Complete')
  BY <1>1, BarsAssumption, FS_Subset
<1>3. Cardinality(Complete) <= Cardinality(Complete') /\ IsFiniteSet(Complete)
  BY <1>1, <1>2, FS_Subset
<1>4. Cardinality(Complete) \in Nat /\ Cardinality(Complete') \in Nat
  BY <1>2, <1>3, FS_CardinalityType
<1> QED BY <1>3, <1>4, MarketAssumption DEF Covered

LEMMA TableOfCovered ==
  ASSUME Covered
  PROVE  Cardinality({s \in Symbols : Table[s] = Windows}) >= MinComplete
<1>1. {s \in Symbols : Table[s] = Windows} = Complete
  BY DEF Table, Complete
<1> QED BY <1>1 DEF Covered

ShippedInd == MarketInd0 /\ RowsAreFromCore /\ CoveredWhenShipped

LEMMA ShippedStep == ShippedInd /\ [Next]_vars => CoveredWhenShipped'
<1> SUFFICES ASSUME ShippedInd, [Next]_vars PROVE CoveredWhenShipped'
  OBVIOUS
<1>t. /\ pc \in [Scripts -> Stages] /\ job \in [Scripts -> Jobs \cup {"none"}]
      /\ \A p \in Scripts : job[p] = "none" <=> pc[p] = "idle"
      /\ StageOfJob
  BY DEF ShippedInd, MarketInd0, MarketTypeOK, BarTypeOK
<1>g. Covered => Covered'
  BY RowsGrow, CoveredStays DEF ShippedInd
<1>i. CoveredWhenShipped
  BY DEF ShippedInd
<1>1. ASSUME NEW p \in Scripts, ExportParquet(p) PROVE CoveredWhenShipped'
  <2>1. /\ job' = [job EXCEPT ![p] = "none"] /\ pc' = [pc EXCEPT ![p] = "idle"]
        /\ pc[p] = "snapshot"
    BY <1>1 DEF ExportParquet, End
  <2>2. \A q \in Scripts : pc'[q] = "snapshot" /\ job'[q] = "repair" => Covered'
    BY <1>g, <1>i, <1>t, <2>1 DEF CoveredWhenShipped
  <2>3. \/ shipped' = "reused"
        \/ snapshot' = Table /\ (job[p] = "repair" \/ shipped' = shipped)
        \/ UNCHANGED <<snapshot, shipped>>
    BY <1>1 DEF ExportParquet
  <2>4. shipped' = "own" => Covered /\ (snapshot' = Table \/ snapshot' = snapshot)
    BY <1>i, <2>1, <2>3, <1>1 DEF CoveredWhenShipped
  <2>5. Table # NoFile
    BY NoFileAssumption DEF Table, Snapshots
  <2>6. shipped' = "own" => ShippedIsCovered' /\ snapshot' # NoFile
    BY <1>1, <1>i, <2>3, <2>4, <2>5, TableOfCovered
       DEF CoveredWhenShipped, ShippedIsCovered
  <2> QED BY <1>g, <2>2, <2>4, <2>6 DEF CoveredWhenShipped, ShippedIsCovered
<1>2. ASSUME \/ UNCHANGED <<snapshot, shipped>>
             \/ snapshot' = snapshot /\ shipped' = "no",
             \A q \in Scripts : pc'[q] = "snapshot" /\ job'[q] = "repair" =>
               (pc[q] = "snapshot" /\ job[q] = "repair") \/ Covered
      PROVE  CoveredWhenShipped'
  BY <1>2, <1>g, <1>i DEF CoveredWhenShipped, ShippedIsCovered
<1>3. ASSUME NEW p \in Scripts, StartRepair(p) PROVE CoveredWhenShipped'
  <2>1. snapshot' = snapshot /\ shipped' = "no"
    BY <1>3 DEF StartRepair
  <2>2. /\ \E stage \in {"snapshot", "backfill"} :
             pc' = [pc EXCEPT ![p] = stage] /\ (stage = "snapshot" => Covered)
        /\ job' = [job EXCEPT ![p] = "repair"]
    BY <1>3 DEF StartRepair, BeginCollect, Begin
  <2> QED BY <1>2, <1>t, <2>1, <2>2
<1>4. ASSUME NEW p \in Scripts, Recheck(p) PROVE CoveredWhenShipped'
  <2>1. UNCHANGED <<snapshot, shipped>>
    BY <1>4 DEF Recheck
  <2>2. \/ Covered /\ pc' = [pc EXCEPT ![p] = "snapshot"] /\ job' = job
        \/ pc' = [pc EXCEPT ![p] = "idle"] /\ job' = [job EXCEPT ![p] = "none"]
    BY <1>4 DEF Recheck, GoOn, End
  <2> QED BY <1>2, <1>t, <2>1, <2>2
<1>5. ASSUME NEW p \in Scripts, AggregateDay(p) \/ AggregateNothing(p)
      PROVE  CoveredWhenShipped'
  <2>1. UNCHANGED <<snapshot, shipped, job>>
    BY <1>5 DEF AggregateDay, AggregateNothing, GoOn, files, dwVars
  <2>2. \/ pc' = [pc EXCEPT ![p] = "recheck"]
        \/ job[p] # "repair" /\ pc' = [pc EXCEPT ![p] = "snapshot"]
    BY <1>5 DEF AggregateDay, AggregateNothing, GoOn
  <2> QED BY <1>2, <1>t, <2>1, <2>2
<1>6. ASSUME NEW p \in Scripts, \/ StartPipeline(p) \/ StartCatchup(p) \/ StartOperations(p)
      PROVE  CoveredWhenShipped'
  <2>1. UNCHANGED <<snapshot, shipped>>
    BY <1>6 DEF StartPipeline, StartCatchup, StartOperations, files, dwVars
  <2>2. \E stage \in {"collect", "export"} : pc' = [pc EXCEPT ![p] = stage]
    BY <1>6 DEF StartPipeline, StartCatchup, StartOperations, BeginCollect, Begin
  <2>3. \E j \in Jobs : job' = [job EXCEPT ![p] = j]
    BY <1>6 DEF StartPipeline, StartCatchup, StartOperations, BeginCollect, Begin, Jobs
  <2> QED BY <1>2, <1>t, <2>1, <2>2, <2>3
<1>7. ASSUME NEW p \in Scripts, \/ Export(p) \/ Fail(p) \/ Clear(p) \/ GateCloses(p)
                                \/ Aggregate(p) \/ WriteMarker(p)
      PROVE  CoveredWhenShipped'
  <2>1. UNCHANGED <<snapshot, shipped>>
    BY <1>7 DEF Export, Fail, Clear, GateCloses, Aggregate, WriteMarker, files, dwVars
  <2>2. /\ \E stage \in Stages \ {"snapshot"} : pc' = [pc EXCEPT ![p] = stage]
        /\ job' = job \/ job' = [job EXCEPT ![p] = "none"]
    <3>1. CASE Export(p)
      BY <3>1 DEF Export, ExportTo, AfterExport, End, GoOn, Stages
    <3>2. CASE ~Export(p)
      BY <1>7, <3>2 DEF Fail, Halt, Clear, Truncate, GateCloses, Aggregate, WriteMarker, End,
               GoOn, Stages
    <3> QED BY <3>1, <3>2
  <2> QED BY <1>2, <1>t, <2>1, <2>2
<1>8. Feed \/ (\E p \in Scripts : Collect(p)) \/ UNCHANGED vars
        => UNCHANGED <<snapshot, shipped, pc, job>>
  BY DEF Feed, Tick, Misprint, Correct, Collect, Fetch, FetchFails, Insert, InsertFails,
         vars, barVars, place, dwVars, files
<1> QED BY <1>1, <1>2, <1>3, <1>4, <1>5, <1>6, <1>7, <1>8 DEF Next, Step

\* A nightly run that built its own snapshot has the coverage it asked for in
\* it, whichever scripts write rows or files meanwhile.
THEOREM OwnSnapshotIsCovered == Spec => []ShippedIsCovered
<1>1. Init => ShippedInd
  <2> SUFFICES ASSUME Init PROVE ShippedInd
    OBVIOUS
  <2>1. RowsAreFromCore /\ CoveredWhenShipped
    BY DEF Init, BarInit, RowsAreFromCore, CoveredWhenShipped, ShippedIsCovered
  <2> QED BY <2>1, MarketInitially0 DEF ShippedInd
<1>2. ShippedInd /\ [Next]_vars => ShippedInd'
  BY MarketStep0, RowsGrow, ShippedStep DEF ShippedInd
<1>3. ShippedInd => ShippedIsCovered
  BY DEF ShippedInd, CoveredWhenShipped
<1> QED BY <1>1, <1>2, <1>3, PTL DEF Spec

-----------------------------------------------------------------------------
(* The lags.                                                               *)

\* A lag is taken from the bars of earlier rows alone.
LEMMA LagIsOfEarlierBars ==
  ASSUME NEW f, NEW g, NEW w \in Windows,
         \A v \in Windows : v < w => f[v].bars = g[v].bars
  PROVE  LagAt(f, w) = LagAt(g, w)
<1>1. Earlier(f, w) = Earlier(g, w)
  BY DEF Earlier
<1>2. CASE Earlier(f, w) = {}
  BY <1>1, <1>2 DEF LagAt
<1>3. CASE Earlier(f, w) # {}
  <2>1. Windows \subseteq Nat /\ w \in Nat
    BY WindowsAreNumbers
  <2>2. ASSUME NEW v \in Earlier(f, w) PROVE v \in Windows /\ v < w
    BY DEF Earlier
  <2>3. ASSUME NEW v \in Earlier(f, w) PROVE v \in Nat /\ v <= w
    <3>1. v \in Nat /\ w \in Nat /\ v < w
      BY <2>1, <2>2
    <3> QED BY <3>1
  <2>4. Earlier(f, w) \subseteq Nat /\ w \in Nat /\ \A v \in Earlier(f, w) : v <= w
    BY <2>1, <2>3
  <2>5. PICK v \in Earlier(f, w) : v = Largest(Earlier(f, w))
    BY <1>3, <2>4, LargestIsMember
  <2>6. f[v].bars = g[v].bars
    BY <2>2
  <2>7. CloseOf(f[v]) = CloseOf(g[v])
    BY <2>6 DEF CloseOf
  <2> QED BY <1>1, <1>3, <2>5, <2>7 DEF LagAt
<1> QED BY <1>2, <1>3

LEMMA LagsOfProcessed ==
  ASSUME NEW s \in Symbols, dw[s] \in [Windows -> Rows], LagsTrue(s), NEW w \in Windows,
         \A v \in Windows : v > w => dw[s][v].bars = {},
         NEW held, held = Processed(s, dw[s], w), NEW v \in Windows, held[v].bars # {}
  PROVE  held[v].lag = LagAt(held, v)
<1> DEFINE found == Input(s, w)
           row == [bars |-> found, lag |-> LagAt(dw[s], w)]
<1>0. v \in Nat /\ w \in Nat
  BY WindowsAreNumbers
<1>1. CASE found = {}
  BY <1>1 DEF Processed, LagsTrue
<1>2. CASE found # {}
  <2>1. held = [dw[s] EXCEPT ![w] = row]
    BY <1>2 DEF Processed
  <2>2. row.bars = found /\ row.lag = LagAt(dw[s], w)
    OBVIOUS
  <2> HIDE DEF row
  <2>3. \A u \in Windows : u # w => held[u] = dw[s][u]
    BY <2>1
  <2>4. CASE v = w
    <3>1. \A u \in Windows : u < w => held[u].bars = dw[s][u].bars
      BY <1>0, <2>3
    <3>2. LagAt(held, w) = LagAt(dw[s], w)
      BY <3>1, LagIsOfEarlierBars
    <3> QED BY <2>1, <2>2, <2>4, <3>2
  <2>5. CASE v < w
    <3>1. \A u \in Windows : u < v => held[u].bars = dw[s][u].bars
      <4>1. \A u \in Windows : u \in Nat
        BY WindowsAreNumbers
      <4>2. \A u \in Windows : u < v => u # w
        BY <1>0, <2>5, <4>1
      <4> QED BY <2>3, <4>2
    <3>2. LagAt(held, v) = LagAt(dw[s], v)
      BY <3>1, LagIsOfEarlierBars
    <3>3. held[v] = dw[s][v]
      BY <1>0, <2>3, <2>5
    <3> QED BY <3>2, <3>3 DEF LagsTrue
  <2>6. CASE v > w
    <3>1. held[v] = dw[s][v] /\ dw[s][v].bars = {}
      BY <1>0, <2>3, <2>6
    <3> QED BY <3>1
  <2> QED BY <1>0, <2>4, <2>5, <2>6
<1> QED BY <1>1, <1>2

LEMMA LagsOfProcessedDay ==
  ASSUME NEW s \in Symbols, dw[s] \in [Windows -> Rows],
         \A v \in Windows : dw[s][v].bars \subseteq Input(s, v),
         NEW held, held = ProcessedDay(s), NEW w \in Windows, held[w].bars # {}
  PROVE  held[w].lag = LagAt(held, w)
<1> DEFINE found(v) == Input(s, v)
           filled == [v \in Windows |-> IF found(v) = {} THEN dw[s][v]
                                        ELSE [dw[s][v] EXCEPT !.bars = found(v)]]
<1>1. ASSUME NEW v \in Windows
      PROVE  /\ filled[v].bars = IF found(v) # {} THEN found(v) ELSE dw[s][v].bars
             /\ filled[v] \in [bars : SUBSET (Bars \cup found(v)), lag : Bars \cup {0}]
  BY DEF Rows
<1>2. held = [v \in Windows |-> IF found(v) = {} THEN filled[v]
                                ELSE [filled[v] EXCEPT !.lag = LagAt(filled, v)]]
  BY DEF ProcessedDay
<1>3. \A v \in Windows : held[v].bars = filled[v].bars
  <2> SUFFICES ASSUME NEW v \in Windows PROVE held[v].bars = filled[v].bars
    OBVIOUS
  <2>1. held[v].bars = IF found(v) # {} THEN found(v) ELSE dw[s][v].bars
    BY ProcessedDayRow
  <2> QED BY <1>1, <2>1
<1>4. found(w) # {}
  <2>1. held[w].bars = IF found(w) # {} THEN found(w) ELSE dw[s][w].bars
    BY ProcessedDayRow
  <2> QED BY <2>1
<1> HIDE DEF filled
<1>5. held[w].lag = LagAt(filled, w)
  <2>1. filled[w] \in [bars : SUBSET (Bars \cup found(w)), lag : Bars \cup {0}]
    BY <1>1
  <2>2. held[w] = [filled[w] EXCEPT !.lag = LagAt(filled, w)]
    BY <1>2, <1>4
  <2> QED BY <2>1, <2>2
<1>6. LagAt(held, w) = LagAt(filled, w)
  BY <1>3, LagIsOfEarlierBars
<1> QED BY <1>5, <1>6

LagsInd == MarketInd0 /\ RowsAreFromCore /\ LagsTrueInOrder

LEMMA LagsStep == LagsInd /\ [Next]_vars => LagsTrueInOrder'
<1> SUFFICES ASSUME LagsInd, [Next]_vars, ~disordered', NEW s \in Symbols,
                    NEW v \in Windows, dw'[s][v].bars # {}
             PROVE  dw'[s][v].lag = LagAt(dw'[s], v)
  <2>1. ASSUME \A s \in Symbols : \A v \in Windows :
                 dw'[s][v].bars # {} => dw'[s][v].lag = LagAt(dw'[s], v)
        PROVE  \A s \in Symbols : LagsTrue(s)'
    BY <2>1 DEF LagsTrue, LagAt, Earlier, CloseOf
  <2> QED BY <2>1 DEF LagsTrueInOrder
<1>t. /\ dw \in [Symbols -> [Windows -> Rows]] /\ dw[s] \in [Windows -> Rows]
      /\ StageOfJob /\ window \in [Scripts -> Windows \cup {0}]
      /\ \A p \in Scripts : job[p] = "pipeline" <=> window[p] # 0
  BY DEF LagsInd, MarketInd0, MarketTypeOK
<1>1. ASSUME NEW p \in Scripts, Aggregate(p) PROVE dw'[s][v].lag = LagAt(dw'[s], v)
  <2>0. PICK w \in Windows : w = window[p]
    BY <1>1, <1>t DEF Aggregate, StageOfJob
  <2>1. dw'[s] = Processed(s, dw[s], w)
    BY <1>1, <2>0 DEF Aggregate
  <2>2. ~disordered /\ \A u \in Windows : u > w => Present(u) = {}
    BY <1>1, <2>0 DEF Aggregate
  <2>3. \A u \in Windows : u > w => dw[s][u].bars = {}
    BY <2>2 DEF Present
  <2>4. LagsTrue(s)
    BY <2>2 DEF LagsInd, LagsTrueInOrder
  <2> QED BY <1>t, <2>1, <2>3, <2>4, LagsOfProcessed
<1>2. ASSUME NEW p \in Scripts, AggregateDay(p) PROVE dw'[s][v].lag = LagAt(dw'[s], v)
  <2>1. dw'[s] = ProcessedDay(s)
    BY <1>2 DEF AggregateDay
  <2>2. \A u \in Windows : dw[s][u].bars \subseteq Input(s, u)
    BY DEF LagsInd, RowsAreFromCore
  <2> QED BY <1>t, <2>1, <2>2, LagsOfProcessedDay
<1>3. CASE UNCHANGED <<dw, disordered>>
  BY <1>3 DEF LagsInd, LagsTrueInOrder, LagsTrue
<1>4. UNCHANGED <<dw, disordered>> \/ \E p \in Scripts : Aggregate(p) \/ AggregateDay(p)
  BY DEF Next, Step, Feed, StartPipeline, StartCatchup, StartOperations, StartRepair, Collect,
         Export, Fail, Clear, GateCloses, WriteMarker, AggregateNothing, Recheck,
         ExportParquet, vars, dwVars
<1> QED BY <1>1, <1>2, <1>3, <1>4

\* As long as no window was aggregated behind a later one since the day was
\* last rebuilt, every lag is the close of the row before: for any number of
\* windows and scripts.
THEOREM LagsAreTrueInOrder == Spec => []LagsTrueInOrder
<1>1. Init => LagsInd
  <2> SUFFICES ASSUME Init PROVE LagsInd
    OBVIOUS
  <2>1. RowsAreFromCore /\ LagsTrueInOrder
    BY DEF Init, BarInit, RowsAreFromCore, LagsTrueInOrder, LagsTrue
  <2> QED BY <2>1, MarketInitially0 DEF LagsInd
<1>2. LagsInd /\ [Next]_vars => LagsInd'
  BY MarketStep0, RowsGrow, LagsStep DEF LagsInd
<1>3. LagsInd => LagsTrueInOrder
  BY DEF LagsInd
<1> QED BY <1>1, <1>2, <1>3, PTL DEF Spec

-----------------------------------------------------------------------------
(* The loads by the month.  A run works through its "todo" in order; what  *)
(* of its chain is not there any more has been loaded.                     *)

LEMMA LeastMember ==
  ASSUME NEW T, T \subseteq Nat, T # {}
  PROVE  Min(T) \in T /\ \A y \in T : Min(T) <= y
<1>1. PICK x \in T : \A y \in T : ~ (<<y, x>> \in OpToRel(<, Nat))
  BY NatLessThanWellFounded, WFMin
<1>2. ASSUME NEW y \in T PROVE x =< y
  <2>1. x \in Nat /\ y \in Nat
    OBVIOUS
  <2>2. <<y, x>> \in Nat \X Nat /\ <<y, x>>[1] = y /\ <<y, x>>[2] = x
    BY <2>1
  <2>3. ~ (y < x)
    BY <1>1, <2>2 DEF OpToRel
  <2> QED BY <2>1, <2>3
<1> QED BY <1>1, <1>2 DEF Min

\* What a run's step says of the rest of it.
RunFits(sc) ==
  /\ run[sc].todo \subseteq run[sc].chain
  /\ ~RunAt(sc, "idle") => run[sc].month \in Months
  /\ sc = "simple" => ~RunAt(sc, "fetch") /\ ~RunAt(sc, "daily")
  /\ sc = "quality" => ~RunAt(sc, "daily") /\ ~RunAt(sc, "mark") /\ ~RunAt(sc, "clear")
  /\ sc # "quality" =>
       IF RunAt(sc, "report") \/ RunAt(sc, "clear") THEN run[sc].todo = {}
       ELSE RunAt(sc, "idle") \/ run[sc].todo # {}
  /\ RunAt(sc, "daily") \/ RunAt(sc, "commit") \/ RunAt(sc, "mark") =>
       sc = "simple" \/ run[sc].schedule = Chunks \/ run[sc].lost

\* A symbol of a chain is loaded: all its bars, or the chain has lost some.
Loaded(sc, m, lost, s) == /\ WholeIn(m, s) \/ lost
                          /\ sc = "monthly" => s \in daily[m]

\* What a run has left behind: the symbols that it stands for and need not
\* commit any more.
Behind(sc) == {s \in run[sc].chain :
                 \/ s \notin run[sc].todo
                 \/ RunAt(sc, "mark") /\ s = Min(run[sc].todo)
                 \/ sc = "quality" /\ RunAt(sc, "report")}

BehindLoaded(sc) ==
  ~RunAt(sc, "idle") => \A s \in Behind(sc) : Loaded(sc, run[sc].month, run[sc].lost, s)

\* The same of one mark, and of one summary.
MarkVouches(sc) ==
  mark[sc].kind = "mark" =>
    \A s \in mark[sc].chain : s <= mark[sc].last =>
      Loaded(sc, mark[sc].month, mark[sc].lost, s)

SummaryHolds(sc) ==
  summary[sc].kind = "summary" /\ ~summary[sc].lost =>
    \A s \in summary[sc].chain : WholeIn(summary[sc].month, s)

RefetchInd == /\ RefetchTypeOK
              /\ \A sc \in RefetchScripts : RunFits(sc) /\ BehindLoaded(sc)
              /\ CheckpointVouches
              /\ SummaryCovers

LEMMA RefetchInitially == RefetchInit => RefetchInd
<1> SUFFICES ASSUME RefetchInit PROVE RefetchInd
  OBVIOUS
<1>1. NoRun \in Runs /\ NoReport \in Marks /\ NoReport \in Summaries
  BY DEF NoRun, Runs, RunSteps, Marks, Summaries
<1>2. RefetchTypeOK
  BY <1>1, RefetchAssumption DEF RefetchInit, RefetchTypeOK
<1>3. \A sc \in RefetchScripts : RunFits(sc) /\ BehindLoaded(sc)
  BY DEF RefetchInit, RunFits, BehindLoaded, RunAt, NoRun
<1>4. CheckpointVouches /\ SummaryCovers
  BY DEF RefetchInit, CheckpointVouches, SummaryCovers, NoReport
<1> QED BY <1>2, <1>3, <1>4 DEF RefetchInd

(* What a step of one script does, in the shape the invariant needs: its   *)
(* own run is a run again, the others' runs are as they were.              *)
RunBecomes(sc, r) == r \in Runs /\ run' = [run EXCEPT ![sc] = r]

LEMMA OthersStay ==
  ASSUME RefetchTypeOK, NEW sc \in RefetchScripts, NEW r, RunBecomes(sc, r)
  PROVE  /\ run' \in [RefetchScripts -> Runs]
         /\ run'[sc] = r
         /\ \A o \in RefetchScripts \ {sc} : run'[o] = run[o]
  BY DEF RefetchTypeOK, RunBecomes

\* Bars and daily prices are only added.
Grow == /\ \A m \in Months, s \in Members : bars[m][s] \subseteq bars'[m][s]
        /\ \A m \in Months : daily[m] \subseteq daily'[m]

LEMMA LoadedStays ==
  ASSUME RefetchTypeOK, Grow, bars' \in [Months -> [Members -> SUBSET Chunks]],
         NEW sc, NEW m \in Months, NEW lost, NEW s \in Members
  PROVE  /\ Loaded(sc, m, lost, s) => Loaded(sc, m, lost, s)'
         /\ WholeIn(m, s) => WholeIn(m, s)'
<1>1. bars'[m][s] \subseteq Chunks
  OBVIOUS
<1>2. WholeIn(m, s) => WholeIn(m, s)'
  BY <1>1 DEF Grow, WholeIn
<1> QED BY <1>2 DEF Loaded, Grow

\* What has been loaded stays so, and so does what is said of it.
Keeps == Grow /\ bars' \in [Months -> [Members -> SUBSET Chunks]]

LEMMA VouchedForStays ==
  ASSUME RefetchInd, Keeps,
         \A sc \in RefetchScripts :
           mark'[sc] = mark[sc] \/ mark'[sc].kind # "mark" \/ MarkVouches(sc)'
  PROVE  CheckpointVouches'
<1> SUFFICES ASSUME NEW sc \in RefetchScripts, mark'[sc].kind = "mark",
                    NEW s \in mark'[sc].chain, s <= mark'[sc].last
             PROVE  /\ bars'[mark'[sc].month][s] = Chunks \/ mark'[sc].lost
                    /\ sc = "monthly" => s \in daily'[mark'[sc].month]
  BY DEF CheckpointVouches, WholeIn
<1>0. CASE MarkVouches(sc)'
  BY <1>0 DEF MarkVouches, Loaded, WholeIn
<1> SUFFICES ASSUME mark'[sc] = mark[sc]
             PROVE  /\ bars'[mark'[sc].month][s] = Chunks \/ mark'[sc].lost
                    /\ sc = "monthly" => s \in daily'[mark'[sc].month]
  BY <1>0
<1>1. mark'[sc] = mark[sc]
  OBVIOUS
<1>2. mark[sc].month \in Months /\ mark[sc].chain \subseteq Members
  BY <1>1 DEF RefetchInd, RefetchTypeOK, Marks, NoReport, Torn
<1>3. /\ WholeIn(mark[sc].month, s) \/ mark[sc].lost
      /\ sc = "monthly" => s \in daily[mark[sc].month]
  BY <1>1 DEF RefetchInd, CheckpointVouches
<1>4. s \in Members /\ RefetchTypeOK
  BY <1>1, <1>2 DEF RefetchInd
<1>5. /\ bars'[mark[sc].month][s] = Chunks \/ mark[sc].lost
      /\ sc = "monthly" => s \in daily'[mark[sc].month]
  <2>1. mark[sc].month \in Months /\ s \in Members
    BY <1>1, <1>2
  <2> QED BY <1>3, <1>4, <2>1, LoadedStays DEF Loaded, WholeIn, Keeps
<1> QED BY <1>1, <1>5

LEMMA CoveredStaysSo ==
  ASSUME RefetchInd, Keeps,
         \A sc \in RefetchScripts :
           summary'[sc] = summary[sc] \/ summary'[sc].kind # "summary" \/ SummaryHolds(sc)'
  PROVE  SummaryCovers'
<1> SUFFICES ASSUME NEW sc \in RefetchScripts, summary'[sc].kind = "summary",
                    ~summary'[sc].lost, NEW s \in summary'[sc].chain
             PROVE  bars'[summary'[sc].month][s] = Chunks
  BY DEF SummaryCovers, WholeIn
<1>0. CASE SummaryHolds(sc)'
  BY <1>0 DEF SummaryHolds, WholeIn
<1> SUFFICES ASSUME summary'[sc] = summary[sc]
             PROVE  bars'[summary'[sc].month][s] = Chunks
  BY <1>0
<1>1. summary'[sc] = summary[sc]
  OBVIOUS
<1>2. summary[sc].month \in Months /\ summary[sc].chain \subseteq Members
  BY <1>1 DEF RefetchInd, RefetchTypeOK, Summaries, NoReport
<1>3. WholeIn(summary[sc].month, s)
  BY <1>1 DEF RefetchInd, SummaryCovers
<1>4. s \in Members /\ RefetchTypeOK
  BY <1>1, <1>2 DEF RefetchInd
<1> QED BY <1>1, <1>2, <1>3, <1>4, LoadedStays DEF WholeIn, Keeps

LEMMA RunLeftAlone ==
  ASSUME RefetchInd, Keeps, NEW o \in RefetchScripts, run'[o] = run[o]
  PROVE  RunFits(o)' /\ BehindLoaded(o)'
<1>1. RunFits(o)'
  BY DEF RefetchInd, RunFits, RunAt
<1>2. ASSUME run'[o].step # "idle", NEW s \in Behind(o)'
      PROVE  /\ bars'[run'[o].month][s] = Chunks \/ run'[o].lost
             /\ o = "monthly" => s \in daily'[run'[o].month]
  <2>1. s \in Behind(o)
    BY <1>2 DEF Behind, RunAt
  <2>2. run[o].month \in Months /\ s \in Members /\ RefetchTypeOK
    BY <1>2, <2>1 DEF RefetchInd, RefetchTypeOK, Runs, Behind, RunFits, RunAt
  <2>3. Loaded(o, run[o].month, run[o].lost, s)
    BY <1>2, <2>1 DEF RefetchInd, BehindLoaded, RunAt
  <2> QED BY <2>2, <2>3, LoadedStays DEF Loaded, WholeIn, Keeps
<1> QED BY <1>1, <1>2 DEF BehindLoaded, Loaded, WholeIn, RunAt

(* One script's step: what has to be shown of its own run, mark, summary.  *)
LEMMA OneScriptSteps ==
  ASSUME RefetchInd, RefetchTypeOK', Grow, NEW sc \in RefetchScripts,
         \A o \in RefetchScripts \ {sc} :
           run'[o] = run[o] /\ mark'[o] = mark[o] /\ summary'[o] = summary[o],
         RunFits(sc)', BehindLoaded(sc)',
         mark'[sc] = mark[sc] \/ mark'[sc].kind # "mark" \/ MarkVouches(sc)',
         summary'[sc] = summary[sc] \/ summary'[sc].kind # "summary" \/ SummaryHolds(sc)'
  PROVE  RefetchInd'
<1>1. Keeps
  BY DEF Keeps, RefetchTypeOK
<1>2. CheckpointVouches'
  BY <1>1, VouchedForStays
<1>3. SummaryCovers'
  BY <1>1, CoveredStaysSo
<1>4. ASSUME NEW o \in RefetchScripts PROVE RunFits(o)' /\ BehindLoaded(o)'
  <2>1. CASE o = sc
    BY <2>1
  <2>2. CASE o # sc
    BY <1>1, <2>2, RunLeftAlone
  <2> QED BY <2>1, <2>2
<1> QED BY <1>2, <1>3, <1>4 DEF RefetchInd

LEMMA FetchSteps ==
  ASSUME RefetchInd, NEW sc \in RefetchScripts, NEW chunks \in SUBSET Chunks,
         FetchMonth(sc, chunks) \/ RefreshDaily(sc)
  PROVE  RefetchInd'
<1> DEFINE r == run[sc]
<1>1. r \in Runs /\ RunFits(sc) /\ RefetchTypeOK
  BY DEF RefetchInd, RefetchTypeOK
<1>2. CASE FetchMonth(sc, chunks)
  <2> DEFINE step == IF sc = "monthly" THEN "daily" ELSE "commit"
             new == [r EXCEPT !.step = step, !.schedule = chunks,
                              !.lost = @ \/ chunks # Chunks]
  <2>1. run' = [run EXCEPT ![sc] = new]
    BY <1>1, <1>2 DEF FetchMonth, RefetchTypeOK, Runs
  <2>2. /\ new \in Runs /\ new.step = step /\ new.month = r.month /\ new.todo = r.todo
        /\ new.chain = r.chain /\ new.schedule = chunks
        /\ new.lost = (r.lost \/ chunks # Chunks)
    BY <1>1 DEF Runs, RunSteps
  <2>3. /\ run' \in [RefetchScripts -> Runs] /\ run'[sc] = new
        /\ \A o \in RefetchScripts \ {sc} : run'[o] = run[o]
    <3> HIDE DEF new
    <3> QED BY <1>1, <2>1, <2>2, OthersStay DEF RunBecomes
  <2> HIDE DEF new
  <2>4. UNCHANGED <<bars, daily, mark, summary, runs>> /\ r.step = "fetch"
    BY <1>2 DEF FetchMonth, RunAt
  <2>5. RefetchTypeOK'
    BY <1>1, <2>3, <2>4 DEF RefetchTypeOK
  <2>6. RunFits(sc)'
    BY <1>1, <2>2, <2>3, <2>4 DEF RunFits, RunAt
  <2>7. BehindLoaded(sc)'
    <3>1. \A s \in Behind(sc)' : s \in Behind(sc)
      BY <2>2, <2>3, <2>4 DEF Behind, RunAt
    <3>2. \A s \in Behind(sc) : Loaded(sc, r.month, r.lost, s)
      BY <2>4 DEF RefetchInd, BehindLoaded, RunAt
    <3> QED BY <2>2, <2>3, <2>4, <3>1, <3>2 DEF BehindLoaded, Loaded, WholeIn
  <2> QED BY <2>3, <2>4, <2>5, <2>6, <2>7, OneScriptSteps DEF Grow
<1>3. CASE RefreshDaily(sc)
  <2> DEFINE new == [r EXCEPT !.step = "commit"]
  <2>1. run' = [run EXCEPT ![sc] = new]
    BY <1>1, <1>3 DEF RefreshDaily, RunGoesTo, RefetchTypeOK, Runs
  <2>2. /\ new \in Runs /\ new.step = "commit" /\ new.month = r.month /\ new.todo = r.todo
        /\ new.chain = r.chain /\ new.schedule = r.schedule /\ new.lost = r.lost
    BY <1>1 DEF Runs, RunSteps
  <2>3. /\ run' \in [RefetchScripts -> Runs] /\ run'[sc] = new
        /\ \A o \in RefetchScripts \ {sc} : run'[o] = run[o]
    <3> HIDE DEF new
    <3> QED BY <1>1, <2>1, <2>2, OthersStay DEF RunBecomes
  <2> HIDE DEF new
  <2>4. UNCHANGED <<bars, daily, mark, summary, runs>> /\ r.step = "daily"
    BY <1>3 DEF RefreshDaily, RunAt
  <2>5. RefetchTypeOK'
    BY <1>1, <2>3, <2>4 DEF RefetchTypeOK
  <2>6. RunFits(sc)'
    BY <1>1, <2>2, <2>3, <2>4 DEF RunFits, RunAt
  <2>7. BehindLoaded(sc)'
    <3>1. \A s \in Behind(sc)' : s \in Behind(sc)
      BY <2>2, <2>3, <2>4 DEF Behind, RunAt
    <3>2. \A s \in Behind(sc) : Loaded(sc, r.month, r.lost, s)
      BY <2>4 DEF RefetchInd, BehindLoaded, RunAt
    <3> QED BY <2>2, <2>3, <2>4, <3>1, <3>2 DEF BehindLoaded, Loaded, WholeIn
  <2> QED BY <2>3, <2>4, <2>5, <2>6, <2>7, OneScriptSteps DEF Grow
<1> QED BY <1>2, <1>3

(* A start, afresh or from a mark.                                         *)
LEMMA StartSteps ==
  ASSUME RefetchInd, NEW sc \in RefetchScripts, NEW m \in Months,
         NEW left \in SUBSET Members, NEW chain \in SUBSET Members, NEW lost \in BOOLEAN,
         left \subseteq chain, sc # "simple" => left # {},
         \A s \in chain \ left : Loaded(sc, m, lost, s),
         Start(sc, m, left, chain, lost)
  PROVE  RefetchInd'
<1> DEFINE step == IF sc # "simple" THEN "fetch"
                   ELSE IF left = {} THEN "report" ELSE "commit"
           new == [NoRun EXCEPT !.month = m, !.todo = left, !.chain = chain,
                                !.lost = lost, !.step = step]
<1>1. RefetchTypeOK
  BY DEF RefetchInd
<1>2. /\ run' = [run EXCEPT ![sc] = new] /\ UNCHANGED <<bars, daily, mark>>
      /\ runs' = runs + 1 /\ runs < MaxRuns /\ RemoveStale(sc)
  BY DEF Start
<1>3. /\ new \in Runs /\ new.step = step /\ new.month = m /\ new.todo = left
      /\ new.chain = chain /\ new.lost = lost
  BY DEF Runs, RunSteps, NoRun
<1>4. /\ run' \in [RefetchScripts -> Runs] /\ run'[sc] = new
      /\ \A o \in RefetchScripts \ {sc} : run'[o] = run[o]
  <2> HIDE DEF new
  <2> QED BY <1>1, <1>2, <1>3, OthersStay DEF RunBecomes
<1> HIDE DEF new
<1>5. /\ summary' \in [RefetchScripts -> Summaries]
      /\ \A o \in RefetchScripts \ {sc} : summary'[o] = summary[o]
      /\ summary'[sc] \in {summary[sc], NoReport}
  BY <1>1, <1>2 DEF RemoveStale, RefetchTypeOK, Summaries
<1>6. RefetchTypeOK'
  BY <1>1, <1>2, <1>4, <1>5, RefetchAssumption DEF RefetchTypeOK
<1>7. RunFits(sc)'
  BY <1>3, <1>4 DEF RunFits, RunAt
<1>8. BehindLoaded(sc)'
  <2>1. \A s \in Behind(sc)' : s \in chain \ left
    BY <1>3, <1>4 DEF Behind, RunAt
  <2> QED BY <1>2, <1>3, <1>4, <2>1 DEF BehindLoaded, Loaded, WholeIn
<1>9. NoReport.kind # "summary"
  BY DEF NoReport
<1> QED BY <1>2, <1>4, <1>5, <1>6, <1>7, <1>8, <1>9, OneScriptSteps DEF Grow

LEMMA StartsKeep ==
  ASSUME RefetchInd, NEW sc \in RefetchScripts, NEW m \in Months, NEW u \in Universes,
         StartFresh(sc, m, u) \/ Resume(sc, m, u) \/ ResumeRefused(sc, m, u)
  PROVE  RefetchInd'
<1>1. u \subseteq Members /\ u # {} /\ RefetchTypeOK
  <2>1. u \in SUBSET Members /\ u \notin {{}}
    BY Zenon DEF Universes
  <2>2. RefetchTypeOK
    BY DEF RefetchInd
  <2> QED BY <2>1, <2>2
<1>2. CASE StartFresh(sc, m, u)
  BY <1>1, <1>2, StartSteps DEF StartFresh
<1>3. CASE Resume(sc, m, u)
  <2> DEFINE rest == Remaining(sc, u)
             chain == (mark[sc].chain \cap u) \cup rest
             lost == mark[sc].lost
  <2>1. /\ mark[sc].kind = "mark" /\ mark[sc].month = m /\ sc # "quality"
        /\ sc = "monthly" => rest # {}
        /\ Start(sc, m, rest, chain, lost)
    BY <1>3 DEF Resume, Fits
  <2>2. mark[sc].chain \subseteq Members /\ mark[sc].last \in Members /\ lost \in BOOLEAN
    BY <1>1, <2>1 DEF RefetchTypeOK, Marks, NoReport, Torn
  <2>3. rest \in SUBSET Members /\ chain \in SUBSET Members /\ rest \subseteq chain
    BY <1>1, <2>2 DEF Remaining
  <2>4. ASSUME NEW s \in chain \ rest PROVE Loaded(sc, m, lost, s)
    <3>1. s \in mark[sc].chain /\ s \in u /\ s \in Members
      BY <1>1, <2>4
    <3>2. s <= mark[sc].last
      <4>1. s \in Nat /\ mark[sc].last \in Nat
        BY <2>2, <3>1, RefetchAssumption
      <4>2. ~(s > mark[sc].last)
        BY <2>4, <3>1 DEF Remaining
      <4> QED BY <4>1, <4>2
    <3> QED BY <2>1, <3>1, <3>2 DEF RefetchInd, CheckpointVouches, Loaded
  <2>5. sc # "simple" => rest # {}
    BY <2>1 DEF RefetchScripts
  <2> HIDE DEF rest, chain, lost
  <2> QED BY <2>1, <2>2, <2>3, <2>4, <2>5, StartSteps
<1>4. CASE ResumeRefused(sc, m, u)
  <2>1. UNCHANGED <<bars, daily, mark, run>> /\ runs' = runs + 1 /\ runs < MaxRuns
    BY <1>4 DEF ResumeRefused
  <2>2. /\ summary' \in [RefetchScripts -> Summaries]
        /\ \A o \in RefetchScripts \ {sc} : summary'[o] = summary[o]
        /\ summary'[sc] \in {summary[sc], NoReport}
    BY <1>1, <1>4 DEF ResumeRefused, RemoveStale, RefetchTypeOK, Summaries
  <2>3. RefetchTypeOK'
    BY <1>1, <2>1, <2>2, RefetchAssumption DEF RefetchTypeOK
  <2>4. RunFits(sc)' /\ BehindLoaded(sc)'
    BY <2>1, <2>3, RunLeftAlone DEF Keeps, Grow, RefetchTypeOK
  <2>5. NoReport.kind # "summary"
    BY DEF NoReport
  <2> QED BY <2>1, <2>2, <2>3, <2>4, <2>5, OneScriptSteps DEF Grow
<1> QED BY <1>2, <1>3, <1>4

LEMMA CommitSteps ==
  ASSUME RefetchInd, NEW sc \in RefetchScripts, NEW frame \in SUBSET Chunks, Commit(sc, frame)
  PROVE  RefetchInd'
<1> DEFINE r == run[sc]
           m == r.month
           s == Min(r.todo)
           new == [r EXCEPT !.step = "mark", !.lost = @ \/ (sc = "simple" /\ frame # Chunks)]
<1>1. r \in Runs /\ RunFits(sc) /\ RefetchTypeOK
  BY DEF RefetchInd, RefetchTypeOK
<1>2. sc # "quality" /\ r.step = "commit" /\ r.schedule \subseteq frame
  BY DEF Commit, RunAt
<1>3. m \in Months /\ r.todo # {} /\ r.todo \subseteq Members /\ r.chain \subseteq Members
  BY <1>1, <1>2 DEF RunFits, RunAt, Runs
<1>4. s \in r.todo /\ s \in Members
  BY <1>3, RefetchAssumption, LeastMember
<1>5. /\ bars' = [bars EXCEPT ![m] = [bars[m] EXCEPT ![s] = bars[m][s] \cup frame]]
      /\ daily' = [daily EXCEPT ![m] = daily[m] \cup DailyWith(sc)]
      /\ UNCHANGED <<mark, summary, runs>>
  BY <1>1, <1>3, <1>4 DEF Commit, RefetchTypeOK
<1>6. run' = [run EXCEPT ![sc] = new]
  BY <1>1 DEF Commit, RefetchTypeOK, Runs
<1>7. /\ new \in Runs /\ new.step = "mark" /\ new.month = m /\ new.todo = r.todo
      /\ new.chain = r.chain /\ new.schedule = r.schedule
      /\ new.lost = (r.lost \/ (sc = "simple" /\ frame # Chunks))
  BY <1>1 DEF Runs, RunSteps
<1>8. /\ run' \in [RefetchScripts -> Runs] /\ run'[sc] = new
      /\ \A o \in RefetchScripts \ {sc} : run'[o] = run[o]
  <2> HIDE DEF new
  <2> QED BY <1>1, <1>6, <1>7, OthersStay DEF RunBecomes
<1> HIDE DEF new
<1>9. DailyWith(sc) \subseteq Members /\ (sc = "monthly" => DailyWith(sc) = r.todo)
  BY <1>3 DEF DailyWith
<1>10. bars' \in [Months -> [Members -> SUBSET Chunks]] /\ daily' \in [Months -> SUBSET Members]
  BY <1>1, <1>3, <1>4, <1>5, <1>9 DEF RefetchTypeOK
<1>11. Grow
  BY <1>1, <1>3, <1>4, <1>5 DEF Grow, RefetchTypeOK
<1>12. RefetchTypeOK'
  BY <1>1, <1>5, <1>8, <1>10 DEF RefetchTypeOK
<1>13. RunFits(sc)'
  BY <1>1, <1>2, <1>3, <1>7, <1>8 DEF RunFits, RunAt
<1>14. ASSUME NEW x \in Behind(sc)'
       PROVE  /\ bars'[m][x] = Chunks \/ new.lost
              /\ sc = "monthly" => x \in daily'[m]
  <2>1. x \in r.chain /\ (x \notin r.todo \/ x = s)
    BY <1>2, <1>7, <1>8, <1>14 DEF Behind, RunAt
  <2>2. CASE x = s
    <3>1. bars'[m][s] = bars[m][s] \cup frame /\ bars[m][s] \subseteq Chunks
      BY <1>1, <1>3, <1>4, <1>5 DEF RefetchTypeOK
    <3>2. frame = Chunks \/ new.lost
      BY <1>1, <1>2, <1>7 DEF RunFits, RunAt, RefetchScripts
    <3>3. sc = "monthly" => s \in daily'[m]
      BY <1>1, <1>3, <1>4, <1>5, <1>9 DEF RefetchTypeOK
    <3> QED BY <2>2, <3>1, <3>2, <3>3
  <2>3. CASE x \notin r.todo
    <3>1. x \in Behind(sc)
      BY <2>1, <2>3 DEF Behind
    <3>2. Loaded(sc, m, r.lost, x)
      BY <1>2, <3>1 DEF RefetchInd, BehindLoaded, RunAt
    <3>3. x \in Members
      BY <1>3, <2>1
    <3> QED BY <1>1, <1>3, <1>7, <1>10, <1>11, <3>2, <3>3, LoadedStays DEF Loaded, WholeIn
  <2> QED BY <2>1, <2>2, <2>3
<1>15. BehindLoaded(sc)'
  BY <1>7, <1>8, <1>14 DEF BehindLoaded, Loaded, WholeIn
<1> QED BY <1>5, <1>8, <1>11, <1>12, <1>13, <1>15, OneScriptSteps

LEMMA CommitAllSteps ==
  ASSUME RefetchInd, NEW frames \in [Members -> SUBSET Chunks], CommitAll(frames)
  PROVE  RefetchInd'
<1> DEFINE r == run["quality"]
           m == r.month
           short == \E s \in r.todo \cap Tolerated : ~(r.schedule \subseteq frames[s])
           new == [r EXCEPT !.step = "report", !.lost = @ \/ short]
<1>1. /\ "quality" \in RefetchScripts
      /\ r \in Runs /\ RunFits("quality") /\ RefetchTypeOK
  BY DEF RefetchInd, RefetchTypeOK, RefetchScripts
<1>2. r.step = "commit" /\ \A s \in r.todo \ Tolerated : r.schedule \subseteq frames[s]
  BY DEF CommitAll, RunAt
<1>3. m \in Months /\ r.todo \subseteq Members /\ r.chain \subseteq Members
  BY <1>1, <1>2 DEF RunFits, RunAt, Runs
<1> DEFINE row == [s \in Members |-> bars[m][s] \cup IF s \in r.todo THEN frames[s] ELSE {}]
<1>4. bars' = [bars EXCEPT ![m] = row] /\ UNCHANGED <<daily, mark, summary, runs>>
  BY <1>1, <1>3 DEF CommitAll, RefetchTypeOK
<1>5. run' = [run EXCEPT !["quality"] = new]
  BY <1>1 DEF CommitAll, RefetchTypeOK, Runs
<1>6. /\ new \in Runs /\ new.step = "report" /\ new.month = m /\ new.todo = r.todo
      /\ new.chain = r.chain /\ new.schedule = r.schedule /\ new.lost = (r.lost \/ short)
  BY <1>1 DEF Runs, RunSteps
<1>7. /\ run' \in [RefetchScripts -> Runs] /\ run'["quality"] = new
      /\ \A o \in RefetchScripts \ {"quality"} : run'[o] = run[o]
  <2> HIDE DEF new
  <2> QED BY <1>1, <1>5, <1>6, OthersStay DEF RunBecomes
<1> HIDE DEF new
<1>8. row \in [Members -> SUBSET Chunks]
  BY <1>1, <1>3 DEF RefetchTypeOK
<1>9. /\ bars' \in [Months -> [Members -> SUBSET Chunks]]
      /\ bars'[m] = row /\ \A n \in Months \ {m} : bars'[n] = bars[n]
  <2> HIDE DEF row
  <2> QED BY <1>1, <1>3, <1>4, <1>8 DEF RefetchTypeOK
<1>10. Grow
  <2>1. ASSUME NEW n \in Months, NEW s \in Members PROVE bars[n][s] \subseteq bars'[n][s]
    <3>1. CASE n = m
      BY <1>9, <3>1
    <3>2. CASE n # m
      BY <1>9, <3>2
    <3> QED BY <3>1, <3>2
  <2> QED BY <1>4, <2>1 DEF Grow
<1>11. RefetchTypeOK'
  BY <1>1, <1>4, <1>7, <1>9 DEF RefetchTypeOK
<1>12. RunFits("quality")'
  BY <1>1, <1>2, <1>3, <1>6, <1>7 DEF RunFits, RunAt
<1>13. ASSUME NEW x \in Behind("quality")'
       PROVE  bars'[m][x] = Chunks \/ new.lost
  <2>1. x \in r.chain /\ x \in Members
    BY <1>3, <1>6, <1>7, <1>13 DEF Behind
  <2>2. CASE x \in r.todo
    <3>1. r.schedule = Chunks \/ r.lost
      BY <1>1, <1>2 DEF RunFits, RunAt
    <3>2. r.schedule \subseteq frames[x] \/ short
      BY <1>2, <2>2
    <3>3. bars'[m][x] = bars[m][x] \cup frames[x]
      BY <1>9, <2>1, <2>2
    <3>4. bars[m][x] \subseteq Chunks /\ frames[x] \subseteq Chunks
      BY <1>1, <1>3, <2>1 DEF RefetchTypeOK
    <3> HIDE DEF short
    <3> QED BY <1>6, <3>1, <3>2, <3>3, <3>4
  <2>3. CASE x \notin r.todo
    <3>1. Loaded("quality", m, r.lost, x)
      BY <1>1, <1>2, <2>1, <2>3 DEF RefetchInd, BehindLoaded, Behind, RunAt
    <3> HIDE DEF short
    <3> QED BY <1>1, <1>3, <1>6, <1>9, <1>10, <2>1, <3>1, LoadedStays DEF Loaded, WholeIn
  <2> QED BY <2>2, <2>3
<1>14. BehindLoaded("quality")'
  BY <1>6, <1>7, <1>13 DEF BehindLoaded, Loaded, WholeIn
<1> QED BY <1>1, <1>4, <1>7, <1>10, <1>11, <1>12, <1>14, OneScriptSteps

LEMMA WriteMarkSteps ==
  ASSUME RefetchInd, NEW sc \in RefetchScripts, WriteMark(sc)
  PROVE  RefetchInd'
<1> DEFINE r == run[sc]
           s == Min(r.todo)
           step == IF r.todo = {s} THEN "report" ELSE "commit"
           new == [r EXCEPT !.todo = @ \ {s}, !.step = step]
<1>1. r \in Runs /\ RunFits(sc) /\ RefetchTypeOK
  BY DEF RefetchInd, RefetchTypeOK
<1>2. sc # "quality" /\ r.step = "mark"
  BY <1>1 DEF WriteMark, RunAt, RunFits
<1>3. r.month \in Months /\ r.todo # {} /\ r.todo \subseteq Members /\ r.chain \subseteq Members
  BY <1>1, <1>2 DEF RunFits, RunAt, Runs
<1>4. s \in r.todo /\ s \in Members /\ \A y \in r.todo : s <= y
  BY <1>3, RefetchAssumption, LeastMember
<1>5. mark' = [mark EXCEPT ![sc] = Mark(r, s)] /\ UNCHANGED <<bars, daily, summary, runs>>
  BY DEF WriteMark
<1>6. run' = [run EXCEPT ![sc] = new]
  BY <1>1 DEF WriteMark, RefetchTypeOK, Runs
<1> HIDE DEF s
<1>7. /\ new \in Runs /\ new.step = step /\ new.month = r.month /\ new.todo = r.todo \ {s}
      /\ new.chain = r.chain /\ new.schedule = r.schedule /\ new.lost = r.lost
  BY <1>1 DEF Runs, RunSteps
<1>8. /\ run' \in [RefetchScripts -> Runs] /\ run'[sc] = new
      /\ \A o \in RefetchScripts \ {sc} : run'[o] = run[o]
  <2> HIDE DEF new
  <2> QED BY <1>1, <1>6, <1>7, OthersStay DEF RunBecomes
<1> HIDE DEF new
<1>9. /\ Mark(r, s) \in Marks
      /\ Mark(r, s).month = r.month /\ Mark(r, s).chain = r.chain
      /\ Mark(r, s).last = s /\ Mark(r, s).lost = r.lost
  BY <1>1, <1>3, <1>4 DEF Mark, Marks, Runs
<1>10. /\ mark' \in [RefetchScripts -> Marks] /\ mark'[sc] = Mark(r, s)
       /\ \A o \in RefetchScripts \ {sc} : mark'[o] = mark[o]
  BY <1>1, <1>5, <1>9 DEF RefetchTypeOK
<1>11. RefetchTypeOK'
  BY <1>1, <1>5, <1>8, <1>10 DEF RefetchTypeOK
<1>12. RunFits(sc)'
  BY <1>1, <1>2, <1>4, <1>7, <1>8 DEF RunFits, RunAt
<1>13. ASSUME NEW x \in r.chain, x \notin r.todo \/ x = s
       PROVE  Loaded(sc, r.month, r.lost, x)
  <2>1. x \in Behind(sc)
    BY <1>2, <1>13 DEF Behind, RunAt, s
  <2> QED BY <1>2, <2>1 DEF RefetchInd, BehindLoaded, RunAt
<1>14. BehindLoaded(sc)'
  <2>1. \A x \in Behind(sc)' : x \in r.chain /\ (x \notin r.todo \/ x = s)
    BY <1>2, <1>7, <1>8 DEF Behind, RunAt
  <2> QED BY <1>5, <1>7, <1>8, <1>13, <2>1 DEF BehindLoaded, Loaded, WholeIn
<1>15. MarkVouches(sc)'
  <2>1. ASSUME NEW x \in r.chain, x <= s PROVE x \notin r.todo \/ x = s
    <3>1. x \in Nat /\ s \in Nat
      BY <1>3, <1>4, RefetchAssumption
    <3>2. x \in r.todo => s <= x
      BY <1>4
    <3> QED BY <2>1, <3>1, <3>2
  <2> QED BY <1>5, <1>9, <1>10, <1>13, <2>1 DEF MarkVouches, Loaded, WholeIn
<1> QED BY <1>5, <1>8, <1>10, <1>11, <1>12, <1>14, <1>15, OneScriptSteps DEF Grow

LEMMA ReportSteps ==
  ASSUME RefetchInd, NEW sc \in RefetchScripts, ReportSuccess(sc)
  PROVE  RefetchInd'
<1> DEFINE r == run[sc]
           new == IF sc = "quality" THEN NoRun ELSE [r EXCEPT !.step = "clear"]
<1>1. r \in Runs /\ RunFits(sc) /\ RefetchTypeOK
  BY DEF RefetchInd, RefetchTypeOK
<1>2. r.step = "report" /\ r.month \in Months /\ r.chain \subseteq Members
  BY <1>1 DEF ReportSuccess, RunAt, RunFits, Runs
<1>3. summary' = [summary EXCEPT ![sc] = Summary(r)] /\ UNCHANGED <<bars, daily, mark, runs>>
  BY DEF ReportSuccess
<1>4. run' = [run EXCEPT ![sc] = new]
  BY <1>1 DEF ReportSuccess, Stop, RunGoesTo, RefetchTypeOK, Runs
<1>5. /\ new \in Runs
      /\ IF sc = "quality" THEN new = NoRun
         ELSE /\ new.step = "clear" /\ new.month = r.month /\ new.todo = r.todo
              /\ new.chain = r.chain /\ new.schedule = r.schedule /\ new.lost = r.lost
  BY <1>1 DEF Runs, RunSteps, NoRun
<1>6. /\ run' \in [RefetchScripts -> Runs] /\ run'[sc] = new
      /\ \A o \in RefetchScripts \ {sc} : run'[o] = run[o]
  <2> HIDE DEF new
  <2> QED BY <1>1, <1>4, <1>5, OthersStay DEF RunBecomes
<1> HIDE DEF new
<1>7. /\ Summary(r) \in Summaries
      /\ Summary(r).month = r.month /\ Summary(r).chain = r.chain /\ Summary(r).lost = r.lost
  BY <1>1, <1>2 DEF Summary, Summaries, Runs
<1>8. /\ summary' \in [RefetchScripts -> Summaries] /\ summary'[sc] = Summary(r)
      /\ \A o \in RefetchScripts \ {sc} : summary'[o] = summary[o]
  BY <1>1, <1>3, <1>7 DEF RefetchTypeOK
<1>9. RefetchTypeOK'
  BY <1>1, <1>3, <1>6, <1>8 DEF RefetchTypeOK
<1>10. RunFits(sc)'
  BY <1>1, <1>2, <1>5, <1>6 DEF RunFits, RunAt, NoRun
<1>11. \A x \in r.chain : Loaded(sc, r.month, r.lost, x)
  BY <1>1, <1>2 DEF RefetchInd, BehindLoaded, Behind, RunFits, RunAt
<1>12. BehindLoaded(sc)'
  <2>1. CASE sc = "quality"
    BY <1>5, <1>6, <2>1 DEF BehindLoaded, RunAt, NoRun
  <2>2. CASE sc # "quality"
    <3>1. \A x \in Behind(sc)' : x \in r.chain
      BY <1>5, <1>6, <2>2 DEF Behind
    <3> QED BY <1>3, <1>5, <1>6, <1>11, <2>2, <3>1 DEF BehindLoaded, Loaded, WholeIn
  <2> QED BY <2>1, <2>2
<1>13. SummaryHolds(sc)'
  BY <1>3, <1>7, <1>8, <1>11 DEF SummaryHolds, Loaded, WholeIn
<1> QED BY <1>3, <1>6, <1>8, <1>9, <1>10, <1>12, <1>13, OneScriptSteps DEF Grow

LEMMA EndSteps ==
  ASSUME RefetchInd, NEW sc \in RefetchScripts, ClearMark(sc) \/ RunDies(sc)
  PROVE  RefetchInd'
<1>1. RefetchTypeOK
  BY DEF RefetchInd
<1>2. UNCHANGED <<bars, daily, summary, runs>> /\ run' = [run EXCEPT ![sc] = NoRun]
  BY DEF ClearMark, RunDies, Stop
<1>3. NoRun \in Runs
  BY DEF NoRun, Runs, RunSteps
<1>4. /\ run' \in [RefetchScripts -> Runs] /\ run'[sc] = NoRun
      /\ \A o \in RefetchScripts \ {sc} : run'[o] = run[o]
  BY <1>1, <1>2, <1>3, OthersStay DEF RunBecomes
<1>5. /\ NoReport \in Marks /\ NoReport.kind # "mark"
      /\ Torn \in Marks /\ Torn.kind # "mark"
  BY DEF Marks, NoReport, Torn
<1>6. mark' \in {mark, [mark EXCEPT ![sc] = NoReport], [mark EXCEPT ![sc] = Torn]}
  BY DEF ClearMark, RunDies
<1>7. /\ mark' \in [RefetchScripts -> Marks]
      /\ mark'[sc] = mark[sc] \/ mark'[sc].kind # "mark"
      /\ \A o \in RefetchScripts \ {sc} : mark'[o] = mark[o]
  BY <1>1, <1>5, <1>6 DEF RefetchTypeOK
<1>8. RefetchTypeOK'
  BY <1>1, <1>2, <1>4, <1>7 DEF RefetchTypeOK
<1>9. RunFits(sc)' /\ BehindLoaded(sc)'
  BY <1>4 DEF RunFits, BehindLoaded, RunAt, NoRun
<1> QED BY <1>2, <1>4, <1>7, <1>8, <1>9, OneScriptSteps DEF Grow

LEMMA RefetchStays == RefetchInd /\ [RefetchNext]_refetchVars => RefetchInd'
<1> SUFFICES ASSUME RefetchInd, [RefetchNext]_refetchVars PROVE RefetchInd'
  OBVIOUS
<1>1. ASSUME NEW sc \in RefetchScripts, RefetchStep(sc) PROVE RefetchInd'
  <2>1. CASE \E m \in Months, u \in Universes :
               StartFresh(sc, m, u) \/ Resume(sc, m, u) \/ ResumeRefused(sc, m, u)
    BY <2>1, StartsKeep
  <2>2. CASE \E chunks \in SUBSET Chunks : FetchMonth(sc, chunks) \/ Commit(sc, chunks)
    BY <2>2, FetchSteps, CommitSteps
  <2>3. CASE RefreshDaily(sc)
    <3>1. {} \in SUBSET Chunks
      OBVIOUS
    <3> QED BY <2>3, <3>1, FetchSteps
  <2>4. CASE WriteMark(sc)
    BY <2>4, WriteMarkSteps
  <2>5. CASE ReportSuccess(sc)
    BY <2>5, ReportSteps
  <2>6. CASE ClearMark(sc) \/ RunDies(sc)
    BY <2>6, EndSteps
  <2> QED BY <1>1, <2>1, <2>2, <2>3, <2>4, <2>5, <2>6 DEF RefetchStep
<1>2. CASE \E frames \in [Members -> SUBSET Chunks] : CommitAll(frames)
  BY <1>2, CommitAllSteps
<1>3. CASE UNCHANGED refetchVars
  <2>1. RefetchTypeOK'
    BY <1>3 DEF refetchVars, RefetchInd, RefetchTypeOK
  <2>2. UNCHANGED <<bars, mark, summary, run>> /\ Keeps
    BY <1>3, <2>1 DEF refetchVars, Keeps, Grow, RefetchTypeOK
  <2>3. CheckpointVouches' /\ SummaryCovers'
    BY <2>2, VouchedForStays, CoveredStaysSo
  <2>4. \A o \in RefetchScripts : RunFits(o)' /\ BehindLoaded(o)'
    BY <2>2, RunLeftAlone
  <2> QED BY <2>1, <2>3, <2>4 DEF RefetchInd
<1> QED BY <1>1, <1>2, <1>3 DEF RefetchNext

\* ResumeIsSound: whatever the symbols and the months, however often a load
\* dies and is resumed, and whatever symbols came into the universe or left
\* it meanwhile, a checkpoint lets a run skip only symbols that are loaded,
\* and a summary reports only such.
THEOREM ResumeAlwaysSound == RefetchSpec => []ResumeIsSound
<1>1. RefetchInd => ResumeIsSound
  BY DEF RefetchInd, ResumeIsSound
<1> QED BY <1>1, RefetchInitially, RefetchStays, PTL DEF RefetchSpec
-----------------------------------------------------------------------------
(* The repairs of the 15-minute table.                                     *)

LEMMA SlotsAreNumbers == Slots \subseteq Nat \ {0} /\ \A w \in Slots : w <= DaysKept * PerDay
  BY RepairAssumption DEF Slots

LEMMA PredIsLast ==
  ASSUME NEW R, R \subseteq Slots, NEW w \in Slots, Before(R, w) # {}
  PROVE  /\ Pred(R, w) \in R /\ Pred(R, w) < w
         /\ \A q \in R : q < w => q <= Pred(R, w)
<1> DEFINE B == Before(R, w)
<1>1. w \in Nat /\ B \subseteq Nat
  BY SlotsAreNumbers DEF Before
<1>2. \A x \in B : x <= w
  BY <1>1, SlotsAreNumbers DEF Before
<1>3. B # {}
  OBVIOUS
<1>4. Largest(B) \in B /\ \A y \in B : Largest(B) >= y
  <2> HIDE DEF B
  <2> QED BY <1>1, <1>2, <1>3, LargestIsMember
<1>5. LastOf(B) = Largest(B)
  BY DEF LastOf, Largest
<1>6. Pred(R, w) = LastOf(B)
  BY DEF Pred
<1> HIDE DEF B
<1>7. Pred(R, w) \in B /\ \A y \in B : Pred(R, w) >= y
  BY <1>4, <1>5, <1>6
<1>8. Pred(R, w) \in R /\ Pred(R, w) < w /\ Pred(R, w) \in Nat
  BY <1>1, <1>7 DEF B, Before
<1>9. ASSUME NEW q \in R, q < w PROVE q <= Pred(R, w)
  <2>1. q \in B /\ q \in Nat
    BY <1>9, SlotsAreNumbers DEF B, Before
  <2> QED BY <1>7, <1>8, <2>1
<1> QED BY <1>8, <1>9

\* With more rows, the row before is another one only if that one is new.
LEMMA PredOfMore ==
  ASSUME NEW R, R \subseteq Slots, NEW W, W \subseteq Slots, NEW w \in Slots
  PROVE  Pred(R \cup W, w) \in W \/ Pred(R \cup W, w) = Pred(R, w)
<1> DEFINE S == R \cup W
<1>0. S \subseteq Slots /\ R \subseteq S
  OBVIOUS
<1>1. CASE Before(S, w) = {}
  <2>1. Before(R, w) = {}
    BY <1>0, <1>1 DEF Before
  <2> QED BY <1>1, <2>1 DEF Pred
<1>2. CASE Before(S, w) # {} /\ Pred(S, w) \notin W
  <2> DEFINE p == Pred(S, w)
  <2>1. /\ p \in S /\ p < w
        /\ \A q \in S : q < w => q <= p
    <3> HIDE DEF S
    <3> QED BY <1>0, <1>2, PredIsLast
  <2>2. p \in R
    BY <1>2, <2>1
  <2>3. Before(R, w) # {}
    BY <2>1, <2>2 DEF Before
  <2>4. /\ Pred(R, w) \in R /\ Pred(R, w) < w
        /\ \A q \in R : q < w => q <= Pred(R, w)
    BY <2>3, PredIsLast
  <2>5. p <= Pred(R, w) /\ Pred(R, w) <= p
    BY <1>0, <2>1, <2>2, <2>4
  <2>6. p \in Nat /\ Pred(R, w) \in Nat
    BY <1>0, <2>1, <2>4, SlotsAreNumbers
  <2> QED BY <2>5, <2>6
<1> QED BY <1>1, <1>2

LEMMA PredIsBelow ==
  ASSUME NEW R, R \subseteq Slots, NEW w \in Slots
  PROVE  Pred(R, w) = 0 \/ (Pred(R, w) \in R /\ Pred(R, w) < w)
<1>1. CASE Before(R, w) = {}
  BY <1>1 DEF Pred
<1>2. CASE Before(R, w) # {}
  BY <1>2, PredIsLast
<1> QED BY <1>1, <1>2

LEMMA LagIsSlot ==
  ASSUME NEW R, R \subseteq Slots, NEW H, NEW w \in Slots
  PROVE  LagOver(R, H, w) \in Slots \cup {0}
  BY PredIsBelow DEF LagOver

\* The days, in order.
LEMMA DaysFollow ==
  ASSUME NEW v \in Slots, NEW w \in Slots, v < w
  PROVE  DayOf(v) \in TradeDays /\ DayOf(w) \in TradeDays /\ DayOf(v) <= DayOf(w)
<1> DEFINE a == (v - 1) \div PerDay
           b == (w - 1) \div PerDay
<1>1. /\ v \in Nat \ {0} /\ w \in Nat \ {0} /\ PerDay \in Nat \ {0} /\ DaysKept \in Nat
      /\ v - 1 \in Nat /\ w - 1 \in Nat /\ w - 1 < DaysKept * PerDay
  BY SlotsAreNumbers, RepairAssumption
<1>2. /\ a \in Nat /\ PerDay * a <= v - 1 /\ v - 1 < PerDay * (a + 1)
      /\ b \in Nat /\ PerDay * b <= w - 1 /\ w - 1 < PerDay * (b + 1)
  BY <1>1
<1> HIDE DEF a, b
<1>3. a <= b
  BY <1>1, <1>2
<1>4. b < DaysKept
  BY <1>1, <1>2
<1> QED BY <1>1, <1>2, <1>3, <1>4 DEF DayOf, TradeDays, a, b

LEMMA CalendarRises ==
  ASSUME NEW d \in TradeDays, NEW e \in TradeDays, d < e
  PROVE  Calendar(d) \in Nat /\ Calendar(e) \in Nat /\ Calendar(d) < Calendar(e)
<1> DEFINE D == {x \in BeforeBreak : x < d}
           E == {x \in BeforeBreak : x < e}
<1>1. d \in Nat /\ e \in Nat /\ BeforeBreak \subseteq Nat
  BY RepairAssumption DEF TradeDays
<1>2. IsFiniteSet(BeforeBreak)
  <2>1. IsFiniteSet(1 .. DaysKept)
    BY RepairAssumption, FS_Interval
  <2> QED BY <2>1, RepairAssumption, FS_Subset
<1>3. IsFiniteSet(E)
  BY <1>2, FS_Subset
<1>4. ASSUME NEW x \in D PROVE x \in E
  <2>1. x \in Nat /\ x < d /\ x \in BeforeBreak
    BY <1>1, <1>4
  <2>2. x < e
    BY <1>1, <2>1
  <2> QED BY <2>1, <2>2
<1>5. IsFiniteSet(D) /\ Cardinality(D) <= Cardinality(E)
  <2>1. D \subseteq E
    BY <1>4
  <2> HIDE DEF D, E
  <2> QED BY <1>3, <2>1, FS_Subset
<1>6. Cardinality(D) \in Nat /\ Cardinality(E) \in Nat
  BY <1>3, <1>5, FS_CardinalityType
<1>7. Calendar(d) = d + 2 * Cardinality(D) /\ Calendar(e) = e + 2 * Cardinality(E)
  BY DEF Calendar
<1> HIDE DEF D, E
<1> QED BY <1>1, <1>5, <1>6, <1>7

\* What the table's rows will be when the repair commits.
After == rows \cup repair.found
HollowAfter == hollow \ repair.found
Passed == {w \in Slots : w <= now}

RepairTypes ==
  /\ now \in Slots \cup {0}
  /\ fives \subseteq Passed /\ rows \subseteq Passed /\ hollow \subseteq rows
  /\ lag \in [Slots -> Slots \cup {0}]
  /\ repair.phase \in {"idle", "detected", "written"}
  /\ repair = [phase |-> repair.phase, wanted |-> repair.wanted,
               found |-> repair.found, lags |-> repair.lags]
  /\ repair.found \subseteq Passed
  /\ \A w \in DOMAIN repair.lags : w \in Slots /\ repair.lags[w] \in Slots \cup {0}

\* What the repair has computed and not committed holds of the table as it
\* will be, but for the rows that others have written since.
WrittenStands ==
  repair.phase = "written" => \A w \in After :
    IF w \in DOMAIN repair.lags
    THEN \/ repair.lags[w] = LagOver(After, HollowAfter, w)
         \/ w \in raced \/ Pred(After, w) \in raced
    ELSE w \in raced \/ ~Affected(DayOf(w), {DayOf(x) : x \in repair.found})

RepairInd == RepairTypes /\ StaleHasCause /\ WrittenStands

LEMMA LagOfMore ==
  ASSUME NEW R, R \subseteq Slots, NEW W, W \subseteq Slots, NEW w \in Slots,
         NEW H, NEW G, \A x : x \notin W => (x \in G <=> x \in H),
         Pred(R \cup W, w) \notin W
  PROVE  Pred(R \cup W, w) = Pred(R, w) /\ LagOver(R \cup W, G, w) = LagOver(R, H, w)
<1>1. Pred(R \cup W, w) = Pred(R, w)
  BY PredOfMore
<1> QED BY <1>1 DEF LagOver

LEMMA PassedAreSlots == RepairTypes =>
  rows \subseteq Slots /\ repair.found \subseteq Slots /\ After \subseteq Slots
  BY DEF RepairTypes, Passed, After

LEMMA RepairInitially == RepairInit => RepairInd
<1> SUFFICES ASSUME RepairInit PROVE RepairInd
  OBVIOUS
<1>1. RepairTypes
  BY DEF RepairInit, RepairTypes, Idle
<1> QED BY <1>1 DEF RepairInd, RepairInit, StaleHasCause, WrittenStands, Idle

(* The windows W are aggregated by somebody else than the backfill.        *)
LEMMA AggregationKeeps ==
  ASSUME RepairInd, NEW W, W \subseteq Slots, NEW H,
         \A x : x \notin W => (x \in H <=> x \in hollow),
         rows' = rows \cup W, hollow' = H,
         lag' = [w \in Slots |-> IF w \in W THEN LagOver(rows \cup W, H, w) ELSE lag[w]],
         Raced(W), UNCHANGED repair, redone \subseteq redone',
         \A w \in rows \ W : Pred(rows \cup W, w) \in W => Pred(rows \cup W, w) \in redone'
  PROVE  StaleHasCause' /\ WrittenStands'
<1>1. /\ rows \subseteq Slots /\ repair.found \subseteq Slots /\ After \subseteq Slots
      /\ rows' \subseteq Slots
  BY PassedAreSlots DEF RepairInd
<1>2. \A x : x \in raced /\ x \notin W => x \in raced'
  BY DEF Raced
<1>3. ASSUME NEW w \in rows', lag'[w] # LagOver(rows', hollow', w)
      PROVE  \/ Calendar(DayOf(w)) > Calendar(DayOf(Pred(rows', w))) + 1
             \/ w \in raced' \/ Pred(rows', w) \in raced'
             \/ Pred(rows', w) \in redone'
  <2>1. w \in Slots /\ w \notin W /\ w \in rows /\ lag'[w] = lag[w]
    BY <1>1, <1>3
  <2>2. CASE Pred(rows \cup W, w) \in W
    BY <2>1, <2>2
  <2>3. CASE Pred(rows \cup W, w) \notin W
    <3>1. /\ Pred(rows \cup W, w) = Pred(rows, w)
          /\ LagOver(rows \cup W, H, w) = LagOver(rows, hollow, w)
      BY <1>1, <2>1, <2>3, LagOfMore
    <3>2. lag[w] # LagOver(rows, hollow, w)
      BY <1>3, <2>1, <3>1
    <3>3. \/ Calendar(DayOf(w)) > Calendar(DayOf(Pred(rows, w))) + 1
          \/ w \in raced \/ Pred(rows, w) \in raced
          \/ Pred(rows, w) \in redone
      BY <2>1, <3>2 DEF RepairInd, StaleHasCause
    <3> QED BY <1>2, <2>1, <2>3, <3>1, <3>3
  <2> QED BY <2>2, <2>3
<1>4. StaleHasCause'
  BY <1>3 DEF StaleHasCause, Calendar, DayOf
<1>5. ASSUME repair.phase = "written", NEW w \in After'
      PROVE  IF w \in DOMAIN repair.lags
             THEN \/ repair.lags[w] = LagOver(After', HollowAfter', w)
                  \/ w \in raced' \/ Pred(After', w) \in raced'
             ELSE w \in raced' \/ ~Affected(DayOf(w), {DayOf(x) : x \in repair.found})
  <2>1. After' = After \cup W /\ HollowAfter' = H \ repair.found /\ raced' = raced \cup W
    BY <1>5 DEF After, HollowAfter, Raced
  <2>2. CASE w \in W
    BY <2>1, <2>2
  <2>3. CASE w \notin W
    <3>1. w \in After /\ w \in Slots
      BY <1>1, <1>5, <2>1, <2>3
    <3>2. CASE w \in DOMAIN repair.lags
      <4>1. \/ repair.lags[w] = LagOver(After, HollowAfter, w)
            \/ w \in raced \/ Pred(After, w) \in raced
        BY <1>5, <3>1, <3>2 DEF RepairInd, WrittenStands
      <4>2. CASE Pred(After \cup W, w) \in W
        BY <2>1, <3>2, <4>2
      <4>3. CASE Pred(After \cup W, w) \notin W
        <5>1. \A x : x \notin W => (x \in HollowAfter' <=> x \in HollowAfter)
          BY <2>1 DEF HollowAfter
        <5>2. /\ Pred(After \cup W, w) = Pred(After, w)
              /\ LagOver(After \cup W, HollowAfter', w) = LagOver(After, HollowAfter, w)
          BY <1>1, <3>1, <4>3, <5>1, LagOfMore
        <5> QED BY <2>1, <3>2, <4>1, <5>2
      <4> QED BY <4>2, <4>3
    <3>3. CASE w \notin DOMAIN repair.lags
      BY <1>5, <2>1, <3>1, <3>3 DEF RepairInd, WrittenStands
    <3> QED BY <3>2, <3>3
  <2> QED BY <2>2, <2>3
<1>6. WrittenStands'
  BY <1>5 DEF WrittenStands, Affected, Calendar, DayOf
<1> QED BY <1>4, <1>6

LEMMA CollectSteps ==
  ASSUME RepairInd, CollectWindow
  PROVE  RepairInd'
<1>1. /\ now + 1 \in Slots /\ now' = now + 1 /\ UNCHANGED <<repair, redone>> /\ now \in Nat
      /\ now' \in Slots /\ Slots \subseteq Nat
  BY SlotsAreNumbers DEF CollectWindow, RepairInd, RepairTypes
<1>2. rows \subseteq Slots /\ Passed \subseteq Passed' /\ now' \in Passed'
  <2>1. rows \subseteq Slots
    BY PassedAreSlots DEF RepairInd
  <2>2. \A w \in Slots : w <= now => w <= now'
    BY <1>1
  <2>3. now' <= now'
    BY <1>1
  <2> QED BY <1>1, <2>1, <2>2, <2>3 DEF Passed
<1>3. \A w \in rows : w < now'
  BY <1>1 DEF RepairInd, RepairTypes, Passed
<1>4. CASE UNCHANGED <<fives, tableVars, raced>>
  <2>1. RepairTypes'
    BY <1>1, <1>2, <1>4 DEF RepairInd, RepairTypes, tableVars
  <2>2. StaleHasCause' /\ WrittenStands'
    BY <1>1, <1>4 DEF RepairInd, StaleHasCause, WrittenStands, After, HollowAfter, tableVars,
                      Affected, Calendar, DayOf
  <2> QED BY <2>1, <2>2 DEF RepairInd
<1>5. ASSUME NEW H \in {hollow, hollow \cup {now'}},
             /\ fives' = fives \cup {now'}
             /\ rows' = rows \cup {now'} /\ hollow' = H
             /\ lag' = [lag EXCEPT ![now'] = LagOver(rows', H, now')]
             /\ Raced({now'})
      PROVE  RepairInd'
  <2> DEFINE W == {now'}
  <2>1. W \subseteq Slots /\ rows \cup W \subseteq Slots
    BY <1>1, <1>2
  <2>2. \A w \in Slots : LagOver(rows \cup W, H, w) \in Slots \cup {0}
    BY <2>1, LagIsSlot
  <2>3. lag' = [w \in Slots |-> IF w \in W THEN LagOver(rows \cup W, H, w) ELSE lag[w]]
    BY <1>1, <1>5 DEF RepairInd, RepairTypes
  <2>4. \A w \in rows \ W : Pred(rows \cup W, w) \notin W
    <3>1. ASSUME NEW w \in rows PROVE Pred(rows \cup W, w) # now'
      <4>1. w \in Slots /\ w < now' /\ now' \in Nat /\ w \in Nat
        BY <1>1, <1>2, <1>3
      <4>2. Pred(rows \cup W, w) = 0 \/ Pred(rows \cup W, w) < w
        BY <2>1, <4>1, PredIsBelow
      <4> QED BY <4>1, <4>2
    <3> QED BY <3>1
  <2>5. RepairTypes'
    <3>1. lag' \in [Slots -> Slots \cup {0}]
      BY <2>2, <2>3 DEF RepairInd, RepairTypes
    <3>2. fives' \subseteq Passed' /\ rows' \subseteq Passed' /\ hollow' \subseteq rows'
      BY <1>2, <1>5 DEF RepairInd, RepairTypes
    <3> QED BY <1>1, <1>2, <3>1, <3>2 DEF RepairInd, RepairTypes
  <2>6. /\ \A x : x \notin W => (x \in H <=> x \in hollow)
        /\ rows' = rows \cup W /\ hollow' = H /\ Raced(W) /\ redone \subseteq redone'
        /\ UNCHANGED repair
    BY <1>1, <1>5
  <2>7. StaleHasCause' /\ WrittenStands'
    <3> HIDE DEF W
    <3> QED BY <2>1, <2>3, <2>4, <2>6, AggregationKeeps
  <2> QED BY <2>5, <2>7 DEF RepairInd
<1> QED BY <1>4, <1>5 DEF CollectWindow

\* AggregateAll over windows that have passed, and the rows they leave.
LEMMA AggregateSteps ==
  ASSUME RepairInd, NEW W, W \subseteq Passed, NEW H, H \subseteq rows \cup W,
         \A x : x \notin W => (x \in H <=> x \in hollow),
         AggregateAll(W, H), UNCHANGED <<now, repair>>,
         fives' \subseteq Passed, redone \subseteq redone',
         \A w \in rows \ W : Pred(rows \cup W, w) \in W => Pred(rows \cup W, w) \in redone'
  PROVE  RepairInd'
<1>1. W \subseteq Slots /\ rows \subseteq Passed /\ rows \cup W \subseteq Slots
  BY DEF RepairInd, RepairTypes, Passed
<1>2. /\ rows' = rows \cup W /\ hollow' = H /\ Raced(W)
      /\ lag' = [w \in Slots |-> IF w \in W THEN LagOver(rows \cup W, H, w) ELSE lag[w]]
  BY DEF AggregateAll
<1>3. \A w \in Slots : LagOver(rows \cup W, H, w) \in Slots \cup {0}
  BY <1>1, LagIsSlot
<1>4. RepairTypes'
  <2>1. Passed' = Passed
    BY DEF Passed
  <2>2. lag' \in [Slots -> Slots \cup {0}]
    BY <1>2, <1>3 DEF RepairInd, RepairTypes
  <2>3. rows' \subseteq Passed' /\ hollow' \subseteq rows'
    BY <1>1, <1>2, <2>1
  <2> QED BY <2>1, <2>2, <2>3 DEF RepairInd, RepairTypes
<1>5. StaleHasCause' /\ WrittenStands'
  BY <1>1, <1>2, AggregationKeeps
<1> QED BY <1>4, <1>5 DEF RepairInd

LEMMA ReaggregateSteps ==
  ASSUME RepairInd, Reaggregate
  PROVE  RepairInd'
<1> DEFINE W == fives' \cap SlotsOf(GapDays)
           H == hollow \ (W \cap Vendor)
<1>1. /\ SlotsOf(GapDays) \subseteq 1 .. now /\ UNCHANGED <<now, repair>>
      /\ fives' = fives \cup (Vendor \cap SlotsOf(GapDays))
  BY DEF Reaggregate
<1>2. SlotsOf(GapDays) \subseteq Passed
  <2>1. SlotsOf(GapDays) \subseteq Slots
    BY DEF SlotsOf
  <2> QED BY <1>1, <2>1 DEF Passed
<1>3. fives' \subseteq Passed /\ W \subseteq Passed
  BY <1>1, <1>2 DEF RepairInd, RepairTypes
<1>4. CASE AggregateAll(W, H) /\ redone' = redone \cup W
  <2>1. H \subseteq rows \cup W /\ \A x : x \notin W => (x \in H <=> x \in hollow)
    BY DEF RepairInd, RepairTypes
  <2>2. redone \subseteq redone' /\ \A x \in W : x \in redone'
    BY <1>4
  <2> HIDE DEF W, H
  <2> QED BY <1>1, <1>3, <1>4, <2>1, <2>2, AggregateSteps
<1>5. CASE UNCHANGED <<tableVars, raced, redone>>
  <2>1. RepairTypes'
    BY <1>1, <1>3, <1>5 DEF RepairInd, RepairTypes, tableVars, Passed
  <2>2. StaleHasCause' /\ WrittenStands'
    BY <1>1, <1>5 DEF RepairInd, StaleHasCause, WrittenStands, After, HollowAfter, tableVars,
                      Affected, Calendar, DayOf
  <2> QED BY <2>1, <2>2 DEF RepairInd
<1> QED BY <1>4, <1>5 DEF Reaggregate

LEMMA CatchUpSteps ==
  ASSUME RepairInd, CatchUp
  PROVE  RepairInd'
<1> DEFINE W == {w \in fives : \A r \in rows : w >= r}
<1>1. UNCHANGED <<now, fives, repair, redone>>
  BY DEF CatchUp
<1>2. PICK H \in {hollow \ W, hollow \cup (W \cap rows)} : AggregateAll(W, H)
  BY DEF CatchUp
<1>3. W \subseteq Passed /\ fives' \subseteq Passed /\ rows \subseteq Slots /\ W \subseteq Slots
  BY <1>1, PassedAreSlots DEF RepairInd, RepairTypes, Passed
<1>4. H \subseteq rows \cup W /\ \A x : x \notin W => (x \in H <=> x \in hollow)
  BY <1>2 DEF RepairInd, RepairTypes
<1>5. ASSUME NEW w \in rows \ W PROVE Pred(rows \cup W, w) \notin W
  <2>1. w \in Slots /\ w \in Nat /\ rows \cup W \subseteq Slots
    BY <1>3, SlotsAreNumbers
  <2>2. Pred(rows \cup W, w) = 0 \/ Pred(rows \cup W, w) < w
    <3> HIDE DEF W
    <3> QED BY <2>1, PredIsBelow
  <2>3. \A x \in W : x \in Nat /\ x >= w /\ x # 0
    BY <1>3, <1>5, SlotsAreNumbers
  <2> QED BY <2>1, <2>2, <2>3
<1> HIDE DEF W
<1> QED BY <1>1, <1>2, <1>3, <1>4, <1>5, AggregateSteps

LEMMA RepairPhaseSteps ==
  ASSUME RepairInd,
         (\E onlyNulls \in BOOLEAN : Detect(onlyNulls)) \/ Rollback \/ Write
  PROVE  RepairInd'
<1>1. UNCHANGED <<now, fives, tableVars, raced, redone>>
  BY DEF Detect, Rollback, Write
<1>2. StaleHasCause'
  BY <1>1 DEF RepairInd, StaleHasCause, tableVars, Calendar, DayOf
<1>3. CASE (\E onlyNulls \in BOOLEAN : Detect(onlyNulls)) \/ Rollback
  <2> DEFINE Blank(ph, want) == [phase |-> ph, wanted |-> want, found |-> {},
                                 lags |-> [w \in {} |-> 0]]
  <2>1. \E want : repair' = Blank("idle", want) \/ repair' = Blank("detected", want)
    <3>1. CASE Rollback
      BY <3>1 DEF Rollback, Idle
    <3>2. ASSUME NEW onlyNulls \in BOOLEAN, Detect(onlyNulls)
          PROVE  \E want : repair' = Blank("detected", want)
      <4> DEFINE found == hollow \cup IF onlyNulls THEN {} ELSE SlotsOf(Scanned) \ rows
      <4>1. repair' = [Idle EXCEPT !.phase = "detected", !.wanted = found]
        BY <3>2 DEF Detect
      <4> HIDE DEF found
      <4>2. repair' = Blank("detected", found)
        BY <4>1 DEF Idle
      <4> QED BY <4>2
    <3> QED BY <1>3, <3>1, <3>2
  <2>2. PICK want : repair' = Blank("idle", want) \/ repair' = Blank("detected", want)
    BY <2>1
  <2>3. RepairTypes'
    BY <1>1, <2>2 DEF RepairInd, RepairTypes, Passed, tableVars
  <2>4. WrittenStands'
    BY <2>2 DEF WrittenStands
  <2> QED BY <1>2, <2>3, <2>4 DEF RepairInd
<1>4. CASE Write
  <2> DEFINE found == repair.wanted \cap Vendor \cap 1 .. now
             R == rows \cup found
             H == hollow \ found
             days == {DayOf(w) : w \in found}
             targets == {w \in R : Affected(DayOf(w), days)}
             lags == [w \in targets |-> LagOver(R, H, w)]
  <2>1. repair' = [repair EXCEPT !.phase = "written", !.found = found, !.lags = lags]
    BY <1>4 DEF Write
  <2>2. repair = [phase |-> repair.phase, wanted |-> repair.wanted,
                  found |-> repair.found, lags |-> repair.lags]
    BY DEF RepairInd, RepairTypes
  <2>3. repair' = [phase |-> "written", wanted |-> repair.wanted,
                   found |-> found, lags |-> lags]
    <3> HIDE DEF found, lags
    <3> QED BY <2>1, <2>2
  <2>4. found \subseteq Passed /\ R \subseteq Slots
    <3>1. found \subseteq Slots /\ \A w \in found : w <= now
      BY DEF RepairInd, RepairTypes, Vendor
    <3>2. rows \subseteq Slots
      BY PassedAreSlots DEF RepairInd
    <3> HIDE DEF found
    <3> QED BY <3>1, <3>2 DEF Passed
  <2>5. \A w \in targets : w \in Slots /\ lags[w] \in Slots \cup {0}
    BY <2>4, LagIsSlot
  <2> HIDE DEF found
  <2>6. RepairTypes'
    <3> HIDE DEF targets
    <3>1. DOMAIN lags = targets
      OBVIOUS
    <3> HIDE DEF lags
    <3> QED BY <1>1, <2>3, <2>4, <2>5, <3>1 DEF RepairInd, RepairTypes, Passed, tableVars
  <2>7. After' = R /\ HollowAfter' = H
    <3> HIDE DEF lags
    <3> QED BY <1>1, <2>3 DEF After, HollowAfter, tableVars
  <2>8. ASSUME NEW w \in R
        PROVE  IF w \in targets THEN lags[w] = LagOver(R, H, w)
               ELSE ~Affected(DayOf(w), days)
    OBVIOUS
  <2>9. repair'.found = found /\ repair'.lags = lags /\ DOMAIN lags = targets
    <3>1. DOMAIN lags = targets
      OBVIOUS
    <3> HIDE DEF lags, targets
    <3> QED BY <2>3, <3>1
  <2>10. WrittenStands'
    <3> HIDE DEF lags, targets, R, H
    <3> QED BY <2>7, <2>8, <2>9 DEF WrittenStands, LagOver, Affected, DayOf, Calendar
  <2> QED BY <1>2, <2>6, <2>10 DEF RepairInd
<1> QED BY <1>3, <1>4

LEMMA CommitRepairSteps ==
  ASSUME RepairInd, CommitRepair
  PROVE  RepairInd'
<1>1. /\ repair.phase = "written" /\ rows' = After /\ hollow' = HollowAfter
      /\ lag' = [w \in Slots |-> IF w \in DOMAIN repair.lags THEN repair.lags[w] ELSE lag[w]]
      /\ repair' = Idle /\ UNCHANGED <<now, fives, raced, redone>>
  BY DEF CommitRepair, After, HollowAfter
<1>2. rows \subseteq Slots /\ repair.found \subseteq Slots /\ After \subseteq Slots
  BY PassedAreSlots DEF RepairInd
<1>3. RepairTypes'
  <2>1. After \subseteq Passed /\ HollowAfter \subseteq After /\ Passed' = Passed
    BY <1>1 DEF RepairInd, RepairTypes, After, HollowAfter, Passed
  <2>2. lag' \in [Slots -> Slots \cup {0}]
    BY <1>1 DEF RepairInd, RepairTypes
  <2> QED BY <1>1, <2>1, <2>2 DEF RepairInd, RepairTypes, Idle
<1>4. WrittenStands'
  BY <1>1 DEF WrittenStands, Idle
<1>5. ASSUME NEW w \in After, lag'[w] # LagOver(After, HollowAfter, w)
      PROVE  \/ Calendar(DayOf(w)) > Calendar(DayOf(Pred(After, w))) + 1
             \/ w \in raced \/ Pred(After, w) \in raced
             \/ Pred(After, w) \in redone
  <2> DEFINE p == Pred(After, w)
             days == {DayOf(x) : x \in repair.found}
  <2>1. w \in Slots
    BY <1>2
  <2>2. IF w \in DOMAIN repair.lags
        THEN \/ repair.lags[w] = LagOver(After, HollowAfter, w)
             \/ w \in raced \/ Pred(After, w) \in raced
        ELSE w \in raced \/ ~Affected(DayOf(w), days)
    BY <1>1 DEF RepairInd, WrittenStands
  <2>3. CASE w \in DOMAIN repair.lags
    <3>1. lag'[w] = repair.lags[w]
      BY <1>1, <2>1, <2>3
    <3> QED BY <1>5, <2>2, <2>3, <3>1
  <2>4. CASE w \notin DOMAIN repair.lags /\ ~Affected(DayOf(w), days)
    <3>1. lag'[w] = lag[w] /\ DayOf(w) \notin days
      BY <1>1, <2>1, <2>4 DEF Affected
    <3>2. w \notin repair.found /\ w \in rows
      BY <3>1 DEF After
    <3>3. CASE p \in repair.found
      <4>1. p \in Slots /\ p < w
        BY <1>2, <2>1, <3>3, PredIsBelow, SlotsAreNumbers
      <4>2. DayOf(p) \in TradeDays /\ DayOf(w) \in TradeDays /\ DayOf(p) <= DayOf(w)
        <5> HIDE DEF p
        <5> QED BY <2>1, <4>1, DaysFollow
      <4>3. DayOf(p) # DayOf(w) /\ Calendar(DayOf(w)) # Calendar(DayOf(p)) + 1
        BY <2>4, <3>1, <3>3 DEF Affected
      <4>4. DayOf(p) < DayOf(w)
        BY <4>2, <4>3, RepairAssumption DEF TradeDays
      <4>5. /\ Calendar(DayOf(p)) \in Nat /\ Calendar(DayOf(w)) \in Nat
            /\ Calendar(DayOf(p)) < Calendar(DayOf(w))
        BY <4>2, <4>4, CalendarRises
      <4> QED BY <4>3, <4>5
    <3>4. CASE p \notin repair.found
      <4>1. \A x : x \notin repair.found => (x \in HollowAfter <=> x \in hollow)
        BY DEF HollowAfter
      <4>2. /\ p = Pred(rows, w)
            /\ LagOver(After, HollowAfter, w) = LagOver(rows, hollow, w)
        BY <1>2, <2>1, <3>4, <4>1, LagOfMore DEF After
      <4> QED BY <1>5, <3>1, <3>2, <4>2 DEF RepairInd, StaleHasCause
    <3> QED BY <3>3, <3>4
  <2> QED BY <2>2, <2>3, <2>4
<1>6. StaleHasCause'
  BY <1>1, <1>5 DEF StaleHasCause, Calendar, DayOf
<1> QED BY <1>3, <1>4, <1>6 DEF RepairInd

\* StaleHasCause: for any days, breaks and sizes of a session, whatever the
\* vendors lack, and however the backfill, the collector, the re-aggregation
\* and the catch-up interleave, a lag is stale for one of the three causes.
THEOREM StaleAlwaysHasCause == RepairSpec => []StaleHasCause
<1>1. ASSUME RepairInd, [RepairNext]_repairVars PROVE RepairInd'
  <2>1. CASE RepairNext
    BY <1>1, <2>1, CollectSteps, CatchUpSteps, ReaggregateSteps, RepairPhaseSteps,
       CommitRepairSteps DEF RepairNext
  <2>2. CASE UNCHANGED repairVars
    <3>1. RepairTypes'
      BY <1>1, <2>2 DEF repairVars, tableVars, RepairInd, RepairTypes, Passed
    <3>2. StaleHasCause' /\ WrittenStands'
      BY <1>1, <2>2 DEF repairVars, tableVars, RepairInd, StaleHasCause, WrittenStands,
                        After, HollowAfter, Affected, Calendar, DayOf
    <3> QED BY <3>1, <3>2 DEF RepairInd
  <2> QED BY <1>1, <2>1, <2>2
<1>2. RepairInd => StaleHasCause
  BY DEF RepairInd
<1> QED BY <1>1, <1>2, RepairInitially, PTL DEF RepairSpec

-----------------------------------------------------------------------------
(* Gaps.  A gap is a bar that is missing below a staged one.  Whoever is   *)
(* to fill it must not meet a row before it comes to it: the nearest       *)
(* staged row above the gap is above all that this collector still holds.  *)

Holds(p, s, b) == s \in current[p] /\ b \in RowsOf(batch[p])

\* The bars that have a reason to be missing.
Reasoned == excused \cup swept

\* A collector works on one symbol at a time, and only while it collects.
AtWork == \A p \in Scripts :
  current[p] = {} \/ (Collecting(p) /\ \E s \in Symbols : current[p] = {s})

\* Below a row that a collector still holds, it held every row there was: the
\* others were not at the vendor, or, oldest first, are in the table.
BelowIsDone ==
  \A p \in Scripts, s \in Symbols, y \in Bars, b \in Bars :
    Holds(p, s, y) /\ b < y /\ ~Holds(p, s, b) =>
      <<s, b>> \in Reasoned \/ (pc[p] = "backfill" /\ b \in Staged(s))

WillInsert(p, s, b) ==
  /\ Holds(p, s, b)
  /\ \/ pc[p] = "backfill"
     \/ \A m \in Staged(s), y \in RowsOf(batch[p]) : m > b => y < m

GapsAreFilled ==
  \A s \in Symbols : \A b \in Bars \ Staged(s) :
    (\E n \in Staged(s) : n > b) => <<s, b>> \in Reasoned \/ \E p \in Scripts : WillInsert(p, s, b)

GapInd == AtWork /\ BelowIsDone /\ GapsAreFilled

GapTypes == /\ staging \in [Symbols -> [Bars -> Quality]]
            /\ batch \in [Scripts -> [Bars -> Quality]]
            /\ current \in [Scripts -> SUBSET Symbols]
            /\ pc \in [Scripts -> Stages]
            /\ Bars \subseteq Nat

LEMMA GapTypesHold == MarketInd0 => GapTypes
  BY BarsAssumption DEF MarketInd0, MarketTypeOK, BarTypeOK, GapTypes, Bars

LEMMA GapInitially == Init => GapInd
  BY DEF Init, BarInit, GapInd, AtWork, BelowIsDone, GapsAreFilled, Holds, Staged, RowsOf, NoRows

(* Steps that leave the collectors' rows alone.                            *)
LEMMA GapsStay ==
  ASSUME GapInd, UNCHANGED <<staging, batch, current>>, Reasoned \subseteq Reasoned',
         \A q \in Scripts : current[q] # {} => pc'[q] = pc[q]
  PROVE  GapInd'
<1>1. AtWork'
  BY DEF GapInd, AtWork, Collecting
<1>2. ASSUME NEW q \in Scripts, NEW s, NEW b
      PROVE  /\ Holds(q, s, b)' <=> Holds(q, s, b)
             /\ Holds(q, s, b) => pc'[q] = pc[q]
             /\ WillInsert(q, s, b) => WillInsert(q, s, b)'
  BY DEF Holds, WillInsert, RowsOf, Staged
<1>3. BelowIsDone'
  <2> SUFFICES ASSUME NEW p \in Scripts, NEW s \in Symbols, NEW y \in Bars, NEW b \in Bars,
                      Holds(p, s, y)', b < y, ~Holds(p, s, b)'
               PROVE  <<s, b>> \in Reasoned' \/ (pc'[p] = "backfill" /\ b \in Staged(s)')
    BY DEF BelowIsDone
  <2>1. Holds(p, s, y) /\ ~Holds(p, s, b) /\ pc'[p] = pc[p]
    BY <1>2
  <2>2. <<s, b>> \in Reasoned \/ (pc[p] = "backfill" /\ b \in Staged(s))
    BY <2>1 DEF GapInd, BelowIsDone
  <2> QED BY <2>1, <2>2 DEF Staged, RowsOf
<1>4. GapsAreFilled'
  <2> SUFFICES ASSUME NEW s \in Symbols, NEW b \in Bars, b \notin Staged(s)',
                      NEW n \in Staged(s)', n > b
               PROVE  <<s, b>> \in Reasoned' \/ \E p \in Scripts : WillInsert(p, s, b)'
    BY DEF GapsAreFilled
  <2>1. b \notin Staged(s) /\ n \in Staged(s)
    BY DEF Staged, RowsOf
  <2>2. <<s, b>> \in Reasoned \/ \E p \in Scripts : WillInsert(p, s, b)
    BY <2>1 DEF GapInd, GapsAreFilled
  <2> QED BY <1>2, <2>2
<1> QED BY <1>1, <1>3, <1>4 DEF GapInd

LEMMA GapsAfterFetch ==
  ASSUME GapTypes, GapInd, NEW p \in Scripts, NEW s \in Symbols, Fetch(p, s),
         upto[p] \in 0 .. NumBars
  PROVE  GapInd'
<1> DEFINE found == [b \in Bars |-> IF b <= upto[p] THEN feed[s][b] ELSE "none"]
           missing == {<<s, b>> : b \in {x \in 1 .. upto[p] : found[x] = "none"}}
<1>1. /\ Collecting(p) /\ current[p] = {} /\ UNCHANGED <<staging, pc>>
      /\ batch' = [batch EXCEPT ![p] = found]
      /\ current' = [current EXCEPT ![p] = IF found = NoRows THEN {} ELSE {s}]
      /\ excused' = excused \cup missing /\ swept' = swept
  BY DEF Fetch, place
<1>r. Reasoned' = Reasoned \cup missing
  <2> HIDE DEF missing
  <2> QED BY <1>1 DEF Reasoned
<1> HIDE DEF found
<1>2. /\ batch'[p] = found /\ current'[p] \in {{}, {s}}
      /\ \A q \in Scripts \ {p} : batch'[q] = batch[q] /\ current'[q] = current[q]
  BY <1>1 DEF GapTypes
<1>3. AtWork'
  BY <1>1, <1>2 DEF GapInd, AtWork, Collecting
<1>4. ASSUME NEW q \in Scripts, NEW t, NEW b, q # p
      PROVE  /\ Holds(q, t, b)' <=> Holds(q, t, b)
             /\ WillInsert(q, t, b) => WillInsert(q, t, b)'
  BY <1>1, <1>2, <1>4 DEF Holds, WillInsert, RowsOf, Staged
<1>5. BelowIsDone'
  <2> SUFFICES ASSUME NEW q \in Scripts, NEW t \in Symbols, NEW y \in Bars, NEW b \in Bars,
                      Holds(q, t, y)', b < y, ~Holds(q, t, b)'
               PROVE  <<t, b>> \in Reasoned' \/ (pc'[q] = "backfill" /\ b \in Staged(t)')
    BY DEF BelowIsDone
  <2>1. CASE q = p
    <3>1. t = s /\ found[y] # "none" /\ found[b] = "none"
      BY <1>2, <2>1 DEF Holds, RowsOf
    <3>2. y <= upto[p]
      BY <3>1 DEF found
    <3>3. b \in 1 .. upto[p]
      BY <3>2 DEF Bars
    <3>4. <<s, b>> \in missing
      BY <3>1, <3>3
    <3> QED BY <1>r, <3>1, <3>4
  <2>2. CASE q # p
    <3>1. Holds(q, t, y) /\ ~Holds(q, t, b)
      BY <1>4, <2>2
    <3>2. <<t, b>> \in Reasoned \/ (pc[q] = "backfill" /\ b \in Staged(t))
      BY <3>1 DEF GapInd, BelowIsDone
    <3> QED BY <1>1, <1>r, <3>2 DEF Staged, RowsOf
  <2> QED BY <2>1, <2>2
<1>6. GapsAreFilled'
  <2> SUFFICES ASSUME NEW t \in Symbols, NEW b \in Bars, b \notin Staged(t)',
                      NEW n \in Staged(t)', n > b
               PROVE  <<t, b>> \in Reasoned' \/ \E q \in Scripts : WillInsert(q, t, b)'
    BY DEF GapsAreFilled
  <2>1. b \notin Staged(t) /\ n \in Staged(t)
    BY <1>1 DEF Staged, RowsOf
  <2>2. <<t, b>> \in Reasoned \/ \E q \in Scripts : WillInsert(q, t, b)
    BY <2>1 DEF GapInd, GapsAreFilled
  <2>3. ASSUME NEW q \in Scripts, WillInsert(q, t, b) PROVE q # p
    BY <1>1, <2>3 DEF WillInsert, Holds
  <2> QED BY <1>r, <1>4, <2>2, <2>3
<1> QED BY <1>3, <1>5, <1>6 DEF GapInd

(* A collector gives up the rows it holds, and has a reason to.            *)
LEMMA GapsAfterDrop ==
  ASSUME GapTypes, GapInd, NEW p \in Scripts, UNCHANGED staging,
         Reasoned' = Reasoned \cup LeftOver(p),
         batch' = [batch EXCEPT ![p] = NoRows],
         current' = [current EXCEPT ![p] = {}],
         \A q \in Scripts \ {p} : pc'[q] = pc[q]
  PROVE  GapInd'
<1>1. /\ current'[p] = {}
      /\ \A q \in Scripts \ {p} : batch'[q] = batch[q] /\ current'[q] = current[q]
  BY DEF GapTypes
<1>2. AtWork'
  BY <1>1 DEF GapInd, AtWork, Collecting
<1>3. ASSUME NEW q \in Scripts, NEW t, NEW b, q # p
      PROVE  /\ Holds(q, t, b)' <=> Holds(q, t, b)
             /\ WillInsert(q, t, b) => WillInsert(q, t, b)'
  BY <1>1, <1>3 DEF Holds, WillInsert, RowsOf, Staged
<1>4. BelowIsDone'
  <2> SUFFICES ASSUME NEW q \in Scripts, NEW t \in Symbols, NEW y \in Bars, NEW b \in Bars,
                      Holds(q, t, y)', b < y, ~Holds(q, t, b)'
               PROVE  <<t, b>> \in Reasoned' \/ (pc'[q] = "backfill" /\ b \in Staged(t)')
    BY DEF BelowIsDone
  <2>1. q # p
    BY <1>1 DEF Holds
  <2>2. Holds(q, t, y) /\ ~Holds(q, t, b)
    BY <1>3, <2>1
  <2>3. <<t, b>> \in Reasoned \/ (pc[q] = "backfill" /\ b \in Staged(t))
    BY <2>2 DEF GapInd, BelowIsDone
  <2> QED BY <2>1, <2>3 DEF Staged, RowsOf
<1>5. GapsAreFilled'
  <2> SUFFICES ASSUME NEW t \in Symbols, NEW b \in Bars, b \notin Staged(t)',
                      NEW n \in Staged(t)', n > b
               PROVE  <<t, b>> \in Reasoned' \/ \E q \in Scripts : WillInsert(q, t, b)'
    BY DEF GapsAreFilled
  <2>1. b \notin Staged(t) /\ n \in Staged(t)
    BY DEF Staged, RowsOf
  <2>2. <<t, b>> \in Reasoned \/ \E q \in Scripts : WillInsert(q, t, b)
    BY <2>1 DEF GapInd, GapsAreFilled
  <2>3. WillInsert(p, t, b) => <<t, b>> \in LeftOver(p)
    BY DEF WillInsert, Holds, LeftOver
  <2> QED BY <1>3, <2>2, <2>3
<1> QED BY <1>2, <1>4, <1>5 DEF GapInd

LEMMA GapsAfterTruncate ==
  ASSUME GapTypes, GapInd, NEW p \in Scripts, Truncate(p)
  PROVE  GapInd'
<1>1. /\ pc[p] = "truncate" /\ UNCHANGED <<batch, current>>
      /\ \A q \in Scripts \ {p} : pc'[q] = pc[q]
      /\ staging' = [s \in Symbols |-> NoRows]
      /\ swept' = swept \cup UNION {{s} \X Staged(s) : s \in Backfilled}
      /\ excused' = excused
  BY DEF Truncate, End, loop, GapTypes
<1>2. current[p] = {}
  BY <1>1 DEF GapInd, AtWork, Collecting
<1>3. \A s \in Symbols : Staged(s)' = {}
  BY <1>1 DEF Staged, RowsOf, NoRows
<1>4. AtWork'
  BY <1>1, <1>2 DEF GapInd, AtWork, Collecting
<1>5. BelowIsDone'
  <2> SUFFICES ASSUME NEW q \in Scripts, NEW t \in Symbols, NEW y \in Bars, NEW b \in Bars,
                      Holds(q, t, y)', b < y, ~Holds(q, t, b)'
               PROVE  <<t, b>> \in Reasoned'
    BY DEF BelowIsDone
  <2>1. Holds(q, t, y) /\ ~Holds(q, t, b)
    BY <1>1 DEF Holds
  <2>2. <<t, b>> \in Reasoned \/ (pc[q] = "backfill" /\ b \in Staged(t))
    BY <2>1 DEF GapInd, BelowIsDone
  <2>3. CASE pc[q] = "backfill" /\ b \in Staged(t)
    <3>1. t \in Backfilled
      BY <2>1, <2>3 DEF Backfilled, Holds
    <3>2. <<t, b>> \in {t} \X Staged(t)
      BY <2>3
    <3> QED BY <1>1, <3>1, <3>2 DEF Reasoned
  <2> QED BY <1>1, <2>2, <2>3 DEF Reasoned
<1>6. GapsAreFilled'
  BY <1>3 DEF GapsAreFilled
<1> QED BY <1>4, <1>5, <1>6 DEF GapInd

(* A row is inserted, or met in the table.                                 *)
LEMMA GapsAfterInsert ==
  ASSUME GapTypes, GapInd, NEW p \in Scripts, NEW s \in Symbols, NEW y \in Bars, Insert(p, s, y)
  PROVE  GapInd'
<1> DEFINE clash == staging[s][y] # "none"
           left == IF clash /\ pc[p] = "collect" THEN NoRows
                   ELSE [batch[p] EXCEPT ![y] = "none"]
<1>1. /\ Collecting(p) /\ s \in current[p] /\ IsNext(p, y) /\ UNCHANGED <<pc, Reasoned>>
      /\ staging' = IF clash THEN staging ELSE [staging EXCEPT ![s][y] = batch[p][y]]
      /\ batch' = [batch EXCEPT ![p] = left]
      /\ current' = [current EXCEPT ![p] = IF left = NoRows THEN {} ELSE {s}]
  BY DEF Insert, place, causes, reasons, Reasoned
<1>2. current[p] = {s} /\ Holds(p, s, y) /\ batch[p][y] # "none"
  BY <1>1 DEF GapInd, AtWork, IsNext, Holds, RowsOf
<1>3. left \in [Bars -> Quality]
  BY DEF GapTypes, NoRows, Quality
<1>4. \A b \in Bars : left[b] # "none" =>
        batch[p][b] # "none" /\ b # y /\ ~(clash /\ pc[p] = "collect")
  BY DEF GapTypes, NoRows
<1>5. ~(clash /\ pc[p] = "collect") => \A b \in Bars \ {y} : left[b] = batch[p][b]
  BY DEF GapTypes
<1> HIDE DEF left
<1>6. /\ batch'[p] = left /\ current'[p] = IF left = NoRows THEN {} ELSE {s}
      /\ \A q \in Scripts \ {p} : batch'[q] = batch[q] /\ current'[q] = current[q]
  BY <1>1, <1>3 DEF GapTypes
<1>7. AtWork'
  BY <1>1, <1>6 DEF GapInd, AtWork, Collecting
<1>8. /\ y \in Staged(s)'
      /\ \A t \in Symbols : Staged(t) \subseteq Staged(t)'
      /\ \A t \in Symbols : \A b \in Staged(t)' : b \in Staged(t) \/ (t = s /\ b = y /\ ~clash)
  BY <1>1, <1>2 DEF Staged, RowsOf, GapTypes
<1>9. \A t \in Symbols, b \in Bars : Holds(p, t, b)' <=> (t = s /\ left[b] # "none")
  <2>1. left = NoRows => \A b \in Bars : left[b] = "none"
    BY DEF NoRows
  <2> QED BY <1>6, <2>1 DEF Holds, RowsOf
<1>10. \A q \in Scripts \ {p} : \A t \in Symbols, b \in Bars : Holds(q, t, b)' <=> Holds(q, t, b)
  BY <1>6 DEF Holds, RowsOf
<1>11. y \in Nat /\ \A b \in Bars : b \in Nat
  BY DEF GapTypes
<1>12. ASSUME NEW q \in Scripts, NEW t \in Symbols, NEW x \in Bars, NEW b \in Bars,
              Holds(q, t, x)', b < x, ~Holds(q, t, b)'
       PROVE  <<t, b>> \in Reasoned' \/ (pc'[q] = "backfill" /\ b \in Staged(t)')
  <2>1. CASE q # p
    <3>1. Holds(q, t, x) /\ ~Holds(q, t, b)
      BY <1>10, <1>12, <2>1
    <3>2. <<t, b>> \in Reasoned \/ (pc[q] = "backfill" /\ b \in Staged(t))
      BY <1>12, <3>1 DEF GapInd, BelowIsDone
    <3> QED BY <1>1, <1>8, <3>2
  <2>2. CASE q = p
    <3>1. /\ t = s /\ left[x] # "none" /\ batch[p][x] # "none" /\ x # y
          /\ ~(clash /\ pc[p] = "collect") /\ Holds(p, s, x)
      BY <1>2, <1>4, <1>9, <1>12, <2>2 DEF Holds, RowsOf
    <3>2. CASE b = y
      <4>1. pc[p] = "backfill"
        <5>1. pc[p] = "collect" => x <= y
          BY <1>1, <3>1 DEF IsNext, RowsOf
        <5> QED BY <1>1, <1>11, <1>12, <3>2, <5>1 DEF Collecting
      <4> QED BY <1>1, <1>8, <2>2, <3>1, <3>2, <4>1
    <3>3. CASE b # y
      <4>1. ~Holds(p, s, b)
        BY <1>5, <1>9, <1>12, <2>2, <3>1, <3>3 DEF Holds, RowsOf
      <4>2. <<s, b>> \in Reasoned \/ (pc[p] = "backfill" /\ b \in Staged(s))
        BY <1>12, <3>1, <4>1 DEF GapInd, BelowIsDone
      <4> QED BY <1>1, <1>8, <2>2, <3>1, <4>2
    <3> QED BY <3>2, <3>3
  <2> QED BY <2>1, <2>2
<1>13. BelowIsDone'
  BY <1>12 DEF BelowIsDone
\* What somebody else was to insert, he still is, unless y comes between.
<1>14. ASSUME NEW t \in Symbols, NEW b \in Bars, NEW q \in Scripts \ {p}, WillInsert(q, t, b),
              pc[q] = "backfill" \/
              \A m \in Staged(t)' \ Staged(t), z \in RowsOf(batch[q]) : m > b => z < m
       PROVE  WillInsert(q, t, b)'
  <2>1. Holds(q, t, b)' /\ pc'[q] = pc[q] /\ batch'[q] = batch[q]
    BY <1>1, <1>6, <1>10, <1>14 DEF WillInsert
  <2>2. CASE pc[q] = "backfill"
    BY <2>1, <2>2 DEF WillInsert
  <2>3. CASE pc[q] # "backfill"
    <3>1. \A m \in Staged(t)', z \in RowsOf(batch[q]) : m > b => z < m
      BY <1>14, <2>3 DEF WillInsert
    <3> QED BY <2>1, <3>1 DEF WillInsert, RowsOf
  <2> QED BY <2>2, <2>3
<1>15. ASSUME NEW t \in Symbols, NEW b \in Bars, b \notin Staged(t)', NEW n \in Staged(t)', n > b
       PROVE  <<t, b>> \in Reasoned' \/ \E q \in Scripts : WillInsert(q, t, b)'
  <2>1. b \notin Staged(t) /\ (t = s => b # y) /\ b \in Nat
    BY <1>8, <1>11, <1>15
  <2>2. CASE t # s \/ clash \/ y < b
    <3>1. n \in Staged(t) /\ \A m \in Staged(t)' \ Staged(t) : ~(m > b)
      BY <1>8, <1>11, <1>15, <2>1, <2>2 DEF Staged, RowsOf
    <3>2. <<t, b>> \in Reasoned \/ \E q \in Scripts : WillInsert(q, t, b)
      BY <1>15, <2>1, <3>1 DEF GapInd, GapsAreFilled
    <3>3. ASSUME WillInsert(p, t, b) PROVE WillInsert(p, t, b)'
      <4>1. t = s /\ batch[p][b] # "none" /\ Holds(p, s, b) /\ b # y
        BY <1>2, <2>1, <3>3 DEF WillInsert, Holds, RowsOf
      <4>2. pc[p] = "backfill"
        <5>1. SUFFICES ASSUME pc[p] = "collect" PROVE FALSE
          BY <1>1 DEF Collecting
        <5>2. b < y
          BY <1>1, <1>11, <4>1, <5>1 DEF IsNext, RowsOf
        <5>3. y \in Staged(s) /\ y \in RowsOf(batch[p])
          BY <1>1, <1>11, <2>2, <4>1, <5>2 DEF Staged, RowsOf, IsNext
        <5>4. y < y
          BY <3>3, <4>1, <5>1, <5>2, <5>3, <1>11 DEF WillInsert
        <5> QED BY <1>11, <5>4
      <4>3. left[b] # "none"
        BY <1>5, <4>1, <4>2
      <4> QED BY <1>1, <1>9, <4>1, <4>2, <4>3 DEF WillInsert
    <3>4. ASSUME NEW q \in Scripts \ {p}, WillInsert(q, t, b) PROVE WillInsert(q, t, b)'
      BY <1>14, <3>1, <3>4
    <3> QED BY <1>1, <3>2, <3>3, <3>4
  <2>3. CASE t = s /\ ~clash /\ b < y
    <3>1. CASE ~Holds(p, s, b)
      <4>1. <<s, b>> \in Reasoned \/ (pc[p] = "backfill" /\ b \in Staged(s))
        BY <1>2, <2>3, <3>1 DEF GapInd, BelowIsDone
      <4> QED BY <1>1, <2>1, <2>3, <4>1
    <3>2. CASE Holds(p, s, b)
      <4>1. pc[p] = "collect" /\ b \in RowsOf(batch[p])
        <5>1. b \in RowsOf(batch[p])
          BY <3>2 DEF Holds
        <5>2. pc[p] # "collect" => y <= b
          BY <1>1, <5>1 DEF IsNext
        <5> QED BY <1>1, <1>11, <2>1, <2>3, <5>1, <5>2 DEF Collecting
      <4>2. CASE \E m \in Staged(s) : b < m /\ m < y
        <5>1. PICK m \in Staged(s) : b < m /\ m < y
          BY <4>2
        <5>2. m \in Nat
          BY <1>11 DEF Staged, RowsOf
        <5>3. m > b
          BY <2>1, <5>1, <5>2
        <5>4. <<s, b>> \in Reasoned \/ \E q \in Scripts : WillInsert(q, s, b)
          BY <2>1, <2>3, <5>3 DEF GapInd, GapsAreFilled
        <5>5. ASSUME NEW q \in Scripts, WillInsert(q, s, b), pc[q] # "backfill",
                     NEW z \in RowsOf(batch[q])
              PROVE  z < m
          BY <5>3, <5>5 DEF WillInsert
        <5>6. ~WillInsert(p, s, b)
          <6>1. y \in RowsOf(batch[p]) /\ pc[p] # "backfill"
            BY <1>1, <4>1 DEF IsNext
          <6> QED BY <1>11, <5>1, <5>2, <5>5, <6>1
        <5>7. ASSUME NEW q \in Scripts \ {p}, WillInsert(q, s, b) PROVE WillInsert(q, s, b)'
          <6>1. ASSUME pc[q] # "backfill", NEW x \in Staged(s)' \ Staged(s),
                       NEW z \in RowsOf(batch[q])
                PROVE  z < x
            <7>1. x = y
              BY <1>8, <6>1
            <7>2. z < m /\ z \in Nat
              BY <1>11, <5>5, <5>7, <6>1 DEF RowsOf
            <7> QED BY <1>11, <5>1, <5>2, <7>1, <7>2
          <6> QED BY <1>14, <5>7, <6>1
        <5> QED BY <1>1, <2>3, <5>4, <5>6, <5>7
      <4>3. CASE ~ \E m \in Staged(s) : b < m /\ m < y
        <5>1. left[b] # "none" /\ Holds(p, s, b)'
          <6>1. left[b] = batch[p][b] /\ batch[p][b] # "none"
            BY <1>5, <2>1, <2>3, <4>1 DEF RowsOf
          <6> QED BY <1>9, <6>1
        <5>2. ASSUME NEW m \in Staged(s)', NEW z \in RowsOf(batch'[p]), m > b PROVE z < m
          <6>1. z \in Nat /\ z < y
            <7>1. z \in Bars /\ batch[p][z] # "none" /\ z # y
              BY <1>4, <1>6, <5>2 DEF RowsOf
            <7>2. z <= y
              BY <1>1, <4>1, <7>1 DEF IsNext, RowsOf
            <7> QED BY <1>11, <7>1, <7>2
          <6>2. m \in Nat /\ (m = y \/ m \in Staged(s))
            BY <1>8, <1>11, <5>2 DEF Staged, RowsOf
          <6>3. y <= m
            BY <1>11, <2>1, <4>3, <5>2, <6>2
          <6> QED BY <1>11, <6>1, <6>2, <6>3
        <5> QED BY <2>3, <5>1, <5>2 DEF WillInsert
      <4> QED BY <4>2, <4>3
    <3> QED BY <3>1, <3>2
  <2> QED BY <1>11, <2>1, <2>2, <2>3
<1>16. GapsAreFilled'
  BY <1>15 DEF GapsAreFilled
<1> QED BY <1>7, <1>13, <1>16 DEF GapInd

LEMMA GapsKept == MarketInd0 /\ GapInd /\ [Next]_vars => GapInd'
<1> SUFFICES ASSUME MarketInd0, GapInd, [Next]_vars PROVE GapInd'
  OBVIOUS
<1>1. GapTypes /\ \A p \in Scripts : upto[p] \in 0 .. NumBars
  BY GapTypesHold DEF MarketInd0, MarketTypeOK, BarTypeOK
<1>2. ASSUME UNCHANGED <<staging, batch, current, Reasoned>>, NEW p \in Scripts, NEW stage,
             pc' = [pc EXCEPT ![p] = stage] \/ pc' = pc, current[p] = {}
      PROVE  GapInd'
  <2>1. \A q \in Scripts : current[q] # {} => pc'[q] = pc[q]
    BY <1>1, <1>2 DEF GapTypes
  <2> QED BY <1>2, <2>1, GapsStay
<1>3. ASSUME NEW p \in Scripts, ~Collecting(p) PROVE current[p] = {}
  BY <1>3 DEF GapInd, AtWork
<1>4. ASSUME NEW p \in Scripts, Collect(p) PROVE GapInd'
  <2>1. ASSUME NEW s \in Symbols, Fetch(p, s) PROVE GapInd'
    BY <1>1, <2>1, GapsAfterFetch
  <2>2. ASSUME NEW s \in Symbols, FetchFails(p, s) PROVE GapInd'
    BY <2>2, GapsStay DEF FetchFails, place, reasons, Reasoned
  <2>3. ASSUME NEW s \in Symbols, NEW b \in Bars, Insert(p, s, b) PROVE GapInd'
    BY <1>1, <2>3, GapsAfterInsert
  <2>4. CASE InsertFails(p)
    <3>1. Reasoned' = Reasoned \cup LeftOver(p)
      BY <2>4 DEF InsertFails, Reasoned
    <3> QED BY <1>1, <2>4, <3>1, GapsAfterDrop DEF InsertFails, place
  <2> QED BY <1>4, <2>1, <2>2, <2>3, <2>4 DEF Collect
<1>5. ASSUME NEW p \in Scripts, Fail(p) PROVE GapInd'
  <2>1. \A q \in Scripts \ {p} : pc'[q] = pc[q]
    BY <1>1, <1>5 DEF Fail, Halt, End, GapTypes
  <2>2. Reasoned' = Reasoned \cup LeftOver(p)
    BY <1>5 DEF Fail, Halt, Reasoned
  <2> QED BY <1>1, <1>5, <2>1, <2>2, GapsAfterDrop DEF Fail, Halt
<1>6. ASSUME NEW p \in Scripts, Clear(p) PROVE GapInd'
  BY <1>1, <1>6, GapsAfterTruncate DEF Clear
<1>7. ASSUME NEW p \in Scripts, \/ StartPipeline(p) \/ StartCatchup(p) \/ StartOperations(p)
                                \/ StartRepair(p)
      PROVE  GapInd'
  <2>1. UNCHANGED <<staging, batch, current, Reasoned>> /\ job[p] = "none"
    BY <1>7 DEF StartPipeline, StartCatchup, StartOperations, StartRepair, BeginCollect, Begin,
                causes, reasons, Reasoned
  <2>2. pc[p] = "idle"
    BY <2>1 DEF MarketInd0, MarketTypeOK
  <2>3. current[p] = {}
    BY <1>3, <2>2 DEF Collecting
  <2>4. \E stage : pc' = [pc EXCEPT ![p] = stage]
    BY <1>7 DEF StartPipeline, StartCatchup, StartOperations, StartRepair, BeginCollect, Begin
  <2> QED BY <1>2, <2>1, <2>3, <2>4
<1>8. ASSUME NEW p \in Scripts, Export(p) PROVE GapInd'
  <2>1. UNCHANGED <<staging, batch, current, Reasoned>>
    BY <1>8 DEF Export, ExportTo, causes, reasons, Reasoned
  <2>2. current[p] = {}
    BY <1>3, <1>8 DEF Export, ExportTo, Collected, Collecting
  <2>3. \E stage : pc' = [pc EXCEPT ![p] = stage]
    BY <1>8 DEF Export, ExportTo, End, GoOn
  <2> QED BY <1>2, <2>1, <2>2, <2>3
<1>9. ASSUME NEW p \in Scripts, \/ GateCloses(p) \/ Aggregate(p) \/ WriteMarker(p)
                                \/ AggregateDay(p) \/ AggregateNothing(p) \/ Recheck(p)
                                \/ ExportParquet(p)
      PROVE  GapInd'
  <2>1. UNCHANGED <<staging, batch, current, Reasoned>>
    BY <1>9 DEF GateCloses, Aggregate, WriteMarker, AggregateDay, AggregateNothing, Recheck,
                ExportParquet, inputs, loop, causes, reasons, Reasoned
  <2>2. current[p] = {}
    BY <1>3, <1>9 DEF GateCloses, Aggregate, WriteMarker, AggregateDay, AggregateNothing,
                      Recheck, ExportParquet, Collecting
  <2>3. \E stage : pc' = [pc EXCEPT ![p] = stage]
    BY <1>9 DEF GateCloses, Aggregate, WriteMarker, AggregateDay, AggregateNothing, Recheck,
                ExportParquet, End, GoOn
  <2> QED BY <1>2, <2>1, <2>2, <2>3
<1>10. CASE Feed \/ UNCHANGED vars
  <2>1. UNCHANGED <<staging, batch, current, Reasoned, pc>>
    BY <1>10 DEF Feed, Tick, Misprint, Correct, vars, barVars, place, loop, causes, reasons,
                 Reasoned
  <2> QED BY <2>1, GapsStay
<1> QED BY <1>4, <1>5, <1>6, <1>7, <1>8, <1>9, <1>10 DEF Next, Step

\* GapHasCause: for any number of collectors and bars, in whatever order they
\* fetch, insert, meet each other's rows, fail and are killed, and whenever
\* the table is truncated, a bar missing below a staged one has its reason.
THEOREM GapAlwaysHasCause == Spec => []GapHasCause
<1>1. Init => MarketInd0 /\ GapInd
  BY MarketInitially0, GapInitially
<1>2. MarketInd0 /\ GapInd /\ [Next]_vars => (MarketInd0 /\ GapInd)'
  BY MarketStep0, GapsKept
<1>3. GapInd => GapHasCause
  <2> SUFFICES ASSUME GapInd, NEW s \in Symbols, NEW b \in Bars \ Staged(s),
                      NEW n \in Staged(s), n > b
               PROVE  <<s, b>> \in excused \cup swept
                      \/ \E p \in Scripts : s \in current[p] /\ batch[p][b] # "none"
    BY DEF GapHasCause
  <2>1. <<s, b>> \in Reasoned \/ \E p \in Scripts : WillInsert(p, s, b)
    BY DEF GapInd, GapsAreFilled
  <2> QED BY <2>1 DEF WillInsert, Holds, RowsOf, Reasoned
<1> QED BY <1>1, <1>2, <1>3, PTL DEF Spec
=============================================================================
