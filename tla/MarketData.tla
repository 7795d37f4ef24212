----------------------------- MODULE MarketData -----------------------------
(***************************************************************************)
(* The scripts that turn five-minute bars into the 15-minute windows of    *)
(* dw.market_data_15m, the freshness marker of the intraday DAGs and the   *)
(* training snapshot: run_15min_pipeline.py (started by cron and by a      *)
(* DAG), run_scheduled_operations.py, the catch-up task of the post-market *)
(* DAG, and the coverage repair and export of the nightly DAGs.            *)
(***************************************************************************)
EXTENDS BarCollection

CONSTANTS WindowSize,  \* bars of a window
          Required,    \* symbols whose last bar a window needs
          MinComplete, \* symbols with every window a covered day needs
          NoFile

ASSUME MarketAssumption == /\ WindowSize \in Nat \ {0}
                           /\ NumBars % WindowSize = 0
                           /\ Required \in Nat \ {0}
                           /\ MinComplete \in Nat

VARIABLES
  window,      \* the window a pipeline run works for
  dw,          \* dw.market_data_15m: bars of a window, and its lag
  marker,      \* intraday_data_freshness.json, 0 when there is none
  snapshot,    \* snapshot_<date>.parquet: the windows of each symbol in it
  backfilled,  \* the XCom backfill_performed
  shipped,     \* history: how the last nightly export came by its snapshot
  disordered   \* history: a pipeline aggregated behind a later window

files == <<marker, snapshot, backfilled, shipped>>
dwVars == <<window, dw, disordered, files>>
vars == <<barVars, dwVars>>

\* What a step leaves alone that only moves a script on.
inputs == <<market, staging, core, loop, fresh, causes>>

Windows == 1 .. NumBars \div WindowSize
BarsOf(w) == (w - 1) * WindowSize + 1 .. w * WindowSize
Largest(S) == CHOOSE x \in S : \A y \in S : x >= y
Snapshots == [Symbols -> SUBSET Windows]

ASSUME NoFileAssumption == NoFile \notin Snapshots

\* Symbols that have a row for window w, and those that have all rows.
Present(w) == {s \in Symbols : dw[s][w].bars # {}}
Complete == {s \in Symbols : \A w \in Windows : s \in Present(w)}

\* _load_training_coverage(): a window counts however few bars it has.
Covered == Cardinality(Complete) >= MinComplete

Stages == {"idle", "collect", "backfill", "export", "truncate", "gate", "mark",
           "day", "recheck", "snapshot"}

MarketTypeOK ==
  /\ BarTypeOK
  /\ pc \in [Scripts -> Stages]
  /\ \A p \in Scripts : job[p] = "none" <=> pc[p] = "idle"
  /\ window \in [Scripts -> Windows \cup {0}]
  /\ \A p \in Scripts : job[p] = "pipeline" <=> window[p] # 0
  /\ dw \in [Symbols -> [Windows -> [bars : SUBSET Bars, lag : Bars \cup {0}]]]
  /\ marker \in Windows \cup {0}
  /\ snapshot \in Snapshots \cup {NoFile}
  /\ backfilled \in [Scripts -> BOOLEAN]
  /\ shipped \in {"no", "own", "reused"}
  /\ disordered \in BOOLEAN

Init == /\ BarInit
        /\ window = [p \in Scripts |-> 0]
        /\ dw = [s \in Symbols |-> [w \in Windows |-> [bars |-> {}, lag |-> 0]]]
        /\ marker = 0
        /\ snapshot = NoFile
        /\ backfilled = [p \in Scripts |-> FALSE]
        /\ shipped = "no"
        /\ disordered = FALSE

Feed == /\ \/ Tick
           \/ \E s \in Symbols, q \in {"none", "bad"} : Misprint(s, q)
           \/ \E s \in Symbols, b \in Bars : Correct(s, b)
        /\ UNCHANGED dwVars
----------------------------------------------------------------------------
\* Mutant of StartPipeline: a window is taken before the first has closed.
StartPipelineEarly(p) ==
  /\ clock \in 1 .. NumBars - 1
  /\ BeginCollect(p, "pipeline", "collect")
  /\ upto' = [upto EXCEPT ![p] = clock]
  /\ window' = [window EXCEPT ![p] = clock \div WindowSize]
  /\ UNCHANGED <<market, staging, core, current, batch, fresh, causes, dw, files,
                 disordered>>

(* Starts.  compute_last_closed_rth_window_start_utc(): the session is     *)
(* open up to the minute of its close, so the last window, which closes    *)
(* with it, is never a pipeline's.  Cron starts a pipeline whether or not  *)
(* the marker covers its window; the DAG looks at the marker first.        *)
StartPipeline(p) ==
  /\ clock \in WindowSize .. NumBars - 1
  /\ BeginCollect(p, "pipeline", "collect")
  /\ upto' = [upto EXCEPT ![p] = clock]
  /\ window' = [window EXCEPT ![p] = clock \div WindowSize]
  /\ UNCHANGED <<market, staging, core, current, batch, fresh, causes, dw, files,
                 disordered>>

\* task_catchup_today_data(), on the trading day itself.
StartCatchup(p) ==
  /\ clock \in 1 .. NumBars
  /\ BeginCollect(p, "catchup", "collect")
  /\ upto' = [upto EXCEPT ![p] = clock]
  /\ UNCHANGED <<market, staging, core, current, batch, fresh, causes, dwVars>>

(* run_scheduled_operations.py exports, whatever the time; whether it      *)
(* truncates after that is decided here, by the close of today's session.  *)
StartOperations(p) ==
  /\ clock >= 1
  /\ Begin(p, "operations", "export")
  /\ upto' = [upto EXCEPT ![p] = IF clock = NumBars THEN NumBars ELSE 0]
  /\ UNCHANGED <<market, staging, core, todo, current, batch, fresh, causes, dwVars>>

(* task_ensure_training_db_coverage() of the nightly DAGs; gather_past_data *)
(* takes only days that are over.  Starting a task clears its XComs.        *)
StartRepair(p) ==
  /\ clock = NumBars + 1
  /\ IF Covered
     THEN Begin(p, "repair", "snapshot") /\ UNCHANGED <<todo, upto>>
     ELSE /\ BeginCollect(p, "repair", "backfill")
          /\ upto' = [upto EXCEPT ![p] = NumBars]
  /\ backfilled' = [backfilled EXCEPT ![p] = FALSE]
  /\ shipped' = "no"
  /\ UNCHANGED <<market, staging, core, current, batch, fresh, causes, window, dw,
                 marker, snapshot, disordered>>

Collect(p) ==
  /\ \/ \E s \in Symbols : Fetch(p, s) \/ FetchFails(p, s)
     \/ \E s \in Symbols, b \in Bars : Insert(p, s, b)
     \/ InsertFails(p)
  /\ UNCHANGED dwVars

AfterExport(p) == CASE job[p] = "pipeline" -> "gate"
                    [] job[p] = "operations" ->
                         IF upto[p] > 0 THEN "truncate" ELSE "end"
                    [] OTHER -> "day"

Export(p) == ExportTo(p, AfterExport(p)) /\ UNCHANGED dwVars

(* Any step may fail, or its process be killed: what it has committed      *)
(* stays, and the script ends.                                             *)
Fail(p) == /\ job[p] # "none"
           /\ Halt(p)
           /\ window' = [window EXCEPT ![p] = 0]
           /\ UNCHANGED <<dw, disordered, files>>

Clear(p) == Truncate(p) /\ UNCHANGED dwVars
----------------------------------------------------------------------------
(* dw.process_15min_window(), for the symbols in ingestion_progress: the   *)
(* row of a window from the bars there are, and its lag: the close of the  *)
(* newest earlier row, as it is now.  The close of a row is its last bar.  *)

CloseOf(row) == IF row.bars = {} THEN 0 ELSE Largest(row.bars)
Earlier(rows, w) == {v \in Windows : v < w /\ rows[v].bars # {}}
LagAt(rows, w) == IF Earlier(rows, w) = {} THEN 0
                  ELSE CloseOf(rows[Largest(Earlier(rows, w))])

\* The bars the procedure sees.
Input(s, w) == IF s \in listed THEN core[s] \cap BarsOf(w) ELSE {}

Processed(s, rows, w) ==
  LET bars == Input(s, w)
  IN IF bars = {} THEN rows
     ELSE [rows EXCEPT ![w] = [bars |-> bars, lag |-> LagAt(rows, w)]]

\* Mutant of ProcessedDay: newest window first.
ProcessedDayDown(s) ==
  [w \in Windows |-> IF Input(s, w) = {} THEN dw[s][w]
                     ELSE [bars |-> Input(s, w), lag |-> LagAt(dw[s], w)]]

(* All windows, oldest first as _iter_backfill_slots_utc gives them: each  *)
(* lag is taken from rows that have been processed before.                 *)
ProcessedDay(s) ==
  LET rows == [w \in Windows |-> IF Input(s, w) = {} THEN dw[s][w]
                                 ELSE [dw[s][w] EXCEPT !.bars = Input(s, w)]]
  IN [w \in Windows |-> IF Input(s, w) = {} THEN rows[w]
                        ELSE [rows[w] EXCEPT !.lag = LagAt(rows, w)]]

LagsTrue(s) == \A w \in Windows : dw[s][w].bars # {} => dw[s][w].lag = LagAt(dw[s], w)

\* Mutant of LastBarSymbols: any bar of the window will do.
AnyBarSymbols(w) == {s \in Symbols : core[s] \cap BarsOf(w) # {}}

\* check_latest_5m_bar(): how many symbols have the last bar of the window,
\* whether or not ingestion_progress lists them.
LastBarSymbols(w) == {s \in Symbols : w * WindowSize \in core[s]}
GateOpen(w) == Cardinality(LastBarSymbols(w)) >= Required

GateCloses(p) ==
  /\ pc[p] = "gate"
  /\ ~GateOpen(window[p])
  /\ End(p)
  /\ window' = [window EXCEPT ![p] = 0]
  /\ UNCHANGED <<inputs, dw, disordered, files>>

Aggregate(p) ==
  /\ pc[p] = "gate"
  /\ GateOpen(window[p])
  /\ GoOn(p, "mark")
  /\ dw' = [s \in Symbols |-> Processed(s, dw[s], window[p])]
  /\ disordered' = (disordered \/ \E w \in Windows : w > window[p] /\ Present(w) # {})
  /\ UNCHANGED <<inputs, window, files>>

WriteMarker(p) ==
  /\ pc[p] = "mark"
  /\ End(p)
  /\ marker' = window[p]
  /\ window' = [window EXCEPT ![p] = 0]
  /\ UNCHANGED <<inputs, dw, disordered, snapshot, backfilled, shipped>>

\* Every window of the day, in one transaction.
AggregateDay(p) ==
  /\ pc[p] = "day"
  /\ GoOn(p, IF job[p] = "repair" THEN "recheck" ELSE "snapshot")
  /\ dw' = [s \in Symbols |-> ProcessedDay(s)]
  /\ disordered' = FALSE
  /\ UNCHANGED <<inputs, window, files>>

(* The catch-up's loop passes over a failed CALL, which has aborted the    *)
(* transaction: nothing is aggregated, and the task reports success.       *)
AggregateNothing(p) ==
  /\ pc[p] = "day"
  /\ job[p] = "catchup"
  /\ Fault
  /\ GoOn(p, "snapshot")
  /\ UNCHANGED <<market, staging, core, loop, fresh, reasons, dwVars>>
----------------------------------------------------------------------------
\* Mutant of Recheck: the coverage is not read again after the repair.
TrustRepair(p) ==
  /\ pc[p] = "recheck"
  /\ GoOn(p, "snapshot")
  /\ backfilled' = [backfilled EXCEPT ![p] = TRUE]
  /\ UNCHANGED <<inputs, window, dw, disordered, marker, snapshot, shipped>>

(* The coverage once more: a gap that is still there fails the task.       *)
Recheck(p) ==
  /\ pc[p] = "recheck"
  /\ IF Covered
     THEN GoOn(p, "snapshot") /\ backfilled' = [backfilled EXCEPT ![p] = TRUE]
     ELSE End(p) /\ UNCHANGED backfilled
  /\ UNCHANGED <<inputs, window, dw, disordered, marker, snapshot, shipped>>

Table == [s \in Symbols |-> {w \in Windows : s \in Present(w)}]

(* task_export_parquet() and task_sync_parquet(): the nightly DAGs send a  *)
(* snapshot that is there, unless this run's repair changed the database;  *)
(* the catch-up's export always rebuilds it.                               *)
ExportParquet(p) ==
  /\ pc[p] = "snapshot"
  /\ End(p)
  /\ LET reuse == job[p] = "repair" /\ snapshot # NoFile /\ ~backfilled[p]
     IN /\ snapshot' = IF reuse THEN snapshot ELSE Table
        /\ shipped' = IF job[p] # "repair" THEN shipped
                      ELSE IF reuse THEN "reused" ELSE "own"
  /\ UNCHANGED <<inputs, window, dw, disordered, marker, backfilled>>

Step(p) == \/ StartPipeline(p) \/ StartCatchup(p) \/ StartOperations(p) \/ StartRepair(p)
           \/ Collect(p) \/ Export(p) \/ Fail(p) \/ Clear(p)
           \/ GateCloses(p) \/ Aggregate(p) \/ WriteMarker(p)
           \/ AggregateDay(p) \/ AggregateNothing(p) \/ Recheck(p)
           \/ ExportParquet(p)

Next == Feed \/ \E p \in Scripts : Step(p)

Spec == Init /\ [][Next]_vars
----------------------------------------------------------------------------
\* What the freshness marker is worth: of the symbols whose last bar opened the
\* gate, those that ingestion_progress lists have a row of the marker's window
\* with that bar in it.  The others were counted and have none.  (The gate of
\* check_latest_5m_bar, then the aggregation, then write_freshness_marker; other
\* scripts in between.)
MarkerVouches ==
  LET there == {s \in Symbols : marker * WindowSize \in dw[s][marker].bars}
  IN marker # 0 => Cardinality(there \cup (Symbols \ listed)) >= Required

\* Every lag is the close of the row before, as long as no pipeline run has
\* aggregated its window behind a later one since the day was last rebuilt:
\* a window that arrives late leaves the lags after it stale.
LagsTrueInOrder == ~disordered => \A s \in Symbols : LagsTrue(s)

\* A nightly run that built its snapshot itself has one with the coverage it
\* checked; only a file that another run left can be short of it.
ShippedIsCovered == shipped = "own" =>
  Cardinality({s \in Symbols : snapshot[s] = Windows}) >= MinComplete

\* The truncation takes away only rows that have been exported, and rows
\* that came after the export of the same run.
TruncateSpares ==
  [][\A p \in Scripts : Clear(p) =>
       \A s \in Symbols : \A b \in GoodStaged(s) :
         b \in core[s] \/ <<s, b>> \in fresh[p]]_vars
=============================================================================
