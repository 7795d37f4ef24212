--------------------------- MODULE TrainingSplits ---------------------------
(***************************************************************************)
(* Which rows the training script learns from and which it is judged by:   *)
(* walk-forward folds (evaluate_experiment), the last block held out of a  *)
(* refresh (evaluate_last_block_holdout), the replay of one day cutoff by  *)
(* cutoff (replay_intraday) and the simulation of one day of warm          *)
(* refreshes (simulate_warm_refresh).  A row is one bar of one symbol; its *)
(* label is the symbol's next session, bar by bar, and is missing when     *)
(* there is none or when that session is incomplete.                       *)
(* The base model that a simulation starts from is left out of "learnt".   *)
(***************************************************************************)
EXTENDS Integers, FiniteSets, FiniteSetsExt

CONSTANTS Tickers,
          Steady,      \* bound: symbols with a complete session every day
          NumDays,     \* bound: dates in the table
          NumSlots,    \* bars of a complete session, 26 in the code
          NumFolds, Block,   \* --n-folds and --test-block-days
          MinStart,    \* dates the first fold trains on at least, 20 in the code
          RefreshDays, WarmDays,   \* --refresh-days and --warm-refresh-days
          MinRows      \* rows a warm refresh needs, 10 in the code

ASSUME SplitsAssumption == /\ Steady \subseteq Tickers
                           /\ {NumDays, NumSlots, Block, MinStart} \subseteq Nat \ {0}
                           /\ NumFolds \in Nat \ {0, 1}

VARIABLES
  sessions,  \* how many bars of each symbol and date the table has
  job,       \* which of the four is done
  day,       \* the date replayed or simulated
  step,      \* folds, or cutoffs, done
  learnt,    \* the rows the model in use was fitted to, its ancestors' too
  asked      \* the rows it is now asked about

splitsVars == <<sessions, job, day, step, learnt, asked>>

Days == 1 .. NumDays
Slots == 0 .. NumSlots - 1
Rows == [symbol : Tickers, day : Days, slot : Slots]
Jobs == {"cv", "holdout", "replay", "simulate"}

SplitsTypeOK == /\ sessions \in [Tickers -> [Days -> 0 .. NumSlots]]
                /\ job \in Jobs
                /\ day \in Days
                /\ step \in 0 .. NumFolds + NumSlots
                /\ learnt \in SUBSET Rows
                /\ asked \in SUBSET Rows

SplitsInit ==
  /\ sessions \in {se \in [Tickers -> [Days -> 0 .. NumSlots]] :
                     \A s \in Steady, d \in Days : se[s][d] = NumSlots}
  /\ job \in Jobs
  /\ day \in IF job \in {"cv", "holdout"} THEN {NumDays} ELSE Days
  /\ step = 0
  /\ learnt = {}
  /\ asked = {}
----------------------------------------------------------------------------
\* build_next_session_targets(): the next date that has any bar of the symbol.
LaterDays(s, d, end) == {e \in d + 1 .. end : sessions[s][e] > 0}

HasLabel(s, d, end) ==
  /\ LaterDays(s, d, end) # {}
  /\ sessions[s][Min(LaterDays(s, d, end))] = NumSlots

LabelDay(row) == Min(LaterDays(row.symbol, row.day, NumDays))

\* The labelled rows of a table that is loaded up to a date.
Ready(end) == {r \in Rows : /\ r.day <= end
                            /\ r.slot < sessions[r.symbol][r.day]
                            /\ HasLabel(r.symbol, r.day, end)}

DatesOf(rows) == {r.day : r \in rows}
Recent(rows, n) ==
  {r \in rows : Cardinality({d \in DatesOf(rows) : d > r.day}) < n}

\* The rows of the i-th to the j-th date, counted from 0, as in dates[i:j].
Between(rows, i, j) ==
  {r \in rows : Cardinality({d \in DatesOf(rows) : d < r.day}) \in i .. j - 1}

\* walkforward_folds(): the index its k-th test block starts at.
FirstStart(n) == Max({n \div 2, MinStart})

LastStart(n) == n - Block
TestStart(n, k) ==
  FirstStart(n) + (k * (LastStart(n) - FirstStart(n))) \div (NumFolds - 1)
HasFolds(n) == n >= NumFolds + Block + 2 /\ LastStart(n) > FirstStart(n)

\* Mutant of TrainRows: the first date of the test block is trained on.
TrainRowsToo(rows, start) == Between(rows, 0, start + 1)

TrainRows(rows, start) == Between(rows, 0, start)
TestRows(rows, start) == Between(rows, start, start + Block)
----------------------------------------------------------------------------
Folds == LET n == Cardinality(DatesOf(Ready(NumDays)))
         IN [k \in 0 .. NumFolds - 1 |-> TestStart(n, k)]

TestFold ==
  LET rows == Ready(NumDays)
  IN /\ job = "cv"
     /\ HasFolds(Cardinality(DatesOf(rows)))
     /\ step < NumFolds
     /\ learnt' = TrainRows(rows, Folds[step])
     /\ asked' = TestRows(rows, Folds[step])
     /\ step' = step + 1
     /\ UNCHANGED <<sessions, job, day>>

\* The last of the recent dates that a refresh, or a warm one, trains on.
TestHoldout(recent) ==
  LET rows == Recent(Ready(NumDays), recent)
      start == Cardinality(DatesOf(rows)) - Block
  IN /\ job = "holdout"
     /\ start > 0
     /\ step = 0
     /\ learnt' = TrainRows(rows, start)
     /\ asked' = TestRows(rows, start)
     /\ step' = 1
     /\ UNCHANGED <<sessions, job, day>>

\* resolve_replay_dates(): the first of the days its labels are of.
ReplayRows == {r \in Ready(NumDays) : r.day = day}
TruthDay == Min({LabelDay(r) : r \in ReplayRows})
Replayed == {r \in ReplayRows : LabelDay(r) = TruthDay}
History == {r \in Ready(NumDays) : r.day < day}

(* One cutoff of replay_intraday(): the static base, and a refresh on the  *)
(* slots up to the cutoff.  A refresh that fails leaves the last that did  *)
(* not in use.  "learnt" is what the two tracks have learnt together.      *)
ReplayStep(fits) ==
  /\ job = "replay"
  /\ History # {}
  /\ \A k \in Slots : \E r \in ReplayRows : r.slot = k
  /\ step < NumSlots
  /\ learnt' = History \cup
       IF fits THEN Recent({r \in History : r.slot <= step}, RefreshDays) ELSE learnt
  /\ asked' = {r \in Replayed : r.slot = step}
  /\ step' = step + 1
  /\ UNCHANGED <<sessions, job, day>>

(* One bar of simulate_warm_refresh(): the table is loaded up to the day,  *)
(* the rows up to the bar are learnt on top of the model of the bar before.*)
SimulateStep ==
  LET rows == Recent({r \in Ready(day) : r.day < day \/ r.slot <= step}, WarmDays)
  IN /\ job = "simulate"
     /\ step < NumSlots
     /\ IF Cardinality(rows) < MinRows
        THEN UNCHANGED learnt /\ asked' = {}
        ELSE /\ learnt' = learnt \cup rows
             /\ asked' = {r \in Rows : /\ r.day = day /\ r.slot = step
                                       /\ r.slot < sessions[r.symbol][day]}
     /\ step' = step + 1
     /\ UNCHANGED <<sessions, job, day>>

SplitsNext == \/ TestFold \/ SimulateStep
              \/ \E recent \in {RefreshDays, WarmDays} : TestHoldout(recent)
              \/ \E fits \in BOOLEAN : ReplayStep(fits)

SplitsSpec == SplitsInit /\ [][SplitsNext]_splitsVars
----------------------------------------------------------------------------
\* No model has learnt, of a symbol, a session that lies after the date of a
\* row it is asked about, and so never the answer itself, whatever sessions
\* the symbol misses.  It may have learnt the session of that very date: the
\* label of the row before, all its bars, those after the cutoff included.
LearntBeforeAsked ==
  \A r \in learnt, a \in asked :
    r.symbol = a.symbol => r # a /\ LabelDay(r) <= a.day
=============================================================================
