----------------------------- MODULE FeatureRows -----------------------------
(***************************************************************************)
(* Which bars of ml.market_data_15m the features of a row are made of: in  *)
(* the training script, which loads a span of dates, and in the backend,   *)
(* which loads a number of rows.  The table of one symbol fills up bar by  *)
(* bar meanwhile.  Which bars a feature is made of is compared, not its    *)
(* value: the training script also clips outliers at quantiles of whatever *)
(* table it has, which the backend does not, and keeps a missing value     *)
(* missing, for which the backend puts zero.                               *)
(***************************************************************************)
EXTENDS Integers, FiniteSets, FiniteSetsExt

CONSTANTS TableDays,    \* bound: trading days
          SessionBars,  \* bars of a complete session, 26 in the code
          RollDays,     \* the longest rolling window, 60 in the code
          ServeDays,    \* the backend's history, 75 in the code
          TrainDays,    \* --base-window-months, in trading days
          PredictDays,  \* the ten days of the mode predict
          Oddities      \* bound: bars that are missing or provisional at first

ASSUME FeaturesAssumption ==
  /\ {TableDays, SessionBars, RollDays, ServeDays, TrainDays, PredictDays} \subseteq Nat \ {0}
  /\ ServeDays > RollDays
  /\ Oddities \in Nat

VARIABLES
  table,   \* each bar: "none", "provisional" or "final"
  closed,  \* how many bars are over
  odd,     \* how many of them were not final at first
  vector,  \* the newest answer: its row, the row's features, the bars loaded
  late     \* history: a bar below the newest was filled in since the answer

featureVars == <<table, closed, odd, vector, late>>

\* Bars are numbered in the order of their time, whatever their day.
TableBars == 0 .. TableDays * SessionBars - 1
DayOf(n) == n \div SessionBars
InTable == {n \in TableBars : table[n] # "none"}
Settled(load) == \A n \in load : table[n] = "final"

FeatureTypeOK ==
  /\ table \in [TableBars -> {"none", "provisional", "final"}]
  /\ closed \in 0 .. TableDays * SessionBars
  /\ odd \in 0 .. Oddities
  /\ late \in BOOLEAN
  /\ vector.row \in TableBars \cup {-1}
  /\ vector.loaded \in SUBSET TableBars
  /\ vector.settled \in BOOLEAN
  /\ vector.features \in [slot : 0 .. SessionBars - 1, seen : SUBSET TableBars,
                          window : SUBSET TableBars]

FeatureInit ==
  /\ table = [n \in TableBars |-> "none"]
  /\ closed = 0
  /\ odd = 0
  /\ vector = [row |-> -1, loaded |-> {}, settled |-> FALSE,
               features |-> [slot |-> 0, seen |-> {}, window |-> {}]]
  /\ late = FALSE
----------------------------------------------------------------------------
(* The features of row n in the table that was loaded.  slot_idx counts    *)
(* the bars of the day that are there, so a missing bar moves those behind *)
(* it; the running values go over the bars of the day up to n; the rolling *)
(* ones over the newest days that have a bar of the same slot_idx, and     *)
(* they are missing when there are fewer than two.                         *)

Slot(load, n) == Cardinality({m \in load : DayOf(m) = DayOf(n) /\ m < n})

NewestOf(S, k) == {m \in S : Cardinality({x \in S : x > m}) < k}
Rolling(S) == IF Cardinality(S) < 2 THEN {} ELSE S

FeaturesOf(load, n) ==
  LET peers == {m \in load : m <= n /\ Slot(load, m) = Slot(load, n)}
  IN [slot   |-> Slot(load, n),
      seen   |-> {m \in load : DayOf(m) = DayOf(n) /\ m <= n},
      window |-> Rolling(NewestOf(peers, RollDays))]

\* The rows of the newest dates, or those of them that are not provisional.
RecentDays(load, days) ==
  {n \in load : DayOf(n) > DayOf(Max(load)) - days}

TrainLoad == LET final == {n \in InTable : table[n] = "final"}
             IN RecentDays(final, TrainDays)
PredictLoad == RecentDays(InTable, PredictDays)

\* Mutant of ServeLoad: as many rows as days.
ServeLoadDays == NewestOf(InTable, ServeDays)

\* get_recent_inference_bars(): the newest rows, whatever their status.
ServeLoad == NewestOf(InTable, ServeDays * SessionBars)
----------------------------------------------------------------------------
Arrive(status) ==
  /\ closed < TableDays * SessionBars
  /\ status # "final" => odd < Oddities
  /\ table' = [table EXCEPT ![closed] = status]
  /\ closed' = closed + 1
  /\ odd' = IF status = "final" THEN odd ELSE odd + 1
  /\ UNCHANGED <<vector, late>>

Finalise(n) == /\ table[n] = "provisional"
               /\ table' = [table EXCEPT ![n] = "final"]
               /\ UNCHANGED <<closed, odd, vector, late>>

FillIn(n) == /\ n < closed
             /\ table[n] = "none"
             /\ table' = [table EXCEPT ![n] = "final"]
             /\ late' = TRUE
             /\ UNCHANGED <<closed, odd, vector>>

AnswerFrom(load) ==
  /\ InTable # {}
  /\ vector' = [row |-> Max(load), loaded |-> load, settled |-> Settled(load),
                features |-> FeaturesOf(load, Max(load))]
  /\ late' = FALSE
  /\ UNCHANGED <<table, closed, odd>>

\* prepare_production_features(): the newest row of the rows loaded.
ServeRow == AnswerFrom(ServeLoad)

\* run_prediction_bundle(): the newest row up to now.
PredictRow == AnswerFrom(PredictLoad)

FeatureNext == \/ \E status \in {"none", "provisional", "final"} : Arrive(status)
               \/ \E n \in TableBars : Finalise(n) \/ FillIn(n)
               \/ ServeRow
               \/ PredictRow

FeatureSpec == FeatureInit /\ [][FeatureNext]_featureVars
----------------------------------------------------------------------------
ShortDays == {d \in {DayOf(n) : n \in 0 .. closed - 1} :
                \E n \in 0 .. closed - 1 : DayOf(n) = d /\ table[n] = "none"}

\* A row has the same features when a model is asked about it as when one
\* learns from it later, as far back as the asker loads: the same position in
\* the day, the same bars of the day, the same days behind it.  It needs rows
\* that were final when they were asked about, no gap filled in since, a
\* training that loads the days the features came from, and no more short
\* sessions than the history of the backend has days to spare.
TrainedAsServed ==
  /\ vector.row \in TrainLoad
  /\ vector.settled
  /\ ~late
  /\ vector.features.window \subseteq TrainLoad
  /\ Cardinality(ShortDays) <= ServeDays - RollDays
  => LET trained == FeaturesOf(TrainLoad, vector.row)
     IN vector.features = [trained EXCEPT !.window = Rolling(@ \cap vector.loaded)]
=============================================================================
