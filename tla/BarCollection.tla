---------------------------- MODULE BarCollection ----------------------------
(***************************************************************************)
(* Five-minute bars of one trading day on their way into the database: the *)
(* vendor's feed, the collector scripts that copy it into                  *)
(* stg_raw.market_data row by row, the export to core_dbms.market_data_5m, *)
(* and the truncation of the staging tables.  Several scripts do this at   *)
(* the same time; no lock keeps them apart.                                *)
(***************************************************************************)
EXTENDS Naturals, FiniteSets

CONSTANTS Symbols,   \* active symbols
          Scripts,   \* places for script processes: so many run at once
          NumBars,   \* five-minute bars of the day
          FaultCap   \* bound: late or bad bars, failures and kills together

ASSUME BarsAssumption == /\ IsFiniteSet(Symbols)
                          /\ NumBars \in Nat \ {0} /\ FaultCap \in Nat

VARIABLES
  clock,    \* how many bars have closed; NumBars + 1 is the next day
  feed,     \* what the vendor returns for each bar
  listed,   \* the symbols in staging.ingestion_progress; the day adds none
  staging,  \* stg_raw.market_data, unique on (symbol, ts)
  core,     \* core_dbms.market_data_5m: the bars of each symbol
  job,      \* which script runs in a place, "none" in a free one
  pc,       \* what each script is doing
  todo,     \* symbols a collector has not finished
  current,  \* the symbol it works on, as a set with at most one element
  batch,    \* rows of that symbol it has fetched and not inserted yet
  upto,     \* the end of its window, computed once at its start
  fresh,    \* history: rows staged between a script's export and truncate
  excused,  \* history: bars a collector has had a reason to leave out
  swept,    \* history: rows truncated while a backfill was at their symbol
  faults    \* history: how many faults there have been

market == <<clock, feed, listed>>
place == <<job, pc>>
loop == <<todo, current, batch, upto>>
reasons == <<excused, swept>>
causes == <<reasons, faults>>
barVars == <<market, staging, core, place, loop, fresh, causes>>

Bars == 1 .. NumBars
Jobs == {"pipeline", "operations", "catchup", "repair"}
Quality == {"none", "bad", "good"}
NoRows == [b \in Bars |-> "none"]
RowsOf(rows) == {b \in Bars : rows[b] # "none"}
Staged(s) == RowsOf(staging[s])
GoodStaged(s) == {b \in Bars : staging[s][b] = "good"}

BarTypeOK == /\ clock \in 0 .. NumBars + 1
             /\ feed \in [Symbols -> [Bars -> Quality]]
             /\ listed \subseteq Symbols
             /\ staging \in [Symbols -> [Bars -> Quality]]
             /\ core \in [Symbols -> SUBSET Bars]
             /\ job \in [Scripts -> Jobs \cup {"none"}]
             /\ todo \in [Scripts -> SUBSET Symbols]
             /\ current \in [Scripts -> SUBSET Symbols]
             /\ batch \in [Scripts -> [Bars -> Quality]]
             /\ upto \in [Scripts -> 0 .. NumBars]
             /\ fresh \in [Scripts -> SUBSET (Symbols \X Bars)]
             /\ excused \subseteq Symbols \X Bars
             /\ swept \subseteq Symbols \X Bars
             /\ faults \in 0 .. FaultCap

BarInit == /\ clock = 0
           /\ feed = [s \in Symbols |-> NoRows]
           /\ listed \in SUBSET Symbols
           /\ staging = [s \in Symbols |-> NoRows]
           /\ core = [s \in Symbols |-> {}]
           /\ job = [p \in Scripts |-> "none"]
           /\ pc = [p \in Scripts |-> "idle"]
           /\ todo = [p \in Scripts |-> {}]
           /\ current = [p \in Scripts |-> {}]
           /\ batch = [p \in Scripts |-> NoRows]
           /\ upto = [p \in Scripts |-> 0]
           /\ fresh = [p \in Scripts |-> {}]
           /\ excused = {}
           /\ swept = {}
           /\ faults = 0

Fault == faults < FaultCap /\ faults' = faults + 1
----------------------------------------------------------------------------
(* The vendor.  A bar may be published late, or first with values that the *)
(* export rejects (no close, a price of zero, a negative volume).          *)

Tick == /\ clock <= NumBars
        /\ clock' = clock + 1
        /\ feed' = [s \in Symbols |->
                      [b \in Bars |-> IF b = clock + 1 THEN "good"
                                      ELSE feed[s][b]]]
        /\ UNCHANGED <<listed, staging, core, place, loop, fresh, causes>>

Misprint(s, q) ==
  /\ clock < NumBars
  /\ Fault
  /\ clock' = clock + 1
  /\ feed' = [t \in Symbols |->
                [b \in Bars |-> IF b # clock + 1 THEN feed[t][b]
                                ELSE IF t = s THEN q ELSE "good"]]
  /\ UNCHANGED <<listed, staging, core, place, loop, fresh, reasons>>

Correct(s, b) == /\ b <= clock
                 /\ feed[s][b] # "good"
                 /\ feed' = [feed EXCEPT ![s][b] = "good"]
                 /\ UNCHANGED <<clock, listed, staging, core, place, loop, fresh, causes>>
----------------------------------------------------------------------------
(* The collector scripts: intraday_data_collection.py inserts the newest   *)
(* row first and stops a symbol at the first row that is there already,    *)
(* gather_past_data.py inserts the oldest first and passes over such rows. *)

Collecting(p) == pc[p] \in {"collect", "backfill"}

Begin(p, j, stage) == /\ job[p] = "none"
                      /\ job' = [job EXCEPT ![p] = j]
                      /\ pc' = [pc EXCEPT ![p] = stage]

BeginCollect(p, j, stage) == /\ Begin(p, j, stage)
                             /\ todo' = [todo EXCEPT ![p] = Symbols]

End(p) == /\ job' = [job EXCEPT ![p] = "none"]
          /\ pc' = [pc EXCEPT ![p] = "idle"]

GoOn(p, stage) == /\ pc' = [pc EXCEPT ![p] = stage]
                  /\ UNCHANGED job

\* Mutant of IsNext: the live collector, too, inserts the oldest first.
IsNextOldest(p, b) == /\ b \in RowsOf(batch[p])
                      /\ \A x \in RowsOf(batch[p]) : b <= x

\* The next row of the batch: rows.sort(key=ts, reverse=newest_first).
IsNext(p, b) == /\ b \in RowsOf(batch[p])
                /\ \A x \in RowsOf(batch[p]) :
                     IF pc[p] = "collect" THEN x <= b ELSE b <= x

(* One call of the API for one symbol; rows outside the window are dropped.*)
Fetch(p, s) ==
  /\ Collecting(p)
  /\ current[p] = {}
  /\ s \in todo[p]
  /\ todo' = [todo EXCEPT ![p] = @ \ {s}]
  /\ LET rows == [b \in Bars |-> IF b <= upto[p] THEN feed[s][b] ELSE "none"]
     IN /\ batch' = [batch EXCEPT ![p] = rows]
        /\ current' = [current EXCEPT ![p] = IF rows = NoRows THEN {} ELSE {s}]
        /\ excused' = excused \cup
             {<<s, b>> : b \in {x \in 1 .. upto[p] : rows[x] = "none"}}
  /\ UNCHANGED <<market, staging, core, place, upto, fresh, swept, faults>>

\* An HTTP error or a timeout: the symbol is skipped, the run goes on.
FetchFails(p, s) ==
  /\ Collecting(p)
  /\ current[p] = {}
  /\ s \in todo[p]
  /\ Fault
  /\ todo' = [todo EXCEPT ![p] = @ \ {s}]
  /\ UNCHANGED <<market, staging, core, place, current, batch, upto, fresh, reasons>>

(* One turn of _insert_batch: INSERT ... ON CONFLICT DO NOTHING, commit.   *)
Insert(p, s, b) ==
  /\ Collecting(p)
  /\ s \in current[p]
  /\ IsNext(p, b)
  /\ LET clash == staging[s][b] # "none"
         left == IF clash /\ pc[p] = "collect" THEN NoRows
                 ELSE [batch[p] EXCEPT ![b] = "none"]
     IN /\ staging' = IF clash THEN staging
                      ELSE [staging EXCEPT ![s][b] = batch[p][b]]
        /\ batch' = [batch EXCEPT ![p] = left]
        /\ current' = [current EXCEPT ![p] = IF left = NoRows THEN {} ELSE {s}]
        /\ fresh' = [q \in Scripts |->
                       IF pc[q] = "truncate" /\ ~clash
                       THEN fresh[q] \cup {<<s, b>>} ELSE fresh[q]]
  /\ UNCHANGED <<market, core, place, todo, upto, causes>>

LeftOver(p) == current[p] \X RowsOf(batch[p])

\* A database error at a row: the rest of this symbol is given up.
InsertFails(p) == /\ Collecting(p)
                  /\ current[p] # {}
                  /\ Fault
                  /\ excused' = excused \cup LeftOver(p)
                  /\ batch' = [batch EXCEPT ![p] = NoRows]
                  /\ current' = [current EXCEPT ![p] = {}]
                  /\ UNCHANGED <<market, staging, core, place, todo, upto, fresh, swept>>

Collected(p) == Collecting(p) /\ current[p] = {} /\ todo[p] = {}

\* The process is killed (the DAGs' subprocess timeouts), or it gives up.
Halt(p) == /\ Fault
           /\ excused' = excused \cup LeftOver(p)
           /\ End(p)
           /\ todo' = [todo EXCEPT ![p] = {}]
           /\ batch' = [batch EXCEPT ![p] = NoRows]
           /\ current' = [current EXCEPT ![p] = {}]
           /\ upto' = [upto EXCEPT ![p] = 0]
           /\ fresh' = [fresh EXCEPT ![p] = {}]
           /\ UNCHANGED <<market, staging, core, swept>>
----------------------------------------------------------------------------
(* export_staging_to_core(): every stock row of staging, in one            *)
(* transaction; rows that fail the quality check are logged and left out.  *)

\* Mutant of ExportTo: a failed export does not keep the script from going on.
ExportToAnyway(p, stage) ==
  /\ pc[p] = "export" \/ Collected(p)
  /\ core' \in {core, [s \in Symbols |-> core[s] \cup GoodStaged(s)]}
  /\ fresh' = [fresh EXCEPT ![p] = {}]
  /\ IF stage = "end" THEN End(p) ELSE GoOn(p, stage)
  /\ upto' = [upto EXCEPT ![p] = 0]
  /\ UNCHANGED <<market, staging, todo, current, batch, causes>>

ExportTo(p, stage) ==
  /\ pc[p] = "export" \/ Collected(p)
  /\ core' = [s \in Symbols |-> core[s] \cup GoodStaged(s)]
  /\ fresh' = [fresh EXCEPT ![p] = {}]
  /\ IF stage = "end" THEN End(p) ELSE GoOn(p, stage)
  /\ upto' = [upto EXCEPT ![p] = 0]
  /\ UNCHANGED <<market, staging, todo, current, batch, causes>>

\* Symbols a backfill is in the middle of.
Backfilled == UNION {current[p] : p \in {q \in Scripts : pc[q] = "backfill"}}

\* clear_staging_tables(): TRUNCATE, a transaction of its own, whoever is in
\* the middle of an insert.
Truncate(p) ==
  /\ pc[p] = "truncate"
  /\ staging' = [s \in Symbols |-> NoRows]
  /\ End(p)
  /\ swept' = swept \cup UNION {{s} \X Staged(s) : s \in Backfilled}
  /\ fresh' = [fresh EXCEPT ![p] = {}]
  /\ UNCHANGED <<market, core, loop, excused, faults>>
----------------------------------------------------------------------------
(* A bar that is missing below a newer one of its symbol is about to be    *)
(* inserted, or one of three things has happened to it: the vendor did not *)
(* have it when it was asked, its collector was interrupted, or it was in  *)
(* staging and was truncated while a backfill, which inserts the oldest    *)
(* first, was in the middle of that symbol.  A truncation under the live   *)
(* collector, which inserts the newest first, leaves no gap, nor does any  *)
(* overlap of collectors, although the live one stops at the first row it  *)
(* finds there.                                                            *)
GapHasCause ==
  \A s \in Symbols : \A b \in Bars \ Staged(s) :
    (\E n \in Staged(s) : n > b) =>
      \/ <<s, b>> \in excused \cup swept
      \/ \E p \in Scripts : s \in current[p] /\ batch[p][b] # "none"
=============================================================================
