---------------------------- MODULE TickerTables ----------------------------
(***************************************************************************)
(* The 5-minute tables market."<TICKER>": import_fmp_to_db.py replaces     *)
(* each by its file of the archive, fill_gap.py appends what the vendor    *)
(* has from the day after a table's last row on, by way of a CSV that is   *)
(* kept.  The tables have no key, and nothing keeps runs of the two        *)
(* scripts, which people start, from overlapping.  A bar is a number: day  *)
(* d has the bars (d-1) * DayBars + 1 .. d * DayBars, and the vendor has   *)
(* those up to newest.  Both scripts take the tickers in the order of      *)
(* their names.                                                            *)
(***************************************************************************)
EXTENDS Naturals, FiniteSetsExt

CONSTANTS NumTickers,  \* the active tickers, numbered in order
          DayBars,     \* bars of a day
          Archive,     \* the archive ends with this bar
          ChunkDays,   \* CHUNK_DAYS
          LastBar,     \* bound: the bars that come to be
          Fills,       \* runs of fill_gap.py
          Imports      \* runs of import_fmp_to_db.py

ASSUME TickerAssumption ==
  /\ NumTickers \in Nat \ {0} /\ DayBars \in Nat \ {0} /\ ChunkDays \in Nat
  /\ LastBar \in Nat /\ Archive \in 1 .. LastBar
  /\ Fills \cap Imports = {}

VARIABLES
  newest,      \* the latest bar the vendor has
  tables,      \* [ticker -> [bar -> how often it is there]], 2 for more
  csv,         \* the bars in <ticker>.csv of ml/data/fmp_gap_fill
  imports,     \* of a run its ticker and stage; is its transaction aborted?
  fills,       \* of a run its ticker, stage and today, the last row it saw
               \* in the table, and the rows it is going to save and append
  missed,      \* history: bars of a failed chunk or of a day half there
  again,       \* history: bars that a run found in the file and in the table
  crossed,     \* history: bars written to a table that another run was at
  undone       \* history: bars taken from a table that a fill was at, or from
               \* a file by a fill that had not read them or died writing it

histories == <<missed, again, crossed, undone>>
tickerVars == <<newest, tables, csv, imports, fills, histories>>

TickerSet == 1 .. NumTickers
Bars == 1 .. LastBar
DayOfBar(b) == (b + DayBars - 1) \div DayBars
Nothing == [b \in Bars |-> 0]

ImportRecords == [ticker : TickerSet, stage : {"new", "replace", "copy", "over"},
                  aborted : BOOLEAN]
FillRecords == [ticker : TickerSet, stage : {"new", "look", "fetch", "save", "append", "over"},
                today : Nat, last : {0} \cup Bars, rows : SUBSET Bars]

TickerTypeOK ==
  /\ newest \in Bars
  /\ tables \in [TickerSet -> [Bars -> 0 .. 2]]
  /\ csv \in [TickerSet -> SUBSET Bars]
  /\ imports \in [Imports -> ImportRecords]
  /\ fills \in [Fills -> FillRecords]
  /\ missed \in [TickerSet -> SUBSET Bars]
  /\ again \in [TickerSet -> SUBSET Bars]
  /\ crossed \in [TickerSet -> SUBSET Bars]
  /\ undone \in [TickerSet -> SUBSET Bars]

ImportAt(t, stage) == [ticker |-> t, stage |-> stage, aborted |-> FALSE]
FillAt(t, stage, day) == [ticker |-> t, stage |-> stage, today |-> day, last |-> 0, rows |-> {}]

NoBars == [t \in TickerSet |-> {}]

TickerInit ==
  /\ newest = Archive
  /\ tables = [t \in TickerSet |-> Nothing]
  /\ csv = NoBars
  /\ imports = [i \in Imports |-> ImportAt(1, "new")]
  /\ fills = [f \in Fills |-> FillAt(1, "new", 0)]
  /\ missed = NoBars /\ again = NoBars /\ crossed = NoBars /\ undone = NoBars

There(t) == {b \in Bars : tables[t][b] > 0}
LastRow(t) == Max({0} \cup There(t))

\* Runs between what they read or made of a table and what they add to it.
FillsOf(t) == {f \in Fills : fills[f].ticker = t /\ fills[f].stage \in {"fetch", "save", "append"}}
ImportsOf(t) == {i \in Imports : imports[i].ticker = t /\ imports[i].stage = "copy"}

\* Run r adds bars to the table of t.
Adds(r, t, added) ==
  /\ tables' = [tables EXCEPT ![t] =
                  [b \in Bars |-> IF b \in added THEN Min({2, @[b] + 1}) ELSE @[b]]]
  /\ crossed' = [crossed EXCEPT ![t] =
                   IF FillsOf(t) \cup ImportsOf(t) \subseteq {r} THEN @ ELSE @ \cup added]

NextBar == /\ newest < LastBar
           /\ newest' = newest + 1
           /\ UNCHANGED <<tables, csv, imports, fills, histories>>

-----------------------------------------------------------------------------
(* import_fmp_to_db.py.  The empty table is made on a connection of its     *)
(* own, so it stays when the COPY fails; a failed COPY is not rolled back,  *)
(* and every later one of the run then fails too.                           *)

BeginImport(i) ==
  /\ imports[i].stage = "new"
  /\ imports' = [imports EXCEPT ![i] = ImportAt(1, "replace")]
  /\ UNCHANGED <<newest, tables, csv, fills, histories>>

\* The next ticker, or the end.
ImportOn(i, aborted) ==
  imports' = [imports EXCEPT ![i] =
    IF imports[i].ticker = NumTickers THEN ImportAt(1, "over")
    ELSE [ticker |-> imports[i].ticker + 1, stage |-> "replace", aborted |-> aborted]]

\* No file of the ticker, or an error before the COPY.
NoArchive(i) ==
  /\ imports[i].stage = "replace"
  /\ ImportOn(i, imports[i].aborted)
  /\ UNCHANGED <<newest, tables, csv, fills, histories>>

Replace(i) == \E t \in TickerSet :
  /\ imports[i].ticker = t /\ imports[i].stage = "replace"
  /\ tables' = [tables EXCEPT ![t] = Nothing]
  /\ imports' = [imports EXCEPT ![i] = [@ EXCEPT !.stage = "copy"]]
  /\ undone' = [undone EXCEPT ![t] = IF FillsOf(t) = {} THEN @ ELSE @ \cup There(t)]
  /\ UNCHANGED <<newest, csv, fills, missed, again, crossed>>

Copy(i) == \E t \in TickerSet :
  /\ imports[i].ticker = t /\ imports[i].stage = "copy"
  /\ \/ ImportOn(i, TRUE) /\ UNCHANGED <<tables, crossed>>
     \/ ~imports[i].aborted /\ ImportOn(i, FALSE) /\ Adds(i, t, 1 .. Archive)
  /\ UNCHANGED <<newest, csv, fills, missed, again, undone>>

ImportDies(i) ==
  /\ imports[i].stage \in {"replace", "copy"}
  /\ imports' = [imports EXCEPT ![i] = ImportAt(1, "over")]
  /\ UNCHANGED <<newest, tables, csv, fills, histories>>

-----------------------------------------------------------------------------
(* fill_gap.py                                                              *)

BeginFill(f) ==
  /\ fills[f].stage = "new"
  /\ fills' = [fills EXCEPT ![f] = FillAt(1, "look", DayOfBar(newest))]
  /\ UNCHANGED <<newest, tables, csv, imports, histories>>

FillOn(f) ==
  fills' = [fills EXCEPT ![f] =
    IF fills[f].ticker = NumTickers THEN FillAt(1, "over", 0)
    ELSE FillAt(fills[f].ticker + 1, "look", fills[f].today)]

\* The first day asked for, after the last row.
GapStartLate(last) == DayOfBar(last) + 2
GapStart(last) == DayOfBar(last) + 1

\* get_max_date() finds no row, or fails; or the table is up to date.
Skip(f) ==
  /\ fills[f].stage = "look"
  /\ FillOn(f)
  /\ UNCHANGED <<newest, tables, csv, imports, histories>>

SeeGap(f) == LET t == fills[f].ticker IN
  /\ fills[f].stage = "look"
  /\ There(t) # {} /\ GapStart(LastRow(t)) < fills[f].today
  /\ fills' = [fills EXCEPT ![f] = [@ EXCEPT !.stage = "fetch", !.last = LastRow(t)]]
  /\ UNCHANGED <<newest, tables, csv, imports, histories>>

\* The days asked for, the chunk of a day (ChunkDays + 1 days from the first
\* on), and the vendor's bars of the chunks that answered.
Wanted(f) == GapStart(fills[f].last) .. fills[f].today
Chunk(f, day) == (day - GapStart(fills[f].last)) \div (ChunkDays + 1)
Fetched(f, failed) == {b \in 1 .. newest : /\ DayOfBar(b) \in Wanted(f)
                                           /\ Chunk(f, DayOfBar(b)) \notin failed
                                           /\ b > fills[f].last}

\* Fetch, and read the file that an earlier run left; bound: not while another
\* run is writing it.
Fetches(f, t, failed) == LET new == Fetched(f, failed) IN
  /\ missed' = [missed EXCEPT ![t] = @ \cup
       {b \in Bars : DayOfBar(b) \in Wanted(f) /\ Chunk(f, DayOfBar(b)) \in failed}
       \cup {b \in Bars : b > fills[f].last /\ DayOfBar(b) = DayOfBar(fills[f].last)}]
  /\ IF new = {} THEN FillOn(f) /\ UNCHANGED again
     ELSE /\ fills' = [fills EXCEPT ![f] = [@ EXCEPT !.stage = "save", !.rows = csv[t] \cup new]]
          /\ again' = [again EXCEPT ![t] = @ \cup (csv[t] \cap There(t))]

Fetch(f) == \E t \in TickerSet :
  /\ fills[f].ticker = t /\ fills[f].stage = "fetch"
  /\ \E failed \in SUBSET {Chunk(f, day) : day \in Wanted(f)} : Fetches(f, t, failed)
  /\ UNCHANGED <<newest, tables, csv, imports, crossed, undone>>

\* to_csv writes the rows in order over what is there by now: all of them, or
\* those up to some bar when the run is killed meanwhile.
WriteCsv(t, rows) ==
  /\ csv' = [csv EXCEPT ![t] = rows]
  /\ undone' = [undone EXCEPT ![t] = @ \cup (csv[t] \ rows)]

Save(f) == \E t \in TickerSet :
  /\ fills[f].ticker = t /\ fills[f].stage = "save"
  /\ \/ /\ WriteCsv(t, fills[f].rows)
        /\ fills' = [fills EXCEPT ![f] = [@ EXCEPT !.stage = "append"]]
     \/ \E last \in {0} \cup fills[f].rows :
          /\ WriteCsv(t, {b \in fills[f].rows : b <= last})
          /\ fills' = [fills EXCEPT ![f] = FillAt(1, "over", 0)]
  /\ UNCHANGED <<newest, tables, imports, missed, again, crossed>>

\* to_sql appends all of them.
AppendFile(f) == \E t \in TickerSet :
  /\ fills[f].ticker = t /\ fills[f].stage = "append"
  /\ Adds(f, t, fills[f].rows)
  /\ FillOn(f)
  /\ UNCHANGED <<newest, csv, imports, missed, again, undone>>

\* Killed, or ended by an error of the database.
FillDies(f) ==
  /\ fills[f].stage \in {"look", "fetch", "save", "append"}
  /\ fills' = [fills EXCEPT ![f] = FillAt(1, "over", 0)]
  /\ UNCHANGED <<newest, tables, csv, imports, histories>>

ImportStep(i) == BeginImport(i) \/ NoArchive(i) \/ Replace(i) \/ Copy(i) \/ ImportDies(i)
FillGapStep(f) == BeginFill(f) \/ Skip(f) \/ SeeGap(f) \/ Fetch(f) \/ Save(f) \/ AppendFile(f)
               \/ FillDies(f)

TickerNext == \/ NextBar
              \/ \E i \in Imports : ImportStep(i)
              \/ \E f \in Fills : FillGapStep(f)

-----------------------------------------------------------------------------
(* "downloads only the missing range up to today": a bar that is missing    *)
(* below a table's last row was in a chunk that failed, or in the rest of a *)
(* day whose beginning some run had found there as the last (no later run   *)
(* asks for either again, fill_gap.py:102-141); or runs overlapped: an      *)
(* import took it out of the table between a fill's look and its append, or *)
(* a fill saved its file over one with that bar that it had not read; or a  *)
(* fill died while it wrote the file, which had that bar.                   *)
HoleHasCause == \A t \in TickerSet : \A b \in Bars :
  tables[t][b] = 0 /\ There(t) # {} /\ b < LastRow(t) => b \in missed[t] \cup undone[t]

(* "inserts without touching existing rows": a bar stands twice in a table  *)
(* only when a run found it in the table and in the file of an earlier run, *)
(* which it appends as a whole (fill_gap.py:143-158), or when runs          *)
(* overlapped: one wrote it while another was between its look at the       *)
(* table, or its new empty one, and its own append or COPY.                 *)
CopyHasCause == \A t \in TickerSet : \A b \in Bars :
  tables[t][b] > 1 => b \in again[t] \cup crossed[t]

(* What is missing from a ticker's table, or stands twice in it, has the    *)
(* cause named above, over all imports, fills, overlaps and deaths.         *)
RowsHaveCause == HoleHasCause /\ CopyHasCause

TickerSpec == TickerInit /\ [][TickerNext]_tickerVars
=============================================================================
