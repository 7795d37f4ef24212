--------------------------- MODULE ReferenceTables ---------------------------
(***************************************************************************)
(* market.stocks and market.daily_prices, and the programs that write them *)
(* with nothing but the database between them: the backend's bootstrap     *)
(* (made-up prices for the sample stocks, only into an empty table), the   *)
(* seed_market_data DAG (wipe and reload), backfill_daily_prices.py (wipe, *)
(* then one commit per symbol), the monthly refresh (one transaction of    *)
(* upserts), load_parquet_to_db.py (bars, then stocks, one commit each),   *)
(* and import_fmp_to_db.py, which drops the price table.  A transaction is *)
(* one step; TRUNCATE and DROP wait for the bootstrap's, which holds its   *)
(* lock from the count to the commit.                                      *)
(***************************************************************************)
EXTENDS Naturals, FiniteSets

CONSTANTS Symbols,     \* every symbol
          Sample,      \* stock_config.STOCKS
          MadeDays,    \* the days the generator takes for trading days
          RealDays,    \* the days of the vendor, from --from-date on
          MonthDays,   \* the days of the monthly refresh
          MaxStarts    \* bound: programs started, of any kind

ASSUME RefAssumption == Sample \subseteq Symbols /\ Sample # {} /\ MaxStarts \in Nat

VARIABLES
  stocks,    \* market.stocks
  prices,    \* market.daily_prices, NoRow where there is none
  there,     \* the table market.daily_prices exists
  bars,      \* symbols with rows in dw.market_data_15m
  boot,      \* the bootstrap: its stage, and whether it counted no prices
  wipe,      \* the stage of the seed_market_data DAG
  fill,      \* backfill_daily_prices.py: its stage and the symbols to go
  month,     \* the monthly refresh: the symbols it read, or {}
  loader,    \* load_parquet_to_db.py: the symbols whose bars it committed
             \* and whose stocks it did not, {} when it does not run
  started,   \* how many programs have been started
  causes     \* history: [symbol -> why its prices may be of two sources,
             \*                       or why it has bars and no stock]

refVars == <<stocks, prices, there, bars, boot, wipe, fill, month, loader,
             started, causes>>

AllDays == MadeDays \cup RealDays
Reasons == {"month", "race", "window", "killed", "wiped"}

RefTypeOK ==
  /\ stocks \subseteq Symbols
  /\ prices \in [Symbols -> [AllDays -> {"none", "made", "real"}]]
  /\ there \in BOOLEAN
  /\ bars \subseteq Symbols
  /\ boot \in [stage : {"off", "counted", "seeded", "up", "failed", "dead"},
               empty : BOOLEAN]
  /\ wipe \in {"off", "truncated", "seeded", "failed"}
  /\ fill \in [stage : {"off", "read", "wiped"}, todo : SUBSET Symbols]
  /\ month \subseteq Symbols
  /\ loader \subseteq bars
  /\ started \in 0 .. MaxStarts
  /\ causes \in [Symbols -> SUBSET Reasons]

NoPrices == [s \in Symbols |-> [d \in AllDays |-> "none"]]

RefInit ==
  /\ stocks = {} /\ prices = NoPrices /\ there = TRUE /\ bars = {}
  /\ boot = [stage |-> "off", empty |-> FALSE]
  /\ wipe = "off" /\ loader = {} /\ month = {}
  /\ fill = [stage |-> "off", todo |-> {}]
  /\ started = 0
  /\ causes = [s \in Symbols |-> {}]

Start == started < MaxStarts /\ started' = started + 1

\* An exclusive lock on the price table is to be had.
Unlocked == boot.stage # "counted"

HoldsNone == \A s \in Symbols, d \in AllDays : prices[s][d] = "none"
CountBlind == TRUE                                            \* mutant of Empty
Empty == HoldsNone
Made(s) == \E d \in AllDays : prices[s][d] = "made"
Real(s) == \E d \in AllDays : prices[s][d] = "real"

Because(why, S) == causes' = [s \in Symbols |-> IF s \in S THEN causes[s] \cup {why}
                                                ELSE causes[s]]

-----------------------------------------------------------------------------
(* The bootstrap.  Stocks and prices are one transaction; the count is read *)
(* in it and the rows become visible at its end.                            *)

BootCount ==
  /\ boot.stage \in {"off", "up", "failed", "dead"}
  /\ Start
  /\ boot' = IF there THEN [stage |-> "counted", empty |-> Empty]
             ELSE [stage |-> "failed", empty |-> FALSE]
  /\ UNCHANGED <<stocks, prices, there, bars, wipe, fill, month, loader, causes>>

\* ON CONFLICT DO NOTHING: rows that arrived since the count stay.
SeedMissing ==
  prices' = [s \in Symbols |-> [d \in AllDays |->
               IF boot.empty /\ s \in Sample /\ d \in MadeDays /\ prices[s][d] = "none"
               THEN "made" ELSE prices[s][d]]]

BootSeed ==
  /\ boot.stage = "counted"
  /\ stocks' = stocks \cup Sample
  /\ SeedMissing
  /\ boot' = [boot EXCEPT !.stage = "seeded"]
  /\ IF fill.stage = "wiped" /\ boot.empty THEN Because("window", Sample)
     ELSE UNCHANGED causes
  /\ UNCHANGED <<there, bars, wipe, fill, month, loader, started>>

\* _validate_reference_data: an empty market.stocks ends the bootstrap.
PricesThere == \E s \in Sample : Made(s)                  \* mutant of StocksThere
StocksThere == stocks # {}
BootCheck ==
  /\ boot.stage = "seeded"
  /\ boot' = [boot EXCEPT !.stage = IF StocksThere THEN "up" ELSE "failed"]
  /\ UNCHANGED <<stocks, prices, there, bars, wipe, fill, month, loader, started, causes>>

\* Killed, or its transaction chosen as the victim of a deadlock.
BootDies ==
  /\ boot.stage \in {"counted", "seeded"}
  /\ boot' = [stage |-> "dead", empty |-> FALSE]
  /\ UNCHANGED <<stocks, prices, there, bars, wipe, fill, month, loader, started, causes>>

-----------------------------------------------------------------------------
(* The DAG: truncate, reload in one transaction, verify.                    *)

WipeTruncate ==
  /\ wipe # "truncated" /\ Unlocked /\ there
  /\ Start
  /\ stocks' = {} /\ prices' = NoPrices
  /\ wipe' = "truncated"
  /\ Because("wiped", bars)
  /\ UNCHANGED <<there, bars, boot, fill, month, loader>>

\* seed_market.main: truncate, delete and insert.
WipeReload ==
  /\ wipe = "truncated" /\ Unlocked /\ there
  /\ stocks' = Sample
  /\ prices' = [s \in Symbols |-> [d \in AllDays |->
                  IF s \in Sample /\ d \in MadeDays THEN "made" ELSE "none"]]
  /\ wipe' = "seeded"
  /\ causes' = [s \in Symbols |->
                  causes[s]
                  \cup (IF fill.stage = "wiped" /\ s \in Sample THEN {"window"} ELSE {})
                  \cup (IF s \in bars THEN {"wiped"} ELSE {})]
  /\ UNCHANGED <<there, bars, boot, fill, month, loader, started>>

\* verify_data_quality: as many stocks as the sample has, and no symbol with
\* prices that has too few of them.
WipeVerify ==
  /\ wipe = "seeded"
  /\ wipe' = IF /\ Cardinality(stocks) = Cardinality(Sample)
                /\ \A s \in Symbols :
                     Made(s) \/ Real(s) =>
                       Cardinality({d \in AllDays : prices[s][d] # "none"})
                         >= Cardinality(MadeDays)
             THEN "off" ELSE "failed"
  /\ UNCHANGED <<stocks, prices, there, bars, boot, fill, month, loader, started, causes>>

\* Both retries of a task failed; the database is left as it is.
WipeFails ==
  /\ wipe \in {"truncated", "seeded"}
  /\ wipe' = "failed"
  /\ UNCHANGED <<stocks, prices, there, bars, boot, fill, month, loader, started, causes>>

-----------------------------------------------------------------------------
(* backfill_daily_prices.py.  It goes through the symbols in order; which   *)
(* one is next is left open.                                                *)

FillRead ==
  /\ fill.stage = "off"
  /\ Start
  /\ fill' = [stage |-> "read", todo |-> stocks]
  /\ UNCHANGED <<stocks, prices, there, bars, boot, wipe, month, loader, causes>>

OldStays == prices                                        \* mutant of Truncated
Truncated == NoPrices
FillTruncate ==
  /\ fill.stage = "read" /\ Unlocked /\ there
  /\ prices' = Truncated
  /\ fill' = [fill EXCEPT !.stage = "wiped"]
  /\ UNCHANGED <<stocks, there, bars, boot, wipe, month, loader, started, causes>>

Upserted(S, days) ==
  [s \in Symbols |-> [d \in AllDays |->
     IF s \in S /\ d \in days THEN "real" ELSE prices[s][d]]]

\* A real row that lands while the bootstrap holds an outdated count of none.
Outrun(S) == IF boot.stage = "counted" /\ boot.empty THEN S ELSE {}

\* A symbol that has its stock: the vendor's rows, committed; or no data.
FillSymbol ==
  /\ fill.stage = "wiped" /\ there
  /\ \E s \in fill.todo, got \in BOOLEAN :
       /\ got => s \in stocks
       /\ fill' = [fill EXCEPT !.todo = @ \ {s}]
       /\ prices' = IF got THEN Upserted({s}, RealDays) ELSE prices
       /\ IF got THEN Because("race", Outrun({s})) ELSE UNCHANGED causes
  /\ UNCHANGED <<stocks, there, bars, boot, wipe, month, loader, started>>

\* The end; or killed, or ended by a foreign key or a missing table.
FillStops ==
  /\ fill.stage # "off"
  /\ fill' = [stage |-> "off", todo |-> {}]
  /\ UNCHANGED <<stocks, prices, there, bars, boot, wipe, month, loader, started, causes>>

-----------------------------------------------------------------------------
(* monthly_fmp_refresh.py, refresh_daily_prices: nothing is committed when  *)
(* one symbol failed.                                                       *)

MonthRead ==
  /\ month = {}
  /\ Start
  /\ month' = stocks
  /\ UNCHANGED <<stocks, prices, there, bars, boot, wipe, fill, loader, causes>>

MonthCommit ==
  /\ month # {} /\ month \subseteq stocks /\ there
  /\ prices' = Upserted(month, MonthDays)
  /\ causes' = [s \in Symbols |->
                  causes[s]
                  \cup (IF s \in month /\ Made(s) THEN {"month"} ELSE {})
                  \cup (IF s \in Outrun(month) THEN {"race"} ELSE {})]
  /\ month' = {}
  /\ UNCHANGED <<stocks, there, bars, boot, wipe, fill, loader, started>>

MonthFails ==
  /\ month # {}
  /\ month' = {}
  /\ UNCHANGED <<stocks, prices, there, bars, boot, wipe, fill, loader, started, causes>>

-----------------------------------------------------------------------------
(* load_parquet_to_db.py.  A second COPY of the same bars fails on the      *)
(* table's key and ends the script; so does the insert into                 *)
(* staging.ingestion_progress, which has no column last_ts.                 *)

LoadBars ==
  /\ loader = {}
  /\ Start
  /\ \E held \in (SUBSET Symbols) \ {{}} :
       /\ bars \cap held = {}
       /\ bars' = bars \cup held
       /\ loader' = held
  /\ UNCHANGED <<stocks, prices, there, boot, wipe, fill, month, causes>>

NoneListed == {}                                            \* mutant of Listed
Listed == loader
LoadStocks ==
  /\ loader # {}
  /\ stocks' = stocks \cup Listed
  /\ loader' = {}
  /\ UNCHANGED <<prices, there, bars, boot, wipe, fill, month, started, causes>>

LoadDies ==
  /\ loader # {}
  /\ loader' = {}
  /\ Because("killed", loader)
  /\ UNCHANGED <<stocks, prices, there, bars, boot, wipe, fill, month, started>>

-----------------------------------------------------------------------------
(* import_fmp_to_db.py: DROP TABLE IF EXISTS market.daily_prices CASCADE.   *)

Drop ==
  /\ there /\ Unlocked
  /\ there' = FALSE /\ prices' = NoPrices
  /\ UNCHANGED <<stocks, bars, boot, wipe, fill, month, loader, started, causes>>

RefNext ==
  \/ BootCount \/ BootSeed \/ BootCheck \/ BootDies
  \/ WipeTruncate \/ WipeReload \/ WipeVerify \/ WipeFails
  \/ FillRead \/ FillTruncate \/ FillSymbol \/ FillStops
  \/ MonthRead \/ MonthCommit \/ MonthFails
  \/ LoadBars \/ LoadStocks \/ LoadDies
  \/ Drop
-----------------------------------------------------------------------------
(* "safe on a live DB with real data": a symbol has made-up prices beside   *)
(* real ones only where the monthly refresh wrote over a seeded table, where*)
(* a seeding fell between the truncation of the backfill and its end, or    *)
(* where real rows landed between the bootstrap's count and its commit      *)
(* (seed_market.py:209-255, backfill_daily_prices.py:93-140).               *)
MixHasCause == \A s \in Symbols :
                 Made(s) /\ Real(s) => causes[s] \cap {"month", "race", "window"} # {}

(* A symbol whose bars were loaded is missing from market.stocks, and so    *)
(* from every list the backend serves, only while the load runs, where it   *)
(* was killed in between (no later run can heal that: its COPY fails), or   *)
(* where the seed DAG wiped the stocks (load_parquet_to_db.py:43-128).      *)
BarsAreListed == \A s \in bars \ stocks :
                   s \in loader \/ causes[s] \cap {"killed", "wiped"} # {}

(* The bootstrap of the backend fails by itself only when the price table   *)
(* was dropped, or when the seed DAG has wiped the stocks behind its back   *)
(* (initial_data.py:98-127).                                                *)
BootFailsForCause ==
  [][boot'.stage = "failed" /\ boot.stage # "failed" =>
       ~there \/ wipe \in {"truncated", "failed"}]_refVars

(* What is wrong in the two tables has a cause of those named above,        *)
(* whichever loads, seedings and wipes overlap or die.                      *)
TablesHaveCause == MixHasCause /\ BarsAreListed

RefSpec == RefInit /\ [][RefNext]_refVars
=============================================================================
