--------------------------- MODULE VendorRefetch ---------------------------
(***************************************************************************)
(* The scripts that load months of bars again from the vendor: refetch_    *)
(* market_data_15m_quality.py in its modes "simple" (symbol by symbol,     *)
(* with a checkpoint) and "quality" (all or nothing), and monthly_fmp_     *)
(* refresh.py ("monthly": checked as a whole, committed symbol by symbol,  *)
(* with a checkpoint of its own), which a DAG runs.  A process may die at  *)
(* any moment; the next one may be told to resume from the checkpoint.     *)
(*                                                                         *)
(* A month is a set of chunks, one request to the vendor each; a request   *)
(* that fails is an empty chunk, not an error.  Symbols are numbered in    *)
(* their alphabetical order.  A script is run by one process at a time.    *)
(***************************************************************************)
EXTENDS Naturals, FiniteSets, FiniteSetsExt

CONSTANTS Members, Months, Chunks,
          Tolerated,   \* --allow-unresolved-symbols
          MaxRuns      \* bound: processes started

ASSUME RefetchAssumption == /\ Members \subseteq Nat
                            /\ Tolerated \subseteq Members
                            /\ MaxRuns \in Nat

VARIABLES
  bars,       \* the chunks committed, per month and symbol
  daily,      \* the symbols whose daily prices of a month are committed
  mark,       \* the checkpoint file of each script
  summary,    \* last_success_summary.json of each script
  run,        \* the process of each script
  runs        \* processes started

refetchVars == <<bars, daily, mark, summary, run, runs>>

(* A run's "chain" and "lost", and a mark's, are history: the symbols that *)
(* a fresh run and its resumptions stand for, and whether a request of     *)
(* theirs, or SPY's, came back empty.                                      *)
RefetchScripts == {"simple", "quality", "monthly"}
NoReport == [kind |-> "none"]
Torn == [kind |-> "torn"]
Mark(r, last) ==
  [kind |-> "mark", month |-> r.month, last |-> last, chain |-> r.chain, lost |-> r.lost]
Summary(r) ==
  [kind |-> "summary", month |-> r.month, chain |-> r.chain, lost |-> r.lost]

RunSteps == {"idle", "fetch", "daily", "commit", "mark", "report", "clear"}
NoRun == [step |-> "idle", month |-> 0, todo |-> {}, schedule |-> {}, chain |-> {},
         lost |-> FALSE]

Marks == {NoReport, Torn} \cup
  [kind : {"mark"}, month : Months, last : Members, chain : SUBSET Members, lost : BOOLEAN]
Summaries == {NoReport} \cup
  [kind : {"summary"}, month : Months, chain : SUBSET Members, lost : BOOLEAN]
Runs == [step : RunSteps, month : Months \cup {0}, todo : SUBSET Members,
         schedule : SUBSET Chunks, chain : SUBSET Members, lost : BOOLEAN]

RefetchTypeOK ==
  /\ bars \in [Months -> [Members -> SUBSET Chunks]]
  /\ daily \in [Months -> SUBSET Members]
  /\ mark \in [RefetchScripts -> Marks]
  /\ summary \in [RefetchScripts -> Summaries]
  /\ run \in [RefetchScripts -> Runs]
  /\ runs \in 0 .. MaxRuns

RefetchInit ==
  /\ bars = [m \in Months |-> [s \in Members |-> {}]]
  /\ daily = [m \in Months |-> {}]
  /\ mark = [sc \in RefetchScripts |-> NoReport]
  /\ summary = [sc \in RefetchScripts |-> NoReport]
  /\ run = [sc \in RefetchScripts |-> NoRun]
  /\ runs = 0

RunAt(sc, step) == run[sc].step = step
RunGoesTo(sc, step) == run' = [run EXCEPT ![sc].step = step]
Stop(sc) == run' = [run EXCEPT ![sc] = NoRun]
----------------------------------------------------------------------------
(* The symbols a run is about, "universe", are the active ones or the      *)
(* members of the index: read once, when it starts, and other ones then    *)
(* than when the last run read them.                                       *)
Universes == (SUBSET Members) \ {{}}

\* monthly_fmp_refresh removes the reports of earlier runs before all else.
RemoveStale(sc) ==
  summary' = IF sc = "monthly" THEN [summary EXCEPT ![sc] = NoReport] ELSE summary

\* The checkpoint counts only for the same range of dates.
Fits(sc, m) == mark[sc].kind = "mark" /\ mark[sc].month = m

Start(sc, m, todo, chain, lost) ==
  /\ RunAt(sc, "idle")
  /\ runs < MaxRuns
  /\ runs' = runs + 1
  /\ run' = [run EXCEPT ![sc] = [NoRun EXCEPT
               !.month = m, !.todo = todo, !.chain = chain, !.lost = lost,
               !.step = IF sc # "simple" THEN "fetch"
                        ELSE IF todo = {} THEN "report" ELSE "commit"]]
  /\ RemoveStale(sc)
  /\ UNCHANGED <<bars, daily, mark>>

StartFresh(sc, m, universe) == Start(sc, m, universe, universe, FALSE)

\* Mutant of Remaining: the symbols are counted, not compared by name.
RemainingByCount(sc, universe) ==
  {s \in universe : Cardinality({u \in universe : u <= s})
                      > Cardinality({u \in mark[sc].chain : u <= mark[sc].last})}

Remaining(sc, universe) == {s \in universe : s > mark[sc].last}

(* --resume-from-checkpoint.  A symbol that left the universe meanwhile is *)
(* no longer the chain's; one that came in below the marker never was.     *)
Resume(sc, m, universe) ==
  /\ sc # "quality"
  /\ Fits(sc, m)
  /\ LET rest == Remaining(sc, universe)
     IN /\ sc = "monthly" => rest # {}
        /\ Start(sc, m, rest, (mark[sc].chain \cap universe) \cup rest, mark[sc].lost)

\* "No symbols remain after applying the checkpoint", or JSON cut short.
ResumeRefused(sc, m, universe) ==
  /\ RunAt(sc, "idle")
  /\ runs < MaxRuns
  /\ \/ sc = "monthly" /\ Fits(sc, m) /\ Remaining(sc, universe) = {}
     \/ sc # "quality" /\ mark[sc] = Torn
  /\ runs' = runs + 1
  /\ RemoveStale(sc)
  /\ UNCHANGED <<bars, daily, mark, run>>
----------------------------------------------------------------------------
(* SPY's bars are the reference schedule; every symbol is then fetched,    *)
(* fetched again day by day and, in quality mode, from the second vendor,  *)
(* until it has every bar of the schedule.  One that has not fails the     *)
(* run, unless it is tolerated in quality mode (see RunDies).              *)
FetchMonth(sc, schedule) ==
  /\ RunAt(sc, "fetch")
  /\ schedule # {}
  /\ run' = [run EXCEPT ![sc].step = IF sc = "monthly" THEN "daily" ELSE "commit",
                        ![sc].schedule = schedule,
                        ![sc].lost = @ \/ schedule # Chunks]
  /\ UNCHANGED <<bars, daily, mark, summary, runs>>

\* refresh_daily_prices(): in the transaction of the first symbol's bars.
RefreshDaily(sc) ==
  /\ RunAt(sc, "daily")
  /\ RunGoesTo(sc, "commit")
  /\ UNCHANGED <<bars, daily, mark, summary, runs>>

\* Mutant of DailyWith: the daily prices are committed with the last symbol.
DailyWithLast(sc) ==
  IF sc = "monthly" /\ Cardinality(run[sc].todo) = 1 THEN run[sc].chain ELSE {}

\* The daily prices the transaction of a commit carries.
DailyWith(sc) == IF sc = "monthly" THEN run[sc].todo ELSE {}

\* The next symbol: its bars are upserted and committed.
Commit(sc, frame) ==
  LET s == Min(run[sc].todo)
      m == run[sc].month
  IN /\ sc # "quality"
     /\ RunAt(sc, "commit")
     /\ run[sc].schedule \subseteq frame
     /\ bars' = [bars EXCEPT ![m][s] = @ \cup frame]
     /\ daily' = [daily EXCEPT ![m] = @ \cup DailyWith(sc)]
     /\ run' = [run EXCEPT ![sc].step = "mark",
                           ![sc].lost = @ \/ (sc = "simple" /\ frame # Chunks)]
     /\ UNCHANGED <<mark, summary, runs>>

\* Quality mode: every symbol in one transaction.
CommitAll(frames) ==
  LET q == run["quality"]
  IN /\ RunAt("quality", "commit")
     /\ \A s \in q.todo \ Tolerated : q.schedule \subseteq frames[s]
     /\ bars' = [bars EXCEPT ![q.month] =
                   [s \in Members |-> @[s] \cup IF s \in q.todo THEN frames[s] ELSE {}]]
     /\ run' = [run EXCEPT !["quality"].step = "report",
                  !["quality"].lost = @ \/ \E s \in q.todo \cap Tolerated :
                                              ~(q.schedule \subseteq frames[s])]
     /\ UNCHANGED <<daily, mark, summary, runs>>

\* The checkpoint names the symbol just committed.
WriteMark(sc) ==
  LET s == Min(run[sc].todo)
  IN /\ RunAt(sc, "mark")
     /\ mark' = [mark EXCEPT ![sc] = Mark(run[sc], s)]
     /\ run' = [run EXCEPT ![sc].todo = @ \ {s},
                           ![sc].step = IF run[sc].todo = {s} THEN "report" ELSE "commit"]
     /\ UNCHANGED <<bars, daily, summary, runs>>

\* last_success_summary.json; the treasury rates come before it.
ReportSuccess(sc) ==
  /\ RunAt(sc, "report")
  /\ summary' = [summary EXCEPT ![sc] = Summary(run[sc])]
  /\ IF sc = "quality" THEN Stop(sc) ELSE RunGoesTo(sc, "clear")
  /\ UNCHANGED <<bars, daily, mark, runs>>

ClearMark(sc) ==
  /\ RunAt(sc, "clear")
  /\ mark' = [mark EXCEPT ![sc] = NoReport]
  /\ Stop(sc)
  /\ UNCHANGED <<bars, daily, summary, runs>>

(* An exception (gaps that remain, a daily price or a rate that is missing,*)
(* an error of the database) or the death of the process: the transaction  *)
(* is rolled back.  A process that dies writing its checkpoint tears it.   *)
RunDies(sc) ==
  /\ ~RunAt(sc, "idle")
  /\ Stop(sc)
  /\ \/ UNCHANGED mark
     \/ RunAt(sc, "mark") /\ mark' = [mark EXCEPT ![sc] = Torn]
  /\ UNCHANGED <<bars, daily, summary, runs>>

RefetchStep(sc) ==
  \/ \E m \in Months, u \in Universes :
       StartFresh(sc, m, u) \/ Resume(sc, m, u) \/ ResumeRefused(sc, m, u)
  \/ \E chunks \in SUBSET Chunks : FetchMonth(sc, chunks) \/ Commit(sc, chunks)
  \/ RefreshDaily(sc) \/ WriteMark(sc) \/ ReportSuccess(sc) \/ ClearMark(sc)
  \/ RunDies(sc)

RefetchNext == \/ \E sc \in RefetchScripts : RefetchStep(sc)
               \/ \E frames \in [Members -> SUBSET Chunks] : CommitAll(frames)

RefetchSpec == RefetchInit /\ [][RefetchNext]_refetchVars
----------------------------------------------------------------------------
WholeIn(m, s) == bars[m][s] = Chunks

\* The checkpoint vouches for what it lets a resumed run skip: each of the
\* chain's symbols up to the marker has all its bars, unless a request came
\* back empty, and in the monthly refresh its daily prices too.
CheckpointVouches ==
  \A sc \in RefetchScripts : mark[sc].kind = "mark" =>
    \A s \in mark[sc].chain : s <= mark[sc].last =>
      /\ WholeIn(mark[sc].month, s) \/ mark[sc].lost
      /\ sc = "monthly" => s \in daily[mark[sc].month]

\* A success summary covers every symbol that its first run set out to load,
\* over all the crashes and resumptions between, if no request was lost.
SummaryCovers ==
  \A sc \in RefetchScripts : summary[sc].kind = "summary" /\ ~summary[sc].lost =>
    \A s \in summary[sc].chain : WholeIn(summary[sc].month, s)

\* A resumed run skips, and a finished run reports, only what was loaded.
ResumeIsSound == CheckpointVouches /\ SummaryCovers
=============================================================================
