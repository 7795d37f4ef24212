---------------------------- MODULE VendorLanding ----------------------------
(***************************************************************************)
(* fetch_raw_market_vendor_dataset.py: a file per share, written anew by   *)
(* each run whatever an earlier one had in it, and at the end of the run a *)
(* report of its own shares.  Days, rows and requests are those of         *)
(* ArchiveFiles; a commodity is a share like any other.  The Treasury      *)
(* file is left out, but not that the run ends when it cannot be had.      *)
(***************************************************************************)
EXTENDS ArchiveFiles

CONSTANT MaxLandings   \* bound: runs

ASSUME LandingAssumption == MaxLandings \in Nat

VARIABLES
  landing,   \* the landed files, and which run wrote them
  lander,    \* its shares still to do, its days, what it will report
  coverage   \* intraday_coverage.csv and fetch_summary.json

landVars == <<landing, lander, coverage>>

Landings == [by : Nat, whole : BOOLEAN, rows : SUBSET FileRows]
Landers == [stage : {"idle", "ask", "write", "report"}, number : Nat,
            todo : SUBSET Shares, share : Shares \cup {NoShare}, days : SUBSET FileDays,
            answer : SUBSET FileRows, seen : SUBSET Shares, stats : RowSets]
Reports == [by : Nat, seen : SUBSET Shares, stats : RowSets]

LandingTypeOK == /\ landing \in [Shares -> Landings]
                 /\ lander \in Landers
                 /\ coverage \in Reports

LanderOff(n) == [stage |-> "idle", number |-> n, todo |-> {}, share |-> NoShare,
                 days |-> {}, answer |-> {}, seen |-> {}, stats |-> NoRows]

LandingInit ==
  /\ landing = [t \in Shares |-> [by |-> 0, whole |-> FALSE, rows |-> {}]]
  /\ lander = LanderOff(0)
  /\ coverage = [by |-> 0, seen |-> {}, stats |-> NoRows]

\* --start-date, --end-date, --limit-symbols, or another list of the vendor.
BeginLanding(some, days) ==
  /\ lander.stage = "idle"
  /\ lander.number < MaxLandings
  /\ lander' = [LanderOff(lander.number + 1) EXCEPT !.stage = "ask", !.todo = some,
                                                    !.days = days]
  /\ UNCHANGED <<landing, coverage, filesVars>>

\* fetch_intraday_range(): requests that fail are left out.  Then the file is
\* opened, and what was in it is gone.
LandShare(t, failed) ==
  /\ lander.stage = "ask" /\ t \in lander.todo
  /\ landing' = [landing EXCEPT ![t] =
       [by |-> lander.number, whole |-> FALSE, rows |-> {}]]
  /\ lander' = [lander EXCEPT !.stage = "write", !.share = t,
                              !.answer = Answer(lander.days, failed)]
  /\ UNCHANGED <<coverage, filesVars>>

\* The file is whole, and summarize_intraday() counts what is in it.
WriteLanding(t) ==
  /\ lander.stage = "write" /\ lander.share = t
  /\ landing' = [landing EXCEPT ![t] =
       [by |-> lander.number, whole |-> TRUE, rows |-> lander.answer]]
  /\ lander' = [lander EXCEPT !.stage = "ask", !.todo = @ \ {t}, !.share = NoShare,
                              !.seen = @ \cup {t}, !.stats[t] = lander.answer,
                              !.answer = {}]
  /\ UNCHANGED <<coverage, filesVars>>

\* The Treasury rates came, or are skipped.
FetchTreasury ==
  /\ lander.stage = "ask" /\ lander.todo = {}
  /\ lander' = [lander EXCEPT !.stage = "report"]
  /\ UNCHANGED <<landing, coverage, filesVars>>

\* write_reports(), its two files in one step: the shares of this run alone.
WriteReports ==
  /\ lander.stage = "report"
  /\ coverage' = [by |-> lander.number, seen |-> lander.seen, stats |-> lander.stats]
  /\ lander' = LanderOff(lander.number)
  /\ UNCHANGED <<landing, filesVars>>

\* Killed, an answer without its columns, or no Treasury rates.
LanderDies ==
  /\ lander.stage # "idle"
  /\ lander' = LanderOff(lander.number)
  /\ UNCHANGED <<landing, coverage, filesVars>>

LanderStep ==
  \/ \E some \in SUBSET Shares, first, last \in FileDays :
       BeginLanding(some, first .. last)
  \/ \E t \in Shares : \/ WriteLanding(t)
                       \/ \E failed \in SUBSET Requests(lander.days) :
                            LandShare(t, failed)
  \/ FetchTreasury \/ WriteReports \/ LanderDies

\* The fetch, the loaders and this script beside each other.
LandingNext == (FilesNext /\ UNCHANGED landVars) \/ LanderStep

LandingSpec == FilesInit /\ LandingInit /\ [][LandingNext]_<<filesVars, landVars>>
-----------------------------------------------------------------------------
\* The coverage report tells what is in every landed file it speaks of, but
\* for files that a later run has written which is still at work or ended
\* without a report (fetch_raw_market_vendor_dataset.py:380, 388, 391).
ReportTellsLanding ==
  \A t \in coverage.seen :
    \/ landing[t] = [by |-> coverage.by, whole |-> TRUE, rows |-> coverage.stats[t]]
    \/ landing[t].by > coverage.by

\* What is missing from the files, from the tables or from the report has the
\* cause named in HolesHaveCause, LoadIsWhole and ReportTellsLanding.
FilesHaveCause == HolesHaveCause /\ LoadIsWhole /\ ReportTellsLanding
=============================================================================
