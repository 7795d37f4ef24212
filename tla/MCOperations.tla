---------------------------- MODULE MCOperations ----------------------------
(***************************************************************************)
(* Eight parts where people, DAGs and scripts meet, in one run: the        *)
(* promoters of current_base, call by call (SymlinkSwap), the operator's   *)
(* pipeline with the dashboard that watches it (BaseFlow), the writers of  *)
(* the reference tables (ReferenceTables), those of the tickers' own       *)
(* tables (TickerTables), the sessions of the frontend (FrontendPages),    *)
(* the daily training on another cluster (DracTraining), the archive's     *)
(* files with their loaders (ArchiveFiles), and the vendor's files that    *)
(* land beside them (VendorLanding).  The initial state chooses the one    *)
(* that runs; the others stay at rest.                                     *)
(***************************************************************************)
EXTENDS SymlinkSwap, BaseFlow, ReferenceTables, TickerTables,
        FrontendPages, DracTraining, VendorLanding

CONSTANT MaxTickerRuns   \* bound: runs of the two ticker scripts, together

VARIABLE which   \* the part that runs

OperationsVars == <<which, vars, flowVars, refVars, tickerVars, pagesVars, dracVars,
                    filesVars, landVars>>

Operations == {"swap", "flow", "reference", "tickers", "pages", "drac",
               "files", "landing"}

OperationsTypeOK == /\ which \in Operations
                    /\ TypeOK /\ FlowTypeOK /\ RefTypeOK /\ TickerTypeOK
                    /\ PagesTypeOK /\ DracTypeOK
                    /\ FilesTypeOK /\ LandingTypeOK

OperationsInit == /\ which \in Operations
                  /\ Init /\ FlowInit /\ RefInit /\ TickerInit
                  /\ DracInit /\ FilesInit /\ LandingInit
                  /\ PagesInit /\ (which # "pages" => topic = "replay")

Started == {i \in Imports : imports[i].stage # "new"} \cup {f \in Fills : fills[f].stage # "new"}

\* The runs of the ticker scripts are alike: they are numbered as they start.
InTurn(runs) == \A r \in runs \cap Started, q \in runs \ Started : r < q

OperationsNext ==
  \/ /\ which = "swap" /\ Next
     /\ UNCHANGED <<which, flowVars, refVars, tickerVars, pagesVars, dracVars,
                    filesVars, landVars>>
  \/ /\ which = "flow" /\ FlowNext
     /\ UNCHANGED <<which, vars, refVars, tickerVars, pagesVars, dracVars,
                    filesVars, landVars>>
  \/ /\ which = "reference" /\ RefNext
     /\ UNCHANGED <<which, vars, flowVars, tickerVars, pagesVars, dracVars,
                    filesVars, landVars>>
  \/ /\ which = "tickers" /\ TickerNext
     /\ Cardinality(Started') <= MaxTickerRuns /\ InTurn(Fills)' /\ InTurn(Imports)'
     /\ UNCHANGED <<which, vars, flowVars, refVars, pagesVars, dracVars,
                    filesVars, landVars>>
  \/ /\ which = "pages" /\ PagesNext
     /\ UNCHANGED <<which, vars, flowVars, refVars, tickerVars, dracVars,
                    filesVars, landVars>>
  \/ /\ which = "drac" /\ DracNext
     /\ UNCHANGED <<which, vars, flowVars, refVars, tickerVars, pagesVars,
                    filesVars, landVars>>
  \/ /\ which = "files" /\ FilesNext
     /\ UNCHANGED <<which, vars, flowVars, refVars, tickerVars, pagesVars, dracVars,
                    landVars>>
  \/ /\ which = "landing" /\ (LanderStep \/ (VendorGrows /\ UNCHANGED landVars))
     /\ UNCHANGED <<which, vars, flowVars, refVars, tickerVars, pagesVars, dracVars>>

OperationsSpec == OperationsInit /\ [][OperationsNext]_OperationsVars
=============================================================================
