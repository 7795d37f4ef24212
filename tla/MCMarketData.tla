---------------------------- MODULE MCMarketData ----------------------------
(***************************************************************************)
(* The three ways bars reach the database, checked in one run: day by day  *)
(* (MarketData), by the month (VendorRefetch) and by the repairs of the    *)
(* 15-minute table (GapRepair).  Each has a table of its own dates; the    *)
(* initial state chooses the one that runs.  Bound: faults happen only     *)
(* where ingestion_progress lists every symbol.                            *)
(***************************************************************************)
EXTENDS MarketData, VendorRefetch, GapRepair, TLC

VARIABLE which

TypeOK == /\ which \in {"market", "refetch", "repair"}
          /\ MarketTypeOK /\ RefetchTypeOK /\ RepairTypeOK

MCInit == /\ which \in {"market", "refetch", "repair"}
          /\ Init /\ RefetchInit /\ RepairInit
          /\ which # "market" => listed = Symbols

MCNext ==
  \/ /\ which = "market" /\ Next
     /\ listed = Symbols \/ faults' = 0
     /\ UNCHANGED <<which, refetchVars, repairVars>>
  \/ which = "refetch" /\ RefetchNext /\ UNCHANGED <<which, vars, repairVars>>
  \/ which = "repair" /\ RepairNext /\ UNCHANGED <<which, vars, refetchVars>>

MCSpec == MCInit /\ [][MCNext]_<<which, vars, refetchVars, repairVars>>

MCSym == Permutations(Symbols) \cup Permutations(Scripts)
=============================================================================
