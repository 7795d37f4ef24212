----------------------------- MODULE GapRepair ------------------------------
(***************************************************************************)
(* The repairs of the 15-minute table, for one symbol, which               *)
(* ingestion_progress lists: the FMP backfill                              *)
(* (backfill_market_data_15m_from_fmp.py), the re-aggregation of a range   *)
(* of days (backfill_gap_apr22_29.py) and the catch-up of post_backfill_   *)
(* etl.sh, beside the collector that goes on adding windows.  A row's      *)
(* derived columns are abstracted to lag_close_1: the row it was taken     *)
(* from, 0 for NULL.                                                       *)
(***************************************************************************)
EXTENDS Naturals, FiniteSets

CONSTANTS
  DaysKept,     \* trading days of the table
  PerDay,       \* windows of a session, 26 in the code
  BeforeBreak,  \* trading days followed by a weekend or a holiday
  GapDays,      \* the days backfill_gap_apr22_29.py is written for
  Unavailable,  \* windows the vendors have no bar of
  Limit         \* --limit-symbol-days, 20 in the code

ASSUME RepairAssumption == /\ DaysKept \in Nat \ {0} /\ PerDay \in Nat \ {0}
                           /\ Limit \in Nat \ {0}
                           /\ BeforeBreak \subseteq 1 .. DaysKept
                           /\ GapDays \subseteq 1 .. DaysKept
                           /\ Unavailable \subseteq Nat

VARIABLES
  now,      \* the last window that has passed
  fives,    \* windows core_dbms.market_data_5m has bars of
  rows,     \* windows the table has a row of
  hollow,   \* those whose row has a null price
  lag,      \* lag_close_1 of each row
  repair,   \* the backfill: its phase, what it looks for, what it has written
  raced,    \* history: rows others wrote while the backfill had not committed
  redone    \* history: rows written by a re-aggregation

tableVars == <<rows, hollow, lag>>
repairVars == <<now, fives, tableVars, repair, raced, redone>>

Slots == 1 .. DaysKept * PerDay
Vendor == Slots \ Unavailable
TradeDays == 1 .. DaysKept
DayOf(w) == (w - 1) \div PerDay + 1
SlotsOf(D) == {w \in Slots : DayOf(w) \in D}

\* Calendar days: a break of two days after some trading days.
Calendar(d) == d + 2 * Cardinality({e \in BeforeBreak : e < d})

Idle == [phase |-> "idle", wanted |-> {}, found |-> {}, lags |-> [w \in {} |-> 0]]

RepairTypeOK ==
  /\ now \in Slots \cup {0}
  /\ fives \subseteq Slots
  /\ rows \subseteq Slots /\ hollow \subseteq rows
  /\ lag \in [Slots -> Slots \cup {0}]
  /\ repair.phase \in {"idle", "detected", "written"}
  /\ repair.found \subseteq repair.wanted /\ repair.wanted \subseteq Slots
  /\ DOMAIN repair.lags \subseteq Slots
  /\ raced \subseteq Slots /\ redone \subseteq Slots

RepairInit == /\ now = 0
              /\ fives = {} /\ rows = {} /\ hollow = {} /\ raced = {} /\ redone = {}
              /\ lag = [w \in Slots |-> 0]
              /\ repair = Idle

Before(R, w) == {r \in R : r < w}
LastOf(R) == CHOOSE r \in R : \A q \in R : r >= q
Pred(R, w) == IF Before(R, w) = {} THEN 0 ELSE LastOf(Before(R, w))

\* The close of the row before, NULL when there is none or it has none.
LagOver(R, H, w) == IF Pred(R, w) \in H THEN 0 ELSE Pred(R, w)

Raced(W) == raced' = IF repair.phase = "written" THEN raced \cup W ELSE raced \ W
----------------------------------------------------------------------------
\* dw.process_15min_window for the windows W, in order; H lack a price then.
AggregateAll(W, H) ==
  LET R == rows \cup W
  IN /\ rows' = R /\ hollow' = H
     /\ lag' = [w \in Slots |-> IF w \in W THEN LagOver(R, H, w) ELSE lag[w]]
     /\ Raced(W)

(* A window passes.  The collector may have missed it, or its bars may     *)
(* lack a price.                                                           *)
CollectWindow ==
  /\ now + 1 \in Slots
  /\ now' = now + 1
  /\ \E seen \in {"missed", "hollow", "full"} :
       IF seen = "missed" THEN UNCHANGED <<fives, tableVars, raced>>
       ELSE LET H == IF seen = "hollow" THEN hollow \cup {now'} ELSE hollow
            IN /\ fives' = fives \cup {now'}
               /\ rows' = rows \cup {now'} /\ hollow' = H
               /\ lag' = [lag EXCEPT ![now'] = LagOver(rows', H, now')]
               /\ Raced({now'})
  /\ UNCHANGED <<repair, redone>>

(* backfill_gap_apr22_29.py: the bars of its days from the vendor, then    *)
(* every window of those days again.  A window that fails aborts the one   *)
(* transaction they share: only the bars stay.                             *)
Reaggregate ==
  LET W == fives' \cap SlotsOf(GapDays)
  IN /\ SlotsOf(GapDays) \subseteq 1 .. now
     /\ fives' = fives \cup (Vendor \cap SlotsOf(GapDays))
     /\ \/ AggregateAll(W, hollow \ (W \cap Vendor)) /\ redone' = redone \cup W
        \/ UNCHANGED <<tableVars, raced, redone>>
     /\ UNCHANGED <<now, repair>>

(* post_backfill_etl.sh, step 2: the windows of bars later than the start   *)
(* of the table's last window, which is that window again and later ones.  *)
CatchUp ==
  LET W == {w \in fives : \A r \in rows : w >= r}
  IN /\ \E H \in {hollow \ W, hollow \cup (W \cap rows)} : AggregateAll(W, H)
     /\ UNCHANGED <<now, fives, repair, redone>>
----------------------------------------------------------------------------
\* Days that have a row and lack one, oldest first, as many as the limit lets.
Incomplete == {d \in TradeDays : SlotsOf({d}) \cap rows # {} /\ ~(SlotsOf({d}) \subseteq rows)}
Scanned == {d \in Incomplete : Cardinality(Before(Incomplete, d)) < Limit}

Detect(onlyNulls) ==
  LET gaps == IF onlyNulls THEN {} ELSE SlotsOf(Scanned) \ rows
      wanted == hollow \cup gaps
  IN /\ repair.phase = "idle" /\ wanted # {}
     /\ repair' = [Idle EXCEPT !.phase = "detected", !.wanted = wanted]
     /\ UNCHANGED <<now, fives, tableVars, raced, redone>>

\* Mutant of Affected: the day after a repaired day is not recomputed.
AffectedSameDay(d, D) == d \in D

\* A repaired day and the calendar day after it.
Affected(d, D) == d \in D \/ \E e \in D : Calendar(d) = Calendar(e) + 1

(* What FMP returned is upserted, and the derived columns of the affected  *)
(* days are computed again over the rows as they are now: not yet          *)
(* committed, and blind to what others have not committed.                 *)
Write ==
  LET found == repair.wanted \cap Vendor \cap 1 .. now
      R == rows \cup found
      H == hollow \ found
      days == {DayOf(w) : w \in found}
      targets == {w \in R : Affected(DayOf(w), days)}
  IN /\ repair.phase = "detected"
     /\ repair' = [repair EXCEPT !.phase = "written", !.found = found,
                                 !.lags = [w \in targets |-> LagOver(R, H, w)]]
     /\ UNCHANGED <<now, fives, tableVars, raced, redone>>

CommitRepair ==
  /\ repair.phase = "written"
  /\ rows' = rows \cup repair.found
  /\ hollow' = hollow \ repair.found
  /\ lag' = [w \in Slots |-> IF w \in DOMAIN repair.lags THEN repair.lags[w] ELSE lag[w]]
  /\ repair' = Idle
  /\ UNCHANGED <<now, fives, raced, redone>>

\* An exception, or a dry run: everything is rolled back.
Rollback == /\ repair.phase # "idle"
            /\ repair' = Idle
            /\ UNCHANGED <<now, fives, tableVars, raced, redone>>

RepairNext == \/ CollectWindow \/ CatchUp \/ Reaggregate
              \/ \E onlyNulls \in BOOLEAN : Detect(onlyNulls)
              \/ Write \/ CommitRepair \/ Rollback

RepairSpec == RepairInit /\ [][RepairNext]_repairVars
----------------------------------------------------------------------------
(* A derived column that no longer fits the table has one of three causes: *)
(* a weekend or a missing day lies between the row and the one before it   *)
(* (only the next calendar day is recomputed), one of the two was written  *)
(* while the backfill had not committed, or the row before it was          *)
(* re-aggregated and this one was not.                                     *)
StaleHasCause ==
  \A w \in rows : lag[w] # LagOver(rows, hollow, w) =>
    LET p == Pred(rows, w) IN
    \/ Calendar(DayOf(w)) > Calendar(DayOf(p)) + 1
    \/ w \in raced \/ p \in raced
    \/ p \in redone
=============================================================================
