---------------------------- MODULE ArchiveFiles ----------------------------
(***************************************************************************)
(* The 15-minute files of ml/data, who writes them and who loads them.     *)
(* fetch_sp500_data.py fills final_data/<SHARE>.csv, a share at a time, up *)
(* to COVERAGE_CUTOFF; it asks from the day after the last row on and      *)
(* rewrites the file in place.  load_final_data_to_postgres.py and         *)
(* historical_csv_data_load.py, pointed there by --csv-dir, put the files  *)
(* into a table each, the one in one transaction, the other in one per     *)
(* file, while the fetch may be at work.                                   *)
(* .fetch_progress.json is left out: a share is only passed over when its  *)
(* file says so (is_done), listed there or not.  Shares go in any order,   *)
(* for the order of the names; a row is a number, day by day.              *)
(***************************************************************************)
EXTENDS Naturals, FiniteSets

CONSTANTS Shares, NoShare,
          ArchiveDays,    \* days from FETCH_START to COVERAGE_CUTOFF
          DayRows,        \* rows of a day
          FileChunk,      \* days per request
          MaxProcesses    \* bound: runs of the three scripts

ASSUME ArchiveAssumption == /\ {ArchiveDays, DayRows, FileChunk} \subseteq Nat \ {0}
                            /\ MaxProcesses \in Nat
                            /\ NoShare \notin Shares

VARIABLES
  vendor,    \* the vendor has the rows up to this one
  archive,   \* the files of final_data; broken: rows that lack fields
  fetcher,   \* shares still to do, the one it writes, the rows it writes
  lost,      \* history: rows no run asks for again
  upload,    \* files still to do and all it listed, the rows it holds; "done"
             \* after a success, "off" after a failure
  stored,    \* the rows committed to the table of each loader
  raced,     \* history: a file was written since the loader began
  starts

filesVars == <<vendor, archive, fetcher, lost, upload, stored, raced, starts>>
fetchVars == <<archive, fetcher, lost, raced>>
loadVars == <<upload, stored>>

FileRows == 1 .. ArchiveDays * DayRows
FileDays == 1 .. ArchiveDays
RowDay(r) == (r + DayRows - 1) \div DayRows
RowSets == [Shares -> SUBSET FileRows]
NoRows == [t \in Shares |-> {}]

(* "bare": without a header; "garbled": the date of the last row is cut.   *)
FileStates == {"none", "whole", "bare", "garbled"}
Files == [state : FileStates, rows : SUBSET FileRows, broken : SUBSET FileRows]
Fetchers == [stage : {"idle", "look", "open", "write"}, todo : SUBSET Shares,
             share : Shares \cup {NoShare}, answer : SUBSET FileRows,
             broken : SUBSET FileRows]
Loaders == [stage : {"off", "final", "staging", "done"}, into : {"final", "staging"},
            flag : BOOLEAN, todo : SUBSET Shares, listed : SUBSET Shares,
            held : RowSets, failed : BOOLEAN]

FilesTypeOK ==
  /\ vendor \in 0 .. ArchiveDays * DayRows
  /\ archive \in [Shares -> Files]
  /\ fetcher \in Fetchers
  /\ lost \in RowSets
  /\ upload \in Loaders
  /\ stored \in [{"final", "staging"} -> RowSets]
  /\ raced \in BOOLEAN
  /\ starts \in Nat

FetcherOff == [stage |-> "idle", todo |-> {}, share |-> NoShare, answer |-> {},
               broken |-> {}]
LoaderOff == [stage |-> "off", into |-> "final", flag |-> FALSE, todo |-> {},
              listed |-> {}, held |-> NoRows, failed |-> FALSE]

FilesInit ==
  /\ vendor = 0
  /\ archive = [t \in Shares |-> [state |-> "none", rows |-> {}, broken |-> {}]]
  /\ fetcher = FetcherOff
  /\ lost = NoRows
  /\ upload = LoaderOff
  /\ stored = [m \in {"final", "staging"} |-> NoRows]
  /\ raced = FALSE
  /\ starts = 0

VendorGrows == /\ vendor < ArchiveDays * DayRows
               /\ vendor' = vendor + 1
               /\ UNCHANGED <<fetchVars, loadVars, starts>>

Starts == starts < MaxProcesses /\ starts' = starts + 1

\* The vendor's rows of some days, but for the requests that all failed.
\* Requests go by FileChunk of these days at a time.
Request(days, d) == Cardinality({e \in days : e < d}) \div FileChunk
Answer(days, failed) == {r \in FileRows : /\ r <= vendor /\ RowDay(r) \in days
                                          /\ Request(days, RowDay(r)) \notin failed}
Requests(days) == {Request(days, d) : d \in days}
-----------------------------------------------------------------------------
(* fetch_sp500_data.py                                                      *)

\* --existing-only, --limit, or a list of its own: some of the shares.
BeginFetch(some) ==
  /\ fetcher.stage = "idle"
  /\ Starts
  /\ fetcher' = [FetcherOff EXCEPT !.stage = "look", !.todo = some]
  /\ UNCHANGED <<vendor, archive, lost, raced, loadVars>>

\* From the day after the last row of the file on, all days without a file.
MissingDays(t) == {d \in FileDays : \A r \in archive[t].rows : RowDay(r) < d}

\* detect_gap(): a file it cannot read counts as covered.
IsCovered(t) == archive[t].state \in {"bare", "garbled"} \/ MissingDays(t) = {}

NextShare(t) == [FetcherOff EXCEPT !.stage = "look", !.todo = fetcher.todo \ {t}]

PassOver(t) ==
  /\ fetcher.stage = "look" /\ t \in fetcher.todo
  /\ IsCovered(t)
  /\ fetcher' = NextShare(t)
  /\ UNCHANGED <<vendor, archive, lost, raced, loadVars, starts>>

\* The rest of the file's last day, which is not asked for.
RestOfDay(t) == {r \in FileRows : \E q \in archive[t].rows :
                    /\ q < r /\ RowDay(q) = RowDay(r)
                    /\ \A p \in archive[t].rows : p <= q}

\* Request by request; a request that failed for good is passed over.
FetchShare(t, failed) ==
  LET days == MissingDays(t)
      answer == Answer(days, failed)
  IN /\ fetcher.stage = "look" /\ t \in fetcher.todo
     /\ ~IsCovered(t)
     /\ lost' = [lost EXCEPT ![t] = @ \cup RestOfDay(t) \cup
          {r \in FileRows : RowDay(r) \in days /\ Request(days, RowDay(r)) \in failed}]
     /\ fetcher' = IF answer = {} THEN NextShare(t)
                   ELSE [fetcher EXCEPT !.stage = "open", !.share = t, !.answer = answer]
     /\ UNCHANGED <<vendor, archive, raced, loadVars, starts>>

\* Mutant of Merged: the file is replaced by the answer.
MergedNot(t) == fetcher.answer

\* The rows of the file with those of the answer.
Merged(t) == archive[t].rows \cup fetcher.answer

(* to_csv() empties the file and writes it from the first row on: while it *)
(* is at it, a reader finds some first rows, the last of them cut perhaps. *)
OpenFile(t, last, state, cut) ==
  LET rows == IF state = "bare" THEN {} ELSE {r \in Merged(t) : r <= last}
  IN /\ fetcher.stage = "open" /\ fetcher.share = t
     /\ state # "none" /\ (cut => state = "whole")
     /\ archive' = [archive EXCEPT ![t] =
          [state |-> state, rows |-> rows,
           broken |-> {r \in rows : r \in @.broken \/ (cut /\ r = last)}]]
     /\ fetcher' = [fetcher EXCEPT !.stage = "write", !.answer = Merged(t),
                                   !.broken = archive[t].broken]
     /\ raced' = TRUE
     /\ UNCHANGED <<vendor, lost, loadVars, starts>>

\* A row that lacked fields in the old file has empty ones in the new.
WriteFile(t) ==
  /\ fetcher.stage = "write" /\ fetcher.share = t
  /\ archive' = [archive EXCEPT ![t] =
       [state |-> "whole", rows |-> fetcher.answer, broken |-> fetcher.broken]]
  /\ fetcher' = NextShare(t)
  /\ raced' = TRUE
  /\ UNCHANGED <<vendor, lost, loadVars, starts>>

\* Ctrl+C, an HTTP error that is not tried again, or the end of the list.
FetchEnds ==
  /\ fetcher.stage # "idle"
  /\ fetcher' = FetcherOff
  /\ UNCHANGED <<vendor, archive, lost, raced, loadVars, starts>>
-----------------------------------------------------------------------------
(* The loaders.  "flag" is --truncate of the one, --skip-invalid-rows of    *)
(* the other.  A row without all its fields is invalid to both, and so is   *)
(* one with half a date.                                                    *)

BeginLoad(into, flag, listed) ==
  /\ upload.stage \in {"off", "done"}
  /\ Starts
  /\ \A t \in listed : archive[t].state # "none"
  /\ upload' = [stage |-> into, into |-> into, flag |-> flag, todo |-> listed,
                listed |-> listed, held |-> NoRows, failed |-> FALSE]
  /\ raced' = FALSE
  /\ UNCHANGED <<vendor, archive, fetcher, lost, stored>>

\* A row that cannot be converted, or a file without a header, which only
\* the loader of the staging table minds.
IsValid(t) == archive[t].state # "garbled" /\ archive[t].broken = {}

\* load_files(): into the temporary table; an error ends it all.
LoadFile(t) ==
  /\ upload.stage = "final" /\ t \in upload.todo
  /\ upload' = IF IsValid(t)
               THEN [upload EXCEPT !.todo = @ \ {t}, !.held[t] = archive[t].rows]
               ELSE LoaderOff
  /\ UNCHANGED <<vendor, fetchVars, stored, starts>>

\* --truncate, the upsert of all that is held, and the commit.
CommitLoad ==
  /\ upload.stage = "final" /\ upload.todo = {}
  /\ stored' = [stored EXCEPT !["final"] = [t \in Shares |->
       upload.held[t] \cup IF upload.flag THEN {} ELSE @[t]]]
  /\ upload' = [upload EXCEPT !.stage = "done", !.held = NoRows]
  /\ UNCHANGED <<vendor, fetchVars, starts>>

\* The rows of a file that are stored, or none of them.
StageFile(t) ==
  LET fails == archive[t].state = "bare" \/ ~(upload.flag \/ IsValid(t))
  IN /\ upload.stage = "staging" /\ t \in upload.todo
     /\ stored' = IF fails THEN stored
                  ELSE [stored EXCEPT !["staging"][t] =
                          @ \cup (archive[t].rows \ archive[t].broken)]
     /\ upload' = IF fails /\ ~upload.flag
                  THEN LoaderOff
                  ELSE [upload EXCEPT !.todo = @ \ {t}, !.failed = @ \/ fails]
     /\ UNCHANGED <<vendor, fetchVars, starts>>

EndStaging ==
  /\ upload.stage = "staging" /\ upload.todo = {}
  /\ upload' = IF upload.failed THEN LoaderOff ELSE [upload EXCEPT !.stage = "done"]
  /\ UNCHANGED <<vendor, fetchVars, stored, starts>>

LoaderDies ==
  /\ upload.stage \in {"final", "staging"}
  /\ upload' = LoaderOff
  /\ UNCHANGED <<vendor, fetchVars, stored, starts>>
-----------------------------------------------------------------------------
FetcherStep ==
  \/ \E some \in SUBSET Shares : BeginFetch(some)
  \/ \E t \in Shares :
       \/ PassOver(t) \/ WriteFile(t)
       \/ \E failed \in SUBSET Requests(MissingDays(t)) : FetchShare(t, failed)
       \/ \E last \in FileRows, state \in FileStates, cut \in BOOLEAN :
            OpenFile(t, last, state, cut)
  \/ FetchEnds

LoaderStep ==
  \/ \E into \in {"final", "staging"}, flag \in BOOLEAN, listed \in SUBSET Shares :
       BeginLoad(into, flag, listed)
  \/ \E t \in Shares : LoadFile(t) \/ StageFile(t)
  \/ CommitLoad \/ EndStaging \/ LoaderDies

FilesNext == VendorGrows \/ FetcherStep \/ LoaderStep

FilesSpec == FilesInit /\ [][FilesNext]_filesVars
-----------------------------------------------------------------------------
\* "Fully resumable": a row that is missing from a file below its last one
\* was in a request that failed, or belongs to a day whose beginning some run
\* had found as the file's end, wherever earlier runs were interrupted
\* (fetch_sp500_data.py:12, 258, 376).
HolesHaveCause ==
  \A t \in Shares : \A q \in archive[t].rows : \A r \in FileRows :
    r < q /\ r \notin archive[t].rows => r \in lost[t]

\* A load that reports success while no file was written has put every valid
\* row of the files it listed into its table; the one of the final table all
\* rows, and with --truncate nothing else.
LoadIsWhole ==
  upload.stage = "done" /\ ~raced =>
    LET table == stored[upload.into] IN
    /\ \A t \in upload.listed : archive[t].rows \ archive[t].broken \subseteq table[t]
    /\ upload.into = "final" =>
         /\ \A t \in upload.listed : IsValid(t) /\ archive[t].rows \subseteq table[t]
         /\ upload.flag => \A t \in Shares :
              table[t] = IF t \in upload.listed THEN archive[t].rows ELSE {}
=============================================================================
