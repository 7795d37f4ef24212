---------------------------- MODULE FrontendPages ----------------------------
(***************************************************************************)
(* The Streamlit frontend on the replay and the snapshot pages.  Answers   *)
(* of the backend are kept by st.cache_data, one cache for all sessions,   *)
(* an hour for most parts of a replay and a minute for its bars and for    *)
(* the list of snapshots.  One session is followed; the others use and     *)
(* fill the cache beside it.  A tick is the shorter lifetime: a request,   *)
(* which gives up after thirty seconds, is shorter.                        *)
(***************************************************************************)
EXTENDS Naturals, FiniteSets

CONSTANTS LongTtl,      \* ticks an hour-long entry lives
          MaxReloads,   \* bound: replays the backend serves, one after the other
          MaxBuilds     \* bound: snapshots built

ASSUME PagesAssumption == /\ LongTtl \in Nat \ {0, 1}
                          /\ MaxReloads \in Nat \ {0} /\ MaxBuilds \in Nat

\* What render_simulation() loads, in its order; the step in the fragment.
Loads == <<"session", "history", "ohlc", "base", "step">>
Keys == {Loads[i] : i \in 1 .. 5}
Served == 1 .. MaxReloads
Builds == 1 .. MaxBuilds

Ttl == [k \in Keys |-> IF k = "ohlc" THEN 1 ELSE LongTtl]

VARIABLES
  topic,     \* the pages the sessions are on: replays or snapshots, which
             \* have nothing in common
  served,    \* the replay the backend has loaded
  quiet,     \* ticks since it loaded it, as far as LongTtl + 1
  pageCache, \* the cached answer of each load; age Ttl[k] when there is none
  requests,  \* the request under way for each key: by whom, and its answer
  turn,      \* what the session's page does next
  page,      \* the replay each part of the page was loaded from, 0: none
  mode,      \* the radio button: base model or warm-refresh simulation
  caught,    \* history: the page's run began over an hour after the last
             \* reload, and there has been none since
  files,     \* the snapshot file of each build
  listing,   \* the cached list of snapshots; age 1 when there is none
  listed,    \* the request for the list under way
  mine,      \* the build this session's page has been told of
  names,     \* the list its page shows
  overtaken      \* history: the list was being loaded when this session cleared it

cacheVars == <<pageCache, requests>>
pageVars == <<turn, page, mode, caught>>
replayPageVars == <<served, quiet, cacheVars, page, mode, caught>>
snapshotVars == <<files, listing, listed, mine, names, overtaken>>
pagesVars == <<topic, served, quiet, cacheVars, pageVars, snapshotVars>>

Blank == [k \in Keys |-> 0]
NoRequest == [by |-> "none", answer |-> 0]
NoList == [names |-> {}, age |-> 1]
NoListing == [by |-> "none", names |-> {}]

PagesTypeOK ==
  /\ topic \in {"replay", "snapshots"}
  /\ served \in Served /\ quiet \in 0 .. LongTtl + 1
  /\ pageCache \in [Keys -> [value : 0 .. MaxReloads, age : 0 .. LongTtl]]
  /\ \A k \in Keys : pageCache[k].age <= Ttl[k]
  /\ requests \in [Keys -> [by : {"none", "me", "other"}, answer : 0 .. MaxReloads]]
  /\ turn \in Keys \cup {"idle", "drawn", "build", "clear", "list", "shown"}
  /\ page \in [Keys -> 0 .. MaxReloads] /\ mode \in {"base", "warm"} /\ caught \in BOOLEAN
  /\ files \in [Builds -> {"none", "part", "whole"}]
  /\ listing \in [names : SUBSET Builds, age : {0, 1}]
  /\ listed \in [by : {"none", "me", "other"}, names : SUBSET Builds]
  /\ mine \in {0} \cup Builds /\ names \subseteq Builds /\ overtaken \in BOOLEAN

PagesInit ==
  /\ topic \in {"replay", "snapshots"}
  /\ served = 1 /\ quiet = LongTtl + 1
  /\ pageCache = [k \in Keys |-> [value |-> 0, age |-> Ttl[k]]]
  /\ requests = [k \in Keys |-> NoRequest]
  /\ turn = "idle" /\ page = Blank /\ mode = "base" /\ caught = FALSE
  /\ files = [b \in Builds |-> "none"] /\ listing = NoList /\ listed = NoListing
  /\ mine = 0 /\ names = {} /\ overtaken = FALSE
----------------------------------------------------------------------------
Requesting == listed.by # "none" \/ \E k \in Keys : requests[k].by # "none"

\* Entries expire by their age, read or not.
PageTick ==
  /\ ~Requesting
  /\ quiet' = IF quiet > LongTtl THEN quiet ELSE quiet + 1
  /\ pageCache' = [k \in Keys |-> IF pageCache[k].age + 1 < Ttl[k]
                              THEN [pageCache[k] EXCEPT !.age = @ + 1]
                              ELSE [value |-> 0, age |-> Ttl[k]]]
  /\ listing' = NoList
  /\ UNCHANGED <<topic, served, requests, pageVars, files, listed, mine, names, overtaken>>

\* current_simulation has moved and the backend has reloaded its replay.
ReloadReplay == /\ served < MaxReloads /\ served' = served + 1 /\ quiet' = 0
                /\ caught' = FALSE
                /\ UNCHANGED <<topic, cacheVars, turn, page, mode, snapshotVars>>

(* A widget, or a visit, runs the page from the top; a run that is under   *)
(* way is dropped at its next element.                                       *)
OpenReplay == /\ turn # "session" /\ turn' = "session" /\ page' = Blank
              /\ mode' \in {"base", "warm"} /\ caught' = (quiet > LongTtl)
              /\ \A k \in Keys : requests[k].by # "me"
              /\ listed.by # "me"
              /\ UNCHANGED <<topic, served, quiet, cacheVars, snapshotVars>>

NextLoad(k) == CASE k = "session" -> "history" [] k = "history" -> "ohlc"
              [] k = "ohlc" -> "base" [] k = "base" /\ mode = "warm" -> "step"
              [] OTHER -> "drawn"
Cached(k) == pageCache[k].age < Ttl[k]

\* Mutant of Used: a hit makes the entry young again.
UsedAgain(k) == [pageCache EXCEPT ![k].age = 0]

Used(k) == pageCache

Hit(k) == /\ turn = k /\ Cached(k)
          /\ page' = [page EXCEPT ![k] = pageCache[k].value]
          /\ pageCache' = Used(k)
          /\ turn' = NextLoad(k)
          /\ UNCHANGED <<topic, served, quiet, requests, mode, caught, snapshotVars>>

(* A miss asks the backend; whoever else misses the key waits for that     *)
(* answer.  The answer is the replay loaded when the request gets there.   *)
(* Bound: the other sessions ask for one part at a time.                     *)
AskPage(k, who) == /\ ~Cached(k) /\ requests[k].by = "none"
               /\ \A j \in Keys : requests[j].by # who
               /\ requests' = [requests EXCEPT ![k] = [by |-> who, answer |-> served]]
               /\ UNCHANGED <<topic, served, quiet, pageCache, pageVars, snapshotVars>>

Answered(k) ==
  /\ requests[k].by # "none"
  /\ pageCache' = [pageCache EXCEPT ![k] = [value |-> requests[k].answer, age |-> 0]]
  /\ requests' = [requests EXCEPT ![k] = NoRequest]
  /\ IF requests[k].by = "me"
     THEN page' = [page EXCEPT ![k] = requests[k].answer] /\ turn' = NextLoad(k)
     ELSE UNCHANGED <<page, turn>>
  /\ UNCHANGED <<topic, served, quiet, mode, caught, snapshotVars>>

(* An error is not cached.  Without the day's bars the chart takes them    *)
(* from the history; without any other part there is no chart, and a       *)
(* timeout, which is no ApiError, ends the run wherever it is.             *)
AskFails(k) ==
  /\ turn = k /\ ~Cached(k) /\ requests[k].by \in {"none", "me"}
  /\ requests' = [requests EXCEPT ![k] = NoRequest]
  /\ turn' \in {"idle"} \cup (IF k = "ohlc" THEN {NextLoad(k)} ELSE {})
  /\ UNCHANGED <<topic, served, quiet, pageCache, page, mode, caught, snapshotVars>>

(* The slider runs the fragment alone: what the page had loaded for it is  *)
(* kept, however old, and the step is loaded anew.                         *)
Drag == /\ turn = "drawn" /\ mode = "warm"
        /\ turn' = "step" /\ page' = [page EXCEPT !.step = 0]
        /\ UNCHANGED <<topic, served, quiet, cacheVars, mode, caught, snapshotVars>>

\* What build_sim_chart() draws: the path of the step or of the base, bar
\* by bar, over the day's bars, without a look at their dates.
Drawn == {"session", "history", IF mode = "warm" THEN "step" ELSE "base"}
           \cup (IF page.ohlc = 0 THEN {} ELSE {"ohlc"})
----------------------------------------------------------------------------
OnDisk == {b \in Builds : files[b] # "none"}

(* build_snapshot() collects the rows and writes the file under its name,  *)
(* in view of the list from the first byte on.                             *)
BeginBuild == \E b \in Builds :
                /\ files[b] = "none" /\ \A c \in Builds : c < b => files[c] # "none"
                /\ files' = [files EXCEPT ![b] = "part"]
                /\ \/ turn \in {"idle", "shown"} /\ turn' = "build" /\ mine' = b
                   \/ UNCHANGED <<turn, mine>>
                /\ UNCHANGED <<topic, replayPageVars, listing, listed, names, overtaken>>

EndBuild == \E b \in Builds :
              /\ files[b] = "part" /\ files' = [files EXCEPT ![b] = "whole"]
              /\ turn' = IF turn = "build" /\ mine = b THEN "clear" ELSE turn
              /\ UNCHANGED <<topic, replayPageVars, listing, listed, mine, names, overtaken>>

(* The request is given up after thirty seconds; the backend goes on.      *)
(* requests.Timeout is no ApiError: the run ends where it stands.          *)
BuildTimesOut == /\ turn = "build" /\ turn' = "idle" /\ mine' = 0
                 /\ UNCHANGED <<topic, replayPageVars, files, listing, listed, names, overtaken>>

\* Mutant of Cleared: the list is loaded without clearing it.
ClearedNot == listing

Cleared == NoList

ClearList == /\ turn = "clear" /\ turn' = "list"
             /\ listing' = Cleared /\ overtaken' = (listed.by # "none")
             /\ UNCHANGED <<topic, replayPageVars, files, listed, mine, names>>

OpenSnapshots == /\ turn \in {"idle", "shown", "drawn"} /\ turn' = "list" /\ mine' = 0
                 /\ UNCHANGED <<topic, replayPageVars, files, listing, listed, names, overtaken>>

ListHit == /\ turn = "list" /\ listing.age = 0 /\ listed.by # "me"
           /\ names' = listing.names /\ turn' = "shown"
           /\ UNCHANGED <<topic, replayPageVars, files, listing, listed, mine, overtaken>>

AskList(who) == /\ listing.age = 1 /\ listed.by = "none"
                /\ listed' = [by |-> who, names |-> OnDisk]
                /\ UNCHANGED <<topic, turn, replayPageVars, files, listing, mine, names, overtaken>>

ListAnswered == /\ listed.by # "none"
                /\ listing' = [names |-> listed.names, age |-> 0] /\ listed' = NoListing
                /\ IF listed.by = "me" THEN names' = listed.names /\ turn' = "shown"
                   ELSE UNCHANGED <<names, turn>>
                /\ UNCHANGED <<topic, replayPageVars, files, mine, overtaken>>

ReplayPage ==
  \/ ReloadReplay \/ OpenReplay \/ Drag
  \/ \E k \in Keys : \/ Hit(k) \/ Answered(k) \/ AskFails(k) \/ AskPage(k, "other")
                     \/ turn = k /\ AskPage(k, "me")

SnapshotPage ==
  \/ BeginBuild \/ EndBuild \/ BuildTimesOut \/ ClearList \/ OpenSnapshots \/ ListHit
  \/ ListAnswered \/ AskList("other") \/ (turn = "list" /\ AskList("me"))

PagesNext == \/ PageTick
             \/ topic = "replay" /\ ReplayPage
             \/ topic = "snapshots" /\ SnapshotPage
----------------------------------------------------------------------------
ReplayCatchesUp == caught /\ turn = "drawn" => \A k \in Drawn : page[k] = served

BuiltIsListed ==
  turn = "shown" /\ mine # 0 /\ ~overtaken => mine \in names /\ files[mine] = "whole"

(* What a page may show from a cache that other sessions use and fill.  A  *)
(* replay page that was opened more than an hour after the backend last    *)
(* reloaded shows one replay, the loaded one, in all it draws, and in the  *)
(* steps the user drags it to, up to the next reload.  Who built a         *)
(* snapshot sees it in the list, whole, unless another session was just    *)
(* loading the list: its older answer then outlives the clearing.          *)
PagesCatchUp == ReplayCatchesUp /\ BuiltIsListed

PagesSpec == PagesInit /\ [][PagesNext]_pagesVars
=============================================================================
