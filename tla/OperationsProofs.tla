-------------------------- MODULE OperationsProofs --------------------------
(***************************************************************************)
(* Proofs about the parts that people, scripts and sessions share by way   *)
(* of tables, files and caches, each for every value of its constants: the *)
(* frontend's pages, the stocks and prices that the bootstrap and the      *)
(* seeds put down, the per-ticker tables that two scripts fill, the        *)
(* operator's base-model script as the dashboard shows it, and the files   *)
(* of the vendor's archive with their loaders and their report.            *)
(***************************************************************************)
EXTENDS FrontendPages, ReferenceTables, TickerTables, BaseFlow, VendorLanding,
        FiniteSetTheorems, SequenceTheorems, WellFoundedInduction, TLAPS

-----------------------------------------------------------------------------
(* The frontend's pages.                                                    *)

LEMMA KeysAre == Keys = {"session", "history", "ohlc", "base", "step"}
<1>1. Loads[1] = "session" /\ Loads[2] = "history" /\ Loads[3] = "ohlc"
      /\ Loads[4] = "base" /\ Loads[5] = "step"
  BY DEF Loads
<1>2. 1 .. 5 = {1, 2, 3, 4, 5}
  OBVIOUS
<1> QED BY <1>1, <1>2 DEF Keys

\* What is cached or on its way is an answer of the backend, and an older
\* replay than the loaded one is as old as the reload that replaced it.
AnswersAge == \A k \in Keys :
  /\ Cached(k) => /\ pageCache[k].value \in Served
                  /\ pageCache[k].value = served \/ pageCache[k].age >= quiet
  /\ requests[k].by # "none" => /\ requests[k].answer \in Served
                                /\ requests[k].answer = served \/ quiet = 0

\* The session waits for one part, which is not in the cache.
WaitsForOne == \A k \in Keys : requests[k].by = "me" => turn = k /\ ~Cached(k)

\* The parts are loaded in their order; only the day's bars may be missing.
InOrder == /\ turn \in {"history", "ohlc", "base", "step", "drawn"} => page.session # 0
           /\ turn \in {"ohlc", "base", "step", "drawn"} => page.history # 0
           /\ turn \in {"step", "drawn"} => page.base # 0
           /\ turn = "step" => mode = "warm"
           /\ turn = "drawn" /\ mode = "warm" => page.step # 0

CaughtIsNow == caught => quiet > LongTtl /\ \A k \in Keys : page[k] \in {0, served}

TopicsApart ==
  /\ topic = "replay" => /\ listed.by = "none" /\ mine = 0
                         /\ turn \in Keys \cup {"idle", "drawn"}
  /\ topic = "snapshots" => /\ \A k \in Keys : requests[k].by = "none"
                            /\ turn \in {"idle", "build", "clear", "list", "shown"}

\* The session's own build: written, then in every list loaded after it
\* cleared the old one, but for one that was being loaded just then.
BuildSeen ==
  /\ turn = "build" => mine # 0
  /\ mine # 0 => turn \in {"build", "clear", "list", "shown"} /\ files[mine] # "none"
  /\ mine # 0 /\ turn \in {"clear", "list", "shown"} => files[mine] = "whole"
  /\ mine # 0 /\ turn \in {"list", "shown"} /\ ~overtaken =>
       /\ listing.age = 0 => mine \in listing.names
       /\ listed.by # "none" => mine \in listed.names
  /\ listed.by = "me" => turn = "list" /\ listing.age = 1

PagesInd == /\ PagesTypeOK /\ AnswersAge /\ WaitsForOne /\ InOrder /\ CaughtIsNow
            /\ TopicsApart /\ BuildSeen /\ PagesCatchUp

LEMMA TtlIs == \A k \in Keys : Ttl[k] \in 1 .. LongTtl
  BY PagesAssumption DEF Ttl

LEMMA PagesInitially == PagesInit => PagesInd
<1> SUFFICES ASSUME PagesInit PROVE PagesInd
  OBVIOUS
<1> USE PagesAssumption, KeysAre DEF PagesInit
<1>1. PagesTypeOK
  <2>1. pageCache \in [Keys -> [value : 0 .. MaxReloads, age : 0 .. LongTtl]]
    BY DEF Ttl
  <2>2. requests \in [Keys -> [by : {"none", "me", "other"}, answer : 0 .. MaxReloads]]
    BY DEF NoRequest
  <2>3. listing \in [names : SUBSET Builds, age : {0, 1}]
        /\ listed \in [by : {"none", "me", "other"}, names : SUBSET Builds]
    BY DEF NoList, NoListing
  <2>4. \A k \in Keys : pageCache[k].age <= Ttl[k]
    BY TtlIs
  <2>5. page \in [Keys -> 0 .. MaxReloads] /\ files \in [Builds -> {"none", "part", "whole"}]
    BY DEF Blank
  <2>6. served \in Served /\ quiet \in 0 .. LongTtl + 1
    BY DEF Served
  <2> QED BY <2>1, <2>2, <2>3, <2>4, <2>5, <2>6 DEF PagesTypeOK
<1>2. AnswersAge /\ WaitsForOne
  BY TtlIs DEF AnswersAge, WaitsForOne, Cached, NoRequest
<1>3. InOrder /\ CaughtIsNow /\ TopicsApart /\ BuildSeen
  BY DEF InOrder, CaughtIsNow, TopicsApart, BuildSeen, NoRequest, NoListing, Blank
<1>4. PagesCatchUp
  BY DEF PagesCatchUp, ReplayCatchesUp, BuiltIsListed
<1> QED BY <1>1, <1>2, <1>3, <1>4 DEF PagesInd

LEMMA CachedSince == ASSUME PagesInd, NEW k \in Keys, Cached(k)
                     PROVE  /\ pageCache[k].value \in 1 .. MaxReloads
                            /\ quiet > LongTtl => pageCache[k].value = served
  BY PagesAssumption DEF PagesInd, PagesTypeOK, AnswersAge, Cached, Ttl, Served

LEMMA PagesTypes == PagesInd /\ [PagesNext]_pagesVars => PagesTypeOK'
<1> SUFFICES ASSUME PagesInd, [PagesNext]_pagesVars PROVE PagesTypeOK'
  OBVIOUS
<1> USE PagesAssumption, KeysAre DEF PagesInd, PagesTypeOK, Served
<1>1. CASE PageTick
  <2>1. pageCache' \in [Keys -> [value : 0 .. MaxReloads, age : 0 .. LongTtl]]
    BY <1>1 DEF PageTick, Ttl
  <2>2. \A k \in Keys : pageCache'[k].age <= Ttl[k]
    BY <1>1 DEF PageTick, Ttl
  <2>3. listing' \in [names : SUBSET Builds, age : {0, 1}]
    BY <1>1 DEF PageTick, NoList
  <2> QED BY <1>1, <2>1, <2>2, <2>3 DEF PageTick, pageVars
<1>2. CASE ReplayPage
  <2>1. CASE ReloadReplay
    <3>1. served' = served + 1 /\ served < MaxReloads /\ quiet' = 0 /\ caught' = FALSE
      BY <2>1 DEF ReloadReplay
    <3>2. served' \in 1 .. MaxReloads /\ quiet' \in 0 .. LongTtl + 1
      BY <3>1
    <3> QED BY <2>1, <3>1, <3>2 DEF ReloadReplay, cacheVars, snapshotVars
  <2>2. CASE OpenReplay
    BY <2>2 DEF OpenReplay, Blank, cacheVars, snapshotVars
  <2>3. CASE Drag
    BY <2>3 DEF Drag, cacheVars, snapshotVars
  <2>4. ASSUME NEW k \in Keys, Hit(k) PROVE PagesTypeOK'
    BY <2>4 DEF Hit, NextLoad, Used, snapshotVars
  <2>5. ASSUME NEW k \in Keys, Answered(k) PROVE PagesTypeOK'
    <3>1. requests' \in [Keys -> [by : {"none", "me", "other"}, answer : 0 .. MaxReloads]]
      BY <2>5 DEF Answered, NoRequest
    <3>2. pageCache' \in [Keys -> [value : 0 .. MaxReloads, age : 0 .. LongTtl]]
      BY <2>5 DEF Answered
    <3>3. \A j \in Keys : pageCache'[j].age <= Ttl[j]
      BY <2>5 DEF Answered, Ttl
    <3>4. page' \in [Keys -> 0 .. MaxReloads]
          /\ turn' \in Keys \cup {"idle", "drawn", "build", "clear", "list", "shown"}
      BY <2>5 DEF Answered, NextLoad
    <3> QED BY <2>5, <3>1, <3>2, <3>3, <3>4 DEF Answered, snapshotVars
  <2>6. ASSUME NEW k \in Keys, AskFails(k) PROVE PagesTypeOK'
    <3>1. requests' \in [Keys -> [by : {"none", "me", "other"}, answer : 0 .. MaxReloads]]
      BY <2>6 DEF AskFails, NoRequest
    <3> QED BY <2>6, <3>1 DEF AskFails, NextLoad, snapshotVars
  <2>7. ASSUME NEW k \in Keys, NEW who \in {"me", "other"}, AskPage(k, who)
        PROVE  PagesTypeOK'
    <3>1. requests' \in [Keys -> [by : {"none", "me", "other"}, answer : 0 .. MaxReloads]]
      BY <2>7 DEF AskPage
    <3> QED BY <2>7, <3>1 DEF AskPage, pageVars, snapshotVars
  <2> QED BY <1>2, <2>1, <2>2, <2>3, <2>4, <2>5, <2>6, <2>7 DEF ReplayPage
<1>3. CASE SnapshotPage
  <2> USE DEF replayPageVars, cacheVars
  <2>1. CASE BeginBuild
    BY <2>1 DEF BeginBuild
  <2>2. CASE EndBuild
    BY <2>2 DEF EndBuild
  <2>3. CASE BuildTimesOut
    BY <2>3 DEF BuildTimesOut
  <2>4. CASE ClearList
    <3>1. listing' \in [names : SUBSET Builds, age : {0, 1}]
      BY <2>4 DEF ClearList, Cleared, NoList
    <3> QED BY <2>4, <3>1 DEF ClearList
  <2>5. CASE OpenSnapshots
    BY <2>5 DEF OpenSnapshots
  <2>6. CASE ListHit
    BY <2>6 DEF ListHit
  <2>7. CASE ListAnswered
    <3>1. /\ listing' \in [names : SUBSET Builds, age : {0, 1}]
          /\ listed' \in [by : {"none", "me", "other"}, names : SUBSET Builds]
      BY <2>7 DEF ListAnswered, NoListing
    <3> QED BY <2>7, <3>1 DEF ListAnswered
  <2>8. ASSUME NEW who \in {"me", "other"}, AskList(who) PROVE PagesTypeOK'
    <3>1. listed' \in [by : {"none", "me", "other"}, names : SUBSET Builds]
      BY <2>8 DEF AskList, OnDisk
    <3> QED BY <2>8, <3>1 DEF AskList
  <2> QED BY <1>3, <2>1, <2>2, <2>3, <2>4, <2>5, <2>6, <2>7, <2>8 DEF SnapshotPage
<1>4. CASE UNCHANGED pagesVars
  BY <1>4 DEF pagesVars, cacheVars, pageVars, snapshotVars
<1> QED BY <1>1, <1>2, <1>3, <1>4 DEF PagesNext

LEMMA PagesStep == PagesInd /\ [PagesNext]_pagesVars => PagesInd'
<1> SUFFICES ASSUME PagesInd, [PagesNext]_pagesVars PROVE PagesInd'
  OBVIOUS
<1>0. PagesTypeOK /\ PagesTypeOK' /\ PagesInd
  BY PagesTypes DEF PagesInd
<1> USE <1>0, PagesAssumption, KeysAre, TtlIs DEF PagesTypeOK, Served
<1> DEFINE Goal == (AnswersAge /\ WaitsForOne /\ InOrder /\ CaughtIsNow /\ TopicsApart
                    /\ BuildSeen /\ PagesCatchUp)'
<1> USE DEF PagesCatchUp, ReplayCatchesUp, BuiltIsListed, Drawn
<1>1. CASE PageTick
  <2>1. \A k \in Keys : requests[k].by = "none" /\ listed.by = "none"
    BY <1>1 DEF PageTick, Requesting
  <2>2. AnswersAge' /\ WaitsForOne'
    BY <1>1, <2>1 DEF PageTick, AnswersAge, WaitsForOne, Cached, PagesInd
  <2>3. InOrder' /\ CaughtIsNow' /\ TopicsApart' /\ PagesCatchUp'
    BY <1>1 DEF PageTick, pageVars, InOrder, CaughtIsNow, TopicsApart, PagesInd
  <2>4. BuildSeen'
    BY <1>1, <2>1 DEF PageTick, pageVars, BuildSeen, NoList, PagesInd
  <2> QED BY <2>2, <2>3, <2>4 DEF PagesInd
<1>2. CASE topic = "replay" /\ ReplayPage
  <2>0. listed.by = "none" /\ mine = 0
    BY <1>2 DEF PagesInd, TopicsApart
  <2>1. CASE ReloadReplay
    BY <2>0, <2>1, <1>2 DEF ReloadReplay, cacheVars, snapshotVars, AnswersAge, WaitsForOne,
      InOrder, CaughtIsNow, TopicsApart, BuildSeen, Cached, PagesInd
  <2>2. CASE OpenReplay
    BY <2>0, <2>2, <1>2 DEF OpenReplay, Blank, cacheVars, snapshotVars, AnswersAge, WaitsForOne,
      InOrder, CaughtIsNow, TopicsApart, BuildSeen, Cached, PagesInd
  <2>3. CASE Drag
    BY <2>0, <2>3, <1>2 DEF Drag, cacheVars, snapshotVars, AnswersAge, WaitsForOne,
      InOrder, CaughtIsNow, TopicsApart, BuildSeen, Cached, PagesInd
  <2>4. ASSUME NEW k \in Keys, Hit(k) PROVE Goal
    BY <2>0, <2>4, <1>2, CachedSince DEF Hit, NextLoad, Used, snapshotVars, AnswersAge,
      WaitsForOne, InOrder, CaughtIsNow, TopicsApart, BuildSeen, Cached, PagesInd
  <2>5. ASSUME NEW k \in Keys, Answered(k) PROVE Goal
    BY <2>0, <2>5, <1>2 DEF Answered, NextLoad, NoRequest, snapshotVars, AnswersAge,
      WaitsForOne, InOrder, CaughtIsNow, TopicsApart, BuildSeen, Cached, PagesInd
  <2>6. ASSUME NEW k \in Keys, AskFails(k) PROVE Goal
    BY <2>0, <2>6, <1>2 DEF AskFails, NextLoad, NoRequest, snapshotVars, AnswersAge,
      WaitsForOne, InOrder, CaughtIsNow, TopicsApart, BuildSeen, Cached, PagesInd
  <2>7. ASSUME NEW k \in Keys, AskPage(k, "other") \/ (turn = k /\ AskPage(k, "me"))
        PROVE  Goal
    BY <2>0, <2>7, <1>2 DEF AskPage, pageVars, snapshotVars, AnswersAge,
      WaitsForOne, InOrder, CaughtIsNow, TopicsApart, BuildSeen, Cached, PagesInd
  <2> QED BY <1>2, <2>1, <2>2, <2>3, <2>4, <2>5, <2>6, <2>7 DEF ReplayPage, PagesInd
<1>3. CASE topic = "snapshots" /\ SnapshotPage
  <2> USE <1>3 DEF replayPageVars, cacheVars, PagesInd, AnswersAge, WaitsForOne, InOrder,
                   CaughtIsNow, TopicsApart, BuildSeen, Cached
  <2>1. CASE BeginBuild
    <3>1. PICK b \in Builds : /\ files[b] = "none" /\ files' = [files EXCEPT ![b] = "part"]
                              /\ \/ turn \in {"idle", "shown"} /\ turn' = "build" /\ mine' = b
                                 \/ UNCHANGED <<turn, mine>>
      BY <2>1 DEF BeginBuild
    <3>2. files'[b] = "part" /\ \A c \in Builds \ {b} : files'[c] = files[c]
      BY <3>1
    <3>3. b # 0 /\ mine # b
      <4>1. mine # 0 => files[mine] # "none"
        BY DEF PagesInd
      <4>2. b # 0
        BY DEF Builds
      <4> QED BY <3>1, <4>1, <4>2
    <3>4. UNCHANGED <<listing, listed, names, overtaken>>
      BY <2>1 DEF BeginBuild
    <3>5. CASE turn \in {"idle", "shown"} /\ turn' = "build" /\ mine' = b
      BY <2>1, <3>2, <3>3, <3>4, <3>5 DEF BeginBuild
    <3>6. CASE UNCHANGED <<turn, mine>>
      BY <2>1, <3>2, <3>3, <3>4, <3>6 DEF BeginBuild
    <3> QED BY <3>1, <3>5, <3>6
  <2>2. CASE EndBuild
    BY <2>2 DEF EndBuild
  <2>3. CASE BuildTimesOut
    BY <2>3 DEF BuildTimesOut
  <2>4. CASE ClearList
    <3>1. listing' = NoList /\ listing'.age = 1
      BY <2>4 DEF ClearList, Cleared, NoList
    <3>2. turn = "clear" /\ turn' = "list" /\ overtaken' = (listed.by # "none")
          /\ UNCHANGED <<files, listed, mine, names>>
      BY <2>4 DEF ClearList
    <3>3. BuildSeen'
      <4>1. mine' # 0 => files'[mine'] = "whole" /\ mine' = mine
        BY <3>2
      <4>2. listed'.by # "me" /\ listed' = listed /\ turn' = "list"
        BY <3>2
      <4>3. ~overtaken' => listed'.by = "none"
        BY <3>2
      <4> HIDE DEF PagesInd
      <4> QED BY <3>1, <4>1, <4>2, <4>3
    <3>4. UNCHANGED <<topic, served, quiet, pageCache, requests, page, mode, caught>>
      BY <2>4 DEF ClearList
    <3>5. (InOrder /\ CaughtIsNow /\ TopicsApart)'
      BY <3>2, <3>4
    <3>6. AnswersAge' /\ WaitsForOne'
      BY <3>2, <3>4
    <3> QED BY <3>2, <3>3, <3>5, <3>6
  <2>5. CASE OpenSnapshots
    BY <2>5 DEF OpenSnapshots
  <2>6. CASE ListHit
    BY <2>6 DEF ListHit
  <2>7. CASE ListAnswered
    BY <2>7 DEF ListAnswered, NoListing
  <2>8. CASE AskList("other") \/ (turn = "list" /\ AskList("me"))
    BY <2>8 DEF AskList, OnDisk
  <2> QED BY <1>3, <2>1, <2>2, <2>3, <2>4, <2>5, <2>6, <2>7, <2>8 DEF SnapshotPage
<1>4. CASE UNCHANGED pagesVars
  BY <1>4 DEF pagesVars, cacheVars, pageVars, snapshotVars, AnswersAge, WaitsForOne,
    InOrder, CaughtIsNow, TopicsApart, BuildSeen, Cached, PagesInd
<1> QED BY <1>1, <1>2, <1>3, <1>4 DEF PagesNext, PagesInd

\* A session's page shows one replay, the loaded one, when it was opened an
\* hour after the last reload, whatever the other sessions ask for and drop;
\* and who built a snapshot finds it in the list, whole.
THEOREM PagesAlwaysCatchUp == PagesSpec => []PagesCatchUp
<1>1. PagesInd => PagesCatchUp
  BY DEF PagesInd
<1> QED BY PagesInitially, PagesStep, <1>1, PTL DEF PagesSpec

-----------------------------------------------------------------------------
(* The reference tables.                                                    *)

\* What makes a mixed price table explicable before it is mixed: rows that
\* landed behind the bootstrap's count, and made-up rows that came between
\* the backfill's truncation and its end.
SeedIsWarned == boot.stage = "counted" /\ boot.empty =>
                  \A s \in Symbols : Real(s) => "race" \in causes[s]

FillIsWarned == fill.stage = "wiped" =>
                  \A s \in Symbols : Made(s) => "window" \in causes[s]

\* The bootstrap has put its stocks there; only the seed DAG takes them away.
StocksStay == boot.stage = "seeded" /\ stocks = {} => wipe \in {"truncated", "failed"}

RefInd == RefTypeOK /\ SeedIsWarned /\ FillIsWarned /\ StocksStay /\ TablesHaveCause

LEMMA RefInitially == RefInit => RefInd
<1> SUFFICES ASSUME RefInit PROVE RefInd
  OBVIOUS
<1> USE RefAssumption DEF RefInit, NoPrices, Made, Real
<1>1. RefTypeOK
  <2>1. prices \in [Symbols -> [AllDays -> {"none", "made", "real"}]]
    OBVIOUS
  <2>2. boot \in [stage : {"off", "counted", "seeded", "up", "failed", "dead"},
               empty : BOOLEAN]
    OBVIOUS
  <2>3. fill \in [stage : {"off", "read", "wiped"}, todo : SUBSET Symbols]
    OBVIOUS
  <2> QED BY <2>1, <2>2, <2>3 DEF RefTypeOK
<1>2. SeedIsWarned /\ FillIsWarned /\ StocksStay
  BY DEF SeedIsWarned, FillIsWarned, StocksStay
<1>3. TablesHaveCause
  BY DEF TablesHaveCause, MixHasCause, BarsAreListed
<1> QED BY <1>1, <1>2, <1>3 DEF RefInd

\* An upsert makes the days real and changes nothing else.
LEMMA UpsertedIs ==
  ASSUME RefTypeOK, NEW S \in SUBSET Symbols, NEW days \in SUBSET AllDays,
         prices' = Upserted(S, days)
  PROVE  /\ prices' \in [Symbols -> [AllDays -> {"none", "made", "real"}]]
         /\ \A s \in Symbols : Made(s)' => Made(s)
         /\ \A s \in Symbols \ S : Real(s)' => Real(s)
<1>1. \A s \in Symbols, d \in AllDays :
        prices'[s][d] = IF s \in S /\ d \in days THEN "real" ELSE prices[s][d]
  BY DEF Upserted
<1>2. prices' \in [Symbols -> [AllDays -> {"none", "made", "real"}]]
  BY DEF Upserted, RefTypeOK
<1> QED BY <1>1, <1>2 DEF Made, Real

LEMMA BecauseIs ==
  ASSUME RefTypeOK, NEW why \in Reasons, NEW S \in SUBSET Symbols, Because(why, S)
  PROVE  /\ causes' \in [Symbols -> SUBSET Reasons]
         /\ \A s \in Symbols : causes[s] \subseteq causes'[s]
         /\ \A s \in S : why \in causes'[s]
  BY DEF Because, RefTypeOK

\* A table without rows has no mixed symbol.
LEMMA NoPricesIs ==
  ASSUME prices' = NoPrices
  PROVE  /\ prices' \in [Symbols -> [AllDays -> {"none", "made", "real"}]]
         /\ \A s \in Symbols : ~Made(s)' /\ ~Real(s)'
  BY DEF NoPrices, Made, Real

LEMMA BootStep ==
  ASSUME RefInd, BootCount \/ BootSeed \/ BootCheck \/ BootDies PROVE RefInd'
<1> USE RefAssumption DEF RefInd, RefTypeOK, TablesHaveCause
<1>1. CASE BootCount
  <2>1. Empty => \A s \in Symbols : ~Real(s)
    BY DEF Empty, HoldsNone, Real
  <2>2. boot' \in [stage : {"off", "counted", "seeded", "up", "failed", "dead"},
                   empty : BOOLEAN]
    BY <1>1 DEF BootCount, Empty, HoldsNone
  <2>3. SeedIsWarned'
    BY <1>1, <2>1 DEF BootCount, SeedIsWarned, Real
  <2> QED BY <1>1, <2>2, <2>3 DEF BootCount, Start, FillIsWarned, StocksStay, MixHasCause,
                                  BarsAreListed, Made, Real
<1>2. CASE BootSeed
  <2>1. /\ prices' \in [Symbols -> [AllDays -> {"none", "made", "real"}]]
        /\ \A s \in Symbols : Real(s)' => Real(s)
        /\ \A s \in Symbols : Made(s)' => Made(s) \/ (boot.empty /\ s \in Sample)
    <3>1. \A s \in Symbols, d \in AllDays : prices'[s][d] =
            IF boot.empty /\ s \in Sample /\ d \in MadeDays /\ prices[s][d] = "none"
            THEN "made" ELSE prices[s][d]
      BY <1>2 DEF BootSeed, SeedMissing
    <3>2. prices' \in [Symbols -> [AllDays -> {"none", "made", "real"}]]
      BY <1>2 DEF BootSeed, SeedMissing
    <3> QED BY <3>1, <3>2 DEF Made, Real
  <2>2. /\ causes' \in [Symbols -> SUBSET Reasons]
        /\ \A s \in Symbols : causes[s] \subseteq causes'[s]
        /\ fill.stage = "wiped" /\ boot.empty => \A s \in Sample : "window" \in causes'[s]
    BY <1>2, BecauseIs DEF BootSeed, Reasons
  <2>3. boot' \in [stage : {"off", "counted", "seeded", "up", "failed", "dead"},
                   empty : BOOLEAN] /\ boot'.stage = "seeded"
    BY <1>2 DEF BootSeed
  <2>4. MixHasCause'
    <3> SUFFICES ASSUME NEW s \in Symbols, Made(s)', Real(s)'
                 PROVE  causes'[s] \cap {"month", "race", "window"} # {}
      BY DEF MixHasCause
    <3>1. CASE Made(s)
      BY <2>1, <2>2, <3>1 DEF MixHasCause
    <3>2. CASE boot.empty
      BY <1>2, <2>1, <2>2, <3>2 DEF BootSeed, SeedIsWarned
    <3> QED BY <2>1, <3>1, <3>2
  <2>5. FillIsWarned'
    BY <1>2, <2>1, <2>2 DEF BootSeed, FillIsWarned
  <2>6. BarsAreListed'
    BY <1>2, <2>2 DEF BootSeed, BarsAreListed
  <2>7. SeedIsWarned' /\ StocksStay'
    BY <1>2, <2>3 DEF BootSeed, SeedIsWarned, StocksStay
  <2>8. stocks' \subseteq Symbols
    BY <1>2 DEF BootSeed
  <2> QED BY <1>2, <2>1, <2>2, <2>3, <2>4, <2>5, <2>6, <2>7, <2>8 DEF BootSeed
<1>3. CASE BootCheck
  <2>1. boot' \in [stage : {"off", "counted", "seeded", "up", "failed", "dead"},
                   empty : BOOLEAN] /\ boot'.stage \in {"up", "failed"}
    BY <1>3 DEF BootCheck
  <2> QED BY <1>3, <2>1 DEF BootCheck, SeedIsWarned, FillIsWarned, StocksStay, MixHasCause,
                            BarsAreListed, Made, Real
<1>4. CASE BootDies
  <2>1. boot' \in [stage : {"off", "counted", "seeded", "up", "failed", "dead"},
                   empty : BOOLEAN] /\ boot'.stage = "dead"
    BY <1>4 DEF BootDies
  <2> QED BY <1>4, <2>1 DEF BootDies, SeedIsWarned, FillIsWarned, StocksStay, MixHasCause,
                            BarsAreListed, Made, Real
<1> QED BY <1>1, <1>2, <1>3, <1>4

LEMMA WipeStep ==
  ASSUME RefInd, WipeTruncate \/ WipeReload \/ WipeVerify \/ WipeFails PROVE RefInd'
<1> USE RefAssumption DEF RefInd, RefTypeOK, TablesHaveCause
<1>1. CASE WipeTruncate
  <2>1. /\ causes' \in [Symbols -> SUBSET Reasons]
        /\ \A s \in Symbols : causes[s] \subseteq causes'[s]
        /\ \A s \in bars : "wiped" \in causes'[s]
    BY <1>1, BecauseIs DEF WipeTruncate, Reasons
  <2>2. /\ prices' \in [Symbols -> [AllDays -> {"none", "made", "real"}]]
        /\ \A s \in Symbols : ~Made(s)' /\ ~Real(s)'
    BY <1>1, NoPricesIs DEF WipeTruncate
  <2>3. SeedIsWarned' /\ FillIsWarned' /\ StocksStay' /\ MixHasCause'
    BY <1>1, <2>2 DEF WipeTruncate, SeedIsWarned, FillIsWarned, StocksStay, MixHasCause
  <2>4. BarsAreListed'
    BY <1>1, <2>1 DEF WipeTruncate, BarsAreListed
  <2> QED BY <1>1, <2>1, <2>2, <2>3, <2>4 DEF WipeTruncate, Start
<1>2. CASE WipeReload
  <2>1. /\ causes' \in [Symbols -> SUBSET Reasons]
        /\ \A s \in Symbols : causes[s] \subseteq causes'[s]
        /\ \A s \in bars : "wiped" \in causes'[s]
        /\ fill.stage = "wiped" => \A s \in Sample : "window" \in causes'[s]
    BY <1>2 DEF WipeReload, Reasons
  <2>2. /\ prices' \in [Symbols -> [AllDays -> {"none", "made", "real"}]]
        /\ \A s \in Symbols : ~Real(s)' /\ (Made(s)' => s \in Sample)
    BY <1>2 DEF WipeReload, Made, Real
  <2>3. SeedIsWarned' /\ FillIsWarned' /\ MixHasCause'
    BY <1>2, <2>1, <2>2 DEF WipeReload, SeedIsWarned, FillIsWarned, MixHasCause
  <2>4. StocksStay' /\ BarsAreListed'
    BY <1>2, <2>1 DEF WipeReload, StocksStay, BarsAreListed
  <2> QED BY <1>2, <2>1, <2>2, <2>3, <2>4 DEF WipeReload
<1>3. CASE WipeVerify
  BY <1>3 DEF WipeVerify, SeedIsWarned, FillIsWarned, StocksStay, MixHasCause,
              BarsAreListed, Made, Real
<1>4. CASE WipeFails
  BY <1>4 DEF WipeFails, SeedIsWarned, FillIsWarned, StocksStay, MixHasCause,
              BarsAreListed, Made, Real
<1> QED BY <1>1, <1>2, <1>3, <1>4

LEMMA FillStep ==
  ASSUME RefInd, FillRead \/ FillTruncate \/ FillSymbol \/ FillStops PROVE RefInd'
<1> USE RefAssumption DEF RefInd, RefTypeOK, TablesHaveCause
<1>1. CASE FillRead
  BY <1>1 DEF FillRead, Start, SeedIsWarned, FillIsWarned, StocksStay, MixHasCause,
              BarsAreListed, Made, Real
<1>2. CASE FillTruncate
  <2>1. /\ prices' \in [Symbols -> [AllDays -> {"none", "made", "real"}]]
        /\ \A s \in Symbols : ~Made(s)' /\ ~Real(s)'
    BY <1>2, NoPricesIs DEF FillTruncate, Truncated
  <2>2. fill' \in [stage : {"off", "read", "wiped"}, todo : SUBSET Symbols]
    BY <1>2 DEF FillTruncate
  <2> QED BY <1>2, <2>1, <2>2 DEF FillTruncate, SeedIsWarned, FillIsWarned, StocksStay,
                                  MixHasCause, BarsAreListed
<1>3. CASE FillSymbol
  <2>1. PICK s \in fill.todo, got \in BOOLEAN :
          /\ fill' = [fill EXCEPT !.todo = @ \ {s}]
          /\ prices' = IF got THEN Upserted({s}, RealDays) ELSE prices
          /\ IF got THEN Because("race", Outrun({s})) ELSE UNCHANGED causes
    BY <1>3 DEF FillSymbol
  <2>2. /\ fill' \in [stage : {"off", "read", "wiped"}, todo : SUBSET Symbols]
        /\ fill.stage = "wiped" /\ fill'.stage = "wiped"
    BY <1>3, <2>1 DEF FillSymbol
  <2>3. CASE ~got
    BY <1>3, <2>1, <2>2, <2>3 DEF FillSymbol, SeedIsWarned, FillIsWarned, StocksStay,
      MixHasCause, BarsAreListed, Made, Real
  <2>4. CASE got
    <3>1. {s} \in SUBSET Symbols /\ RealDays \in SUBSET AllDays
          /\ Outrun({s}) \in SUBSET Symbols
      BY <2>1 DEF AllDays, Outrun
    <3>2. /\ prices' \in [Symbols -> [AllDays -> {"none", "made", "real"}]]
          /\ \A r \in Symbols : Made(r)' => Made(r)
          /\ \A r \in Symbols \ {s} : Real(r)' => Real(r)
      BY <2>1, <2>4, <3>1, UpsertedIs
    <3>3. /\ causes' \in [Symbols -> SUBSET Reasons]
          /\ \A r \in Symbols : causes[r] \subseteq causes'[r]
          /\ \A r \in Outrun({s}) : "race" \in causes'[r]
      BY <2>1, <2>4, <3>1, BecauseIs DEF Reasons
    <3>4. UNCHANGED <<stocks, there, bars, boot, wipe, month, loader, started>>
      BY <1>3 DEF FillSymbol
    <3>5. SeedIsWarned'
      BY <3>2, <3>3, <3>4 DEF SeedIsWarned, Outrun
    <3>6. FillIsWarned'
      BY <2>2, <3>2, <3>3, <3>4 DEF FillIsWarned
    <3>7. MixHasCause'
      BY <2>2, <3>2, <3>3, <3>6 DEF FillIsWarned, MixHasCause
    <3>8. BarsAreListed' /\ StocksStay'
      BY <3>3, <3>4 DEF BarsAreListed, StocksStay
    <3> QED BY <2>2, <3>2, <3>3, <3>4, <3>5, <3>6, <3>7, <3>8
  <2> QED BY <2>3, <2>4
<1>4. CASE FillStops
  BY <1>4 DEF FillStops, SeedIsWarned, FillIsWarned, StocksStay, MixHasCause,
              BarsAreListed, Made, Real
<1> QED BY <1>1, <1>2, <1>3, <1>4

LEMMA MonthStep ==
  ASSUME RefInd, MonthRead \/ MonthCommit \/ MonthFails PROVE RefInd'
<1> USE RefAssumption DEF RefInd, RefTypeOK, TablesHaveCause
<1>1. CASE MonthRead
  BY <1>1 DEF MonthRead, Start, SeedIsWarned, FillIsWarned, StocksStay, MixHasCause,
              BarsAreListed, Made, Real
<1>2. CASE MonthCommit
  <2>1. PICK S \in SUBSET Symbols : S = month
    OBVIOUS
  <2>2. /\ causes' \in [Symbols -> SUBSET Reasons]
        /\ \A s \in Symbols : causes[s] \subseteq causes'[s]
        /\ \A s \in S : Made(s) => "month" \in causes'[s]
        /\ boot.stage = "counted" /\ boot.empty => \A s \in S : "race" \in causes'[s]
    BY <1>2, <2>1 DEF MonthCommit, Outrun, Reasons
  <2>3. MonthDays \cap AllDays \in SUBSET AllDays
        /\ prices' = Upserted(S, MonthDays \cap AllDays)
    BY <1>2, <2>1 DEF MonthCommit, Upserted
  <2>4. /\ prices' \in [Symbols -> [AllDays -> {"none", "made", "real"}]]
        /\ \A s \in Symbols : Made(s)' => Made(s)
        /\ \A s \in Symbols \ S : Real(s)' => Real(s)
    BY <2>3, UpsertedIs
  <2>5. UNCHANGED <<stocks, there, bars, boot, wipe, fill, loader, started>> /\ month' = {}
    BY <1>2 DEF MonthCommit
  <2>6. SeedIsWarned' /\ FillIsWarned'
    BY <2>2, <2>4, <2>5 DEF SeedIsWarned, FillIsWarned
  <2>7. MixHasCause'
    BY <2>2, <2>4 DEF MixHasCause
  <2>8. BarsAreListed' /\ StocksStay'
    BY <2>2, <2>5 DEF BarsAreListed, StocksStay
  <2> QED BY <2>2, <2>4, <2>5, <2>6, <2>7, <2>8
<1>3. CASE MonthFails
  BY <1>3 DEF MonthFails, SeedIsWarned, FillIsWarned, StocksStay, MixHasCause,
              BarsAreListed, Made, Real
<1> QED BY <1>1, <1>2, <1>3

LEMMA LoadStep ==
  ASSUME RefInd, LoadBars \/ LoadStocks \/ LoadDies \/ Drop PROVE RefInd'
<1> USE RefAssumption DEF RefInd, RefTypeOK, TablesHaveCause
<1>1. CASE LoadBars
  BY <1>1 DEF LoadBars, Start, SeedIsWarned, FillIsWarned, StocksStay, MixHasCause,
              BarsAreListed, Made, Real
<1>2. CASE LoadStocks
  BY <1>2 DEF LoadStocks, Listed, SeedIsWarned, FillIsWarned, StocksStay, MixHasCause,
              BarsAreListed, Made, Real
<1>3. CASE LoadDies
  <2>1. /\ causes' \in [Symbols -> SUBSET Reasons]
        /\ \A s \in Symbols : causes[s] \subseteq causes'[s]
        /\ \A s \in loader : "killed" \in causes'[s]
    BY <1>3, BecauseIs DEF LoadDies, Reasons
  <2> QED BY <1>3, <2>1 DEF LoadDies, SeedIsWarned, FillIsWarned, StocksStay, MixHasCause,
                            BarsAreListed, Made, Real
<1>4. CASE Drop
  <2>1. /\ prices' \in [Symbols -> [AllDays -> {"none", "made", "real"}]]
        /\ \A s \in Symbols : ~Made(s)' /\ ~Real(s)'
    BY <1>4, NoPricesIs DEF Drop
  <2> QED BY <1>4, <2>1 DEF Drop, SeedIsWarned, FillIsWarned, StocksStay, MixHasCause,
                            BarsAreListed
<1> QED BY <1>1, <1>2, <1>3, <1>4

LEMMA RefStep == RefInd /\ [RefNext]_refVars => RefInd'
<1> SUFFICES ASSUME RefInd, [RefNext]_refVars PROVE RefInd'
  OBVIOUS
<1>1. CASE UNCHANGED refVars
  BY <1>1 DEF refVars, RefInd, RefTypeOK, SeedIsWarned, FillIsWarned, StocksStay,
              TablesHaveCause, MixHasCause, BarsAreListed, Made, Real
<1> QED BY <1>1, BootStep, WipeStep, FillStep, MonthStep, LoadStep DEF RefNext

\* Whichever loads, seedings, backfills and wipes of the reference tables
\* overlap or die, for any symbols and days, a mixed price table and a loaded
\* symbol without its stock have one of the causes named.
THEOREM TablesAlwaysHaveCause == RefSpec => []TablesHaveCause
<1>1. RefInd => TablesHaveCause
  BY DEF RefInd
<1> QED BY RefInitially, RefStep, <1>1, PTL DEF RefSpec

\* The bootstrap fails by itself only over a dropped price table or over
\* stocks that the seed DAG has wiped.
THEOREM BootAlwaysFailsForCause == RefSpec => BootFailsForCause
<1>1. RefInd /\ [RefNext]_refVars =>
        [boot'.stage = "failed" /\ boot.stage # "failed" =>
           ~there \/ wipe \in {"truncated", "failed"}]_refVars
  <2> SUFFICES ASSUME RefInd, [RefNext]_refVars, boot'.stage = "failed",
                      boot.stage # "failed"
               PROVE  ~there \/ wipe \in {"truncated", "failed"}
    OBVIOUS
  <2> USE DEF RefInd, RefTypeOK
  <2>1. boot' # boot
    OBVIOUS
  <2>2. BootCount \/ BootSeed \/ BootCheck \/ BootDies
    BY <2>1 DEF RefNext, refVars, WipeTruncate, WipeReload, WipeVerify, WipeFails, FillRead,
      FillTruncate, FillSymbol, FillStops, MonthRead, MonthCommit, MonthFails, LoadBars,
      LoadStocks, LoadDies, Drop
  <2>3. CASE BootCount
    BY <2>3 DEF BootCount
  <2>4. CASE BootSeed
    BY <2>4 DEF BootSeed
  <2>5. CASE BootCheck
    BY <2>5 DEF BootCheck, StocksThere, StocksStay
  <2>6. CASE BootDies
    BY <2>6 DEF BootDies
  <2> QED BY <2>2, <2>3, <2>4, <2>5, <2>6
<1> QED BY RefInitially, RefStep, <1>1, PTL DEF RefSpec, BootFailsForCause

-----------------------------------------------------------------------------
(* The tickers' own tables.                                                 *)

LEMMA MaxIsLargest ==
  ASSUME NEW S, S \subseteq Nat, S # {}, NEW bound \in Nat, \A x \in S : x <= bound
  PROVE  Max(S) \in S /\ \A y \in S : Max(S) >= y
<1> DEFINE T == {bound - x : x \in S}
<1>1. T \subseteq Nat /\ T # {}
  <2>1. \A x \in S : bound - x \in Nat
    OBVIOUS
  <2>2. PICK x \in S : TRUE
    OBVIOUS
  <2>3. bound - x \in T
    BY <2>2
  <2> QED BY <2>1, <2>3
<1>2. PICK t \in T : \A u \in T : ~ (<<u, t>> \in OpToRel(<, Nat))
  <2> HIDE DEF T
  <2> QED BY <1>1, NatLessThanWellFounded, WFMin
<1>3. PICK x \in S : t = bound - x
  BY <1>2
<1>4. ASSUME NEW y \in S PROVE x >= y
  <2>1. bound - y \in T /\ bound - y \in Nat /\ t \in Nat /\ x \in Nat /\ y \in Nat
    BY <1>3
  <2>2. ~ (<<bound - y, t>> \in OpToRel(<, Nat))
    BY <1>2, <2>1
  <2>3. <<bound - y, t>> \in Nat \X Nat /\ <<bound - y, t>>[1] = bound - y
        /\ <<bound - y, t>>[2] = t
    BY <2>1
  <2>4. ~ (bound - y < t)
    BY <2>2, <2>3 DEF OpToRel
  <2> QED BY <1>3, <2>1, <2>4
<1> QED BY <1>3, <1>4 DEF Max

LEMMA MinOfTwo == ASSUME NEW n \in Nat
                  PROVE  Min({2, n}) = IF n < 2 THEN n ELSE 2
<1> DEFINE m == IF n < 2 THEN n ELSE 2
<1>1. m \in {2, n} /\ \A y \in {2, n} : m <= y
  OBVIOUS
<1>2. \A x \in {2, n} : (\A y \in {2, n} : x <= y) => x = m
  OBVIOUS
<1> QED BY <1>1, <1>2 DEF Min

LEMMA DaysInOrder == ASSUME NEW b \in Nat, NEW c \in Nat, b <= c
                     PROVE  DayOfBar(b) <= DayOfBar(c) /\ DayOfBar(b) \in Int
<1> DEFINE x == b + DayBars - 1
           y == c + DayBars - 1
<1>1. x \in Nat /\ y \in Nat /\ x <= y /\ DayBars \in Nat \ {0}
  BY TickerAssumption
<1> QED BY <1>1 DEF DayOfBar

\* The last row of a table, by its rows f.
LastOf(f) == Max({0} \cup {b \in Bars : f[b] > 0})

LEMMA LastOfIs ==
  ASSUME NEW f \in [Bars -> 0 .. 2]
  PROVE  /\ LastOf(f) \in {0} \cup {b \in Bars : f[b] > 0} /\ LastOf(f) \in Nat
         /\ \A b \in Bars : f[b] > 0 => b <= LastOf(f)
<1> DEFINE S == {0} \cup {b \in Bars : f[b] > 0}
<1>1. S \subseteq Nat /\ S # {} /\ \A x \in S : x <= LastBar
  BY TickerAssumption DEF Bars
<1>2. Max(S) \in S /\ \A y \in S : Max(S) >= y
  BY <1>1, MaxIsLargest, TickerAssumption
<1>3. LastOf(f) = Max(S)
  BY DEF LastOf
<1>4. \A b \in Bars : b \in Nat
  BY DEF Bars
<1> HIDE DEF LastOf
<1> QED BY <1>1, <1>2, <1>3, <1>4

LEMMA LastRowIs == \A t \in TickerSet : LastRow(t) = LastOf(tables[t])
  BY DEF LastRow, LastOf, There

\* What the tables, files and histories of a step may do to a run of
\* fill_gap.py that is somewhere between its look and its append.
Onwards == \A t \in TickerSet :
  /\ missed[t] \subseteq missed'[t] /\ again[t] \subseteq again'[t]
  /\ crossed[t] \subseteq crossed'[t] /\ undone[t] \subseteq undone'[t]
  /\ csv[t] \subseteq csv'[t] \cup undone'[t]

Causes(t) == missed[t] \cup undone[t]

\* Above the archive a file, or what is to be one, has no gap without a cause.
Whole(t, rows) == \A c \in rows :
  c > Archive /\ \A b \in Bars : b > Archive /\ b < c => b \in rows \cup Causes(t)

\* A table that is not empty reaches the end of the archive; what it has above
\* that is in the file.
TableFits(t) ==
  /\ \A b \in Bars, n \in There(t) : b < n => b \in There(t) \cup Causes(t)
  /\ \A b \in Bars : tables[t][b] > 1 => b \in again[t] \cup crossed[t]
  /\ There(t) # {} => \E n \in There(t) : n >= Archive
  /\ \A b \in There(t) : b > Archive => b \in csv[t] \cup undone[t]
  /\ Whole(t, csv[t])

\* An import that is to copy made the table empty.
ImportFits(i) == imports[i].stage = "copy" =>
  There(imports[i].ticker) \subseteq crossed[imports[i].ticker]

Looked(f) == fills[f].stage \in {"fetch", "save", "append"}

\* A run that has looked saw the archive in the table; while it fetches, what
\* is above the last row it saw is another run's; what it is to append is
\* without gaps and, as far as the table has it, noted.
FillFits(f) == Looked(f) => LET t == fills[f].ticker IN
  /\ \A b \in Bars : b <= Archive => b \in There(t) \cup Causes(t)
  /\ fills[f].stage = "fetch" =>
       /\ fills[f].last >= Archive
       /\ \A b \in Bars : b > Archive /\ b <= fills[f].last => b \in csv[t] \cup Causes(t)
       /\ \A b \in There(t) : b > fills[f].last => b \in crossed[t]
  /\ fills[f].stage \in {"save", "append"} =>
       /\ Whole(t, fills[f].rows)
       /\ fills[f].rows \cap There(t) \subseteq again[t] \cup crossed[t]
  /\ fills[f].stage = "append" => fills[f].rows \subseteq csv[t] \cup undone[t]

TickerInd == /\ TickerTypeOK
             /\ \A t \in TickerSet : TableFits(t)
             /\ \A i \in Imports : ImportFits(i)
             /\ \A f \in Fills : FillFits(f)

LEMMA TickerInitially == TickerInit => TickerInd
<1> SUFFICES ASSUME TickerInit PROVE TickerInd
  OBVIOUS
<1> USE TickerAssumption DEF TickerInit
<1>0. 1 \in TickerSet
  BY DEF TickerSet
<1>1. TickerTypeOK
  <2>1. ImportAt(1, "new") \in ImportRecords
    BY <1>0 DEF ImportAt, ImportRecords
  <2>2. FillAt(1, "new", 0) \in FillRecords
    BY <1>0 DEF FillAt, FillRecords
  <2>3. tables \in [TickerSet -> [Bars -> 0 .. 2]] /\ newest \in Bars
    BY DEF Nothing, Bars
  <2>4. NoBars \in [TickerSet -> SUBSET Bars]
    BY DEF NoBars
  <2> QED BY <2>1, <2>2, <2>3, <2>4 DEF TickerTypeOK
<1>2. \A t \in TickerSet : There(t) = {} /\ csv[t] = {} /\ \A b \in Bars : tables[t][b] = 0
  BY DEF There, Nothing, NoBars
<1>3. \A t \in TickerSet : TableFits(t)
  BY <1>2 DEF TableFits, Whole
<1>4. \A i \in Imports : ImportFits(i)
  BY DEF ImportFits, ImportAt
<1>5. \A f \in Fills : FillFits(f)
  BY DEF FillFits, Looked, FillAt
<1> QED BY <1>1, <1>3, <1>4, <1>5 DEF TickerInd

\* A table that a step leaves alone, together with its file, stays in order.
LEMMA TableKept ==
  ASSUME NEW t \in TickerSet, TableFits(t), Onwards, tables'[t] = tables[t], csv'[t] = csv[t]
  PROVE  TableFits(t)'
<1>1. There(t)' = There(t) /\ Causes(t) \subseteq Causes(t)'
  BY DEF There, Onwards, Causes
<1> QED BY <1>1 DEF TableFits, Whole, Onwards

\* So does a run of fill_gap.py that other runs step beside.
LEMMA FillKept ==
  ASSUME NEW f \in Fills, TickerTypeOK, FillFits(f), Onwards, fills'[f] = fills[f],
         Looked(f) => LET t == fills[f].ticker IN
           /\ There(t) \subseteq There(t)' \cup undone'[t]
           /\ There(t)' \subseteq There(t) \cup crossed'[t]
  PROVE  FillFits(f)'
<1> SUFFICES ASSUME Looked(f) PROVE FillFits(f)'
  BY DEF Looked, FillFits
<1> DEFINE t == fills[f].ticker
<1>1. /\ t \in TickerSet /\ fills[f].rows \subseteq Bars /\ fills[f].last \in {0} \cup Bars
      /\ fills'[f].ticker = t /\ There(t) \subseteq Bars /\ There(t)' \subseteq Bars
  BY DEF TickerTypeOK, FillRecords, There
<1>2. /\ missed[t] \subseteq missed'[t] /\ again[t] \subseteq again'[t]
      /\ crossed[t] \subseteq crossed'[t] /\ undone[t] \subseteq undone'[t]
      /\ csv[t] \subseteq csv'[t] \cup undone'[t]
  BY <1>1 DEF Onwards
<1>3. Causes(t) \subseteq Causes(t)' /\ undone'[t] \subseteq Causes(t)'
  BY <1>2 DEF Causes
<1>4. There(t) \subseteq There(t)' \cup undone'[t] /\ There(t)' \subseteq There(t) \cup crossed'[t]
  OBVIOUS
<1>5. fills[f].stage \in {"save", "append"} => Whole(t, fills[f].rows)'
  BY <1>3 DEF FillFits, Whole
<1>6. \A b \in Bars : b <= Archive => b \in There(t)' \cup Causes(t)'
  BY <1>3, <1>4 DEF FillFits
<1>7. fills[f].stage = "fetch" =>
       /\ fills[f].last >= Archive
       /\ \A b \in Bars : b > Archive /\ b <= fills[f].last => b \in csv'[t] \cup Causes(t)'
       /\ \A b \in There(t)' : b > fills[f].last => b \in crossed'[t]
  BY <1>2, <1>3, <1>4 DEF FillFits
<1>8. fills[f].stage \in {"save", "append"} =>
       fills[f].rows \cap There(t)' \subseteq again'[t] \cup crossed'[t]
  BY <1>2, <1>4 DEF FillFits
<1>9. fills[f].stage = "append" => fills[f].rows \subseteq csv'[t] \cup undone'[t]
  BY <1>2 DEF FillFits
<1> QED BY <1>5, <1>6, <1>7, <1>8, <1>9 DEF FillFits

\* A step that leaves tables and files alone and moves at most one run.
LEMMA RunsMove ==
  ASSUME TickerInd, TickerTypeOK', Onwards, UNCHANGED <<tables, csv>>,
         \A i \in Imports : imports'[i] = imports[i] \/ ImportFits(i)',
         \A f \in Fills : fills'[f] = fills[f] \/ FillFits(f)'
  PROVE  TickerInd'
<1>1. \A t \in TickerSet : TableFits(t)'
  BY TableKept DEF TickerInd
<1>2. \A t : There(t)' = There(t)
  BY DEF There
<1>3. ASSUME NEW i \in Imports PROVE ImportFits(i)'
  <2>1. CASE imports'[i] = imports[i]
    <3>1. imports[i].ticker \in TickerSet
      BY DEF TickerInd, TickerTypeOK, ImportRecords
    <3> QED BY <1>2, <2>1, <3>1 DEF TickerInd, ImportFits, Onwards
  <2> QED BY <2>1
<1>4. ASSUME NEW f \in Fills PROVE FillFits(f)'
  <2>1. CASE fills'[f] = fills[f]
    BY <1>2, <2>1, FillKept DEF TickerInd
  <2> QED BY <2>1
<1> QED BY <1>1, <1>3, <1>4 DEF TickerInd

\* What adding added to a table does.
LEMMA AddsWhat ==
  ASSUME NEW r, NEW t \in TickerSet, NEW added \in SUBSET Bars, TickerTypeOK, Adds(r, t, added)
  PROVE  /\ tables' \in [TickerSet -> [Bars -> 0 .. 2]]
         /\ crossed' \in [TickerSet -> SUBSET Bars]
         /\ \A s \in TickerSet : crossed[s] \subseteq crossed'[s]
         /\ \A s \in TickerSet : s # t => tables'[s] = tables[s]
         /\ There(t)' = There(t) \cup added
         /\ \A b \in Bars : tables'[t][b] > 1 =>
              tables[t][b] > 1 \/ (b \in added /\ b \in There(t))
         /\ \A q \in FillsOf(t) \cup ImportsOf(t) : q # r => added \subseteq crossed'[t]
<1> USE DEF TickerTypeOK
<1>1. /\ tables' = [tables EXCEPT ![t] =
                      [b \in Bars |-> IF b \in added THEN Min({2, tables[t][b] + 1})
                                      ELSE tables[t][b]]]
      /\ crossed' = [crossed EXCEPT ![t] =
                       IF FillsOf(t) \cup ImportsOf(t) \subseteq {r} THEN crossed[t]
                       ELSE crossed[t] \cup added]
  BY DEF Adds
<1>2. ASSUME NEW b \in Bars
      PROVE  /\ tables'[t][b] \in 0 .. 2
             /\ tables'[t][b] > 0 <=> tables[t][b] > 0 \/ b \in added
             /\ tables'[t][b] > 1 => tables[t][b] > 1 \/ (b \in added /\ tables[t][b] > 0)
  <2> DEFINE n == tables[t][b]
  <2>1. n \in 0 .. 2
    OBVIOUS
  <2>2. CASE b \in added
    <3>1. n + 1 \in Nat
      BY <2>1
    <3>2. tables'[t][b] = Min({2, n + 1})
      BY <1>1, <2>2
    <3>3. tables'[t][b] = IF n + 1 < 2 THEN n + 1 ELSE 2
      <4> HIDE DEF n, TickerTypeOK
      <4> QED BY <3>1, <3>2, MinOfTwo
    <3> HIDE DEF n
    <3> QED BY <2>1, <2>2, <3>3 DEF n
  <2>3. CASE b \notin added
    BY <1>1, <2>1, <2>3
  <2> QED BY <2>2, <2>3
<1>3. tables' \in [TickerSet -> [Bars -> 0 .. 2]]
  <2>1. \A s \in TickerSet : s # t => tables'[s] = tables[s]
    BY <1>1
  <2>2. tables'[t] \in [Bars -> 0 .. 2]
    BY <1>1, <1>2
  <2> QED BY <1>1, <2>1, <2>2
<1>4. There(t)' = There(t) \cup added
  BY <1>2 DEF There
<1>5. crossed'[t] \in SUBSET Bars /\ crossed[t] \subseteq crossed'[t]
  BY <1>1
<1>6. crossed' \in [TickerSet -> SUBSET Bars] /\ \A s \in TickerSet : crossed[s] \subseteq crossed'[s]
  BY <1>1, <1>5
<1>7. \A q \in FillsOf(t) \cup ImportsOf(t) : q # r => added \subseteq crossed'[t]
  BY <1>1
<1>8. \A s \in TickerSet : s # t => tables'[s] = tables[s]
  BY <1>1
<1> QED BY <1>2, <1>3, <1>4, <1>6, <1>7, <1>8 DEF There

\* The records of runs that go on, stop or begin.
LEMMA RunsAre ==
  ASSUME TickerTypeOK
  PROVE  /\ \A i \in Imports, a \in BOOLEAN : ImportOn(i, a) =>
              /\ imports' \in [Imports -> ImportRecords]
              /\ imports'[i].stage \in {"replace", "over"}
              /\ \A j \in Imports : j # i => imports'[j] = imports[j]
         /\ \A f \in Fills : FillOn(f) =>
              /\ fills' \in [Fills -> FillRecords]
              /\ fills'[f].stage \in {"look", "over"}
              /\ \A g \in Fills : g # f => fills'[g] = fills[g]
<1> USE TickerAssumption DEF TickerTypeOK
<1>0. 1 \in TickerSet /\ \A t \in TickerSet : t # NumTickers => t + 1 \in TickerSet
  BY DEF TickerSet
<1>1. ASSUME NEW i \in Imports, NEW a \in BOOLEAN, ImportOn(i, a)
      PROVE  /\ imports' \in [Imports -> ImportRecords]
             /\ imports'[i].stage \in {"replace", "over"}
             /\ \A j \in Imports : j # i => imports'[j] = imports[j]
  <2>1. imports[i].ticker \in TickerSet
    BY DEF ImportRecords
  <2>2. \E r \in ImportRecords : /\ imports' = [imports EXCEPT ![i] = r]
                                 /\ r.stage \in {"replace", "over"}
    <3>1. CASE imports[i].ticker = NumTickers
      <4> DEFINE r == ImportAt(1, "over")
      <4>1. r \in ImportRecords /\ r.stage = "over"
        BY <1>0 DEF ImportAt, ImportRecords
      <4>2. imports' = [imports EXCEPT ![i] = r]
        BY <1>1, <3>1 DEF ImportOn
      <4> HIDE DEF r
      <4> QED BY <4>1, <4>2
    <3>2. CASE imports[i].ticker # NumTickers
      <4>1. imports[i].ticker + 1 \in TickerSet
        BY <1>0, <2>1, <3>2
      <4> DEFINE r == [ticker |-> imports[i].ticker + 1, stage |-> "replace", aborted |-> a]
      <4>2. r \in ImportRecords /\ r.stage = "replace"
        BY <4>1 DEF ImportRecords
      <4>3. imports' = [imports EXCEPT ![i] = r]
        BY <1>1, <3>2 DEF ImportOn
      <4> HIDE DEF r
      <4> QED BY <4>2, <4>3
    <3> QED BY <3>1, <3>2
  <2> QED BY <2>2
<1>2. ASSUME NEW f \in Fills, FillOn(f)
      PROVE  /\ fills' \in [Fills -> FillRecords]
             /\ fills'[f].stage \in {"look", "over"}
             /\ \A g \in Fills : g # f => fills'[g] = fills[g]
  <2>1. fills[f].ticker \in TickerSet /\ fills[f].today \in Nat
    BY DEF FillRecords
  <2>2. \E r \in FillRecords : /\ fills' = [fills EXCEPT ![f] = r]
                               /\ r.stage \in {"look", "over"}
    <3>1. CASE fills[f].ticker = NumTickers
      <4> DEFINE r == FillAt(1, "over", 0)
      <4>1. r \in FillRecords /\ r.stage = "over"
        BY <1>0 DEF FillAt, FillRecords
      <4>2. fills' = [fills EXCEPT ![f] = r]
        BY <1>2, <3>1 DEF FillOn
      <4> HIDE DEF r
      <4> QED BY <4>1, <4>2
    <3>2. CASE fills[f].ticker # NumTickers
      <4>1. fills[f].ticker + 1 \in TickerSet
        BY <1>0, <2>1, <3>2
      <4> DEFINE r == FillAt(fills[f].ticker + 1, "look", fills[f].today)
      <4>2. r \in FillRecords /\ r.stage = "look"
        BY <2>1, <4>1 DEF FillRecords, FillAt
      <4>3. fills' = [fills EXCEPT ![f] = r]
        BY <1>2, <3>2 DEF FillOn
      <4> HIDE DEF r
      <4> QED BY <4>2, <4>3
    <3> QED BY <3>1, <3>2
  <2> QED BY <2>2
<1> QED BY <1>1, <1>2

\* The archive's day, or the next, and an import's steps that touch no table.
LEMMA ImportWaits ==
  ASSUME TickerInd,
         \/ NextBar
         \/ \E i \in Imports : BeginImport(i) \/ NoArchive(i) \/ ImportDies(i)
  PROVE  TickerInd'
<1> USE TickerAssumption DEF TickerInd, TickerTypeOK
<1>1. UNCHANGED <<tables, csv, fills, histories>>
  BY DEF NextBar, BeginImport, NoArchive, ImportDies
<1>2. newest' \in Bars
  BY DEF NextBar, BeginImport, NoArchive, ImportDies, Bars
<1>3. /\ imports' \in [Imports -> ImportRecords]
      /\ \A i \in Imports : imports'[i] = imports[i] \/ imports'[i].stage # "copy"
  <2>1. CASE NextBar
    BY <2>1 DEF NextBar
  <2>2. ASSUME NEW i \in Imports, BeginImport(i) \/ NoArchive(i) \/ ImportDies(i)
        PROVE  <1>3
    <3>0. 1 \in TickerSet
      BY DEF TickerSet
    <3>1. CASE NoArchive(i)
      <4>1. imports[i].aborted \in BOOLEAN
        BY DEF ImportRecords
      <4> QED BY <3>1, <4>1, RunsAre DEF NoArchive
    <3>2. CASE BeginImport(i) \/ ImportDies(i)
      <4>1. /\ ImportAt(1, "replace") \in ImportRecords /\ ImportAt(1, "replace").stage # "copy"
            /\ ImportAt(1, "over") \in ImportRecords /\ ImportAt(1, "over").stage # "copy"
        BY <3>0 DEF ImportAt, ImportRecords
      <4> QED BY <3>2, <4>1 DEF BeginImport, ImportDies
    <3> QED BY <2>2, <3>1, <3>2
  <2> QED BY <2>1, <2>2
<1>4. TickerTypeOK'
  BY <1>1, <1>2, <1>3 DEF histories
<1>5. Onwards
  BY <1>1 DEF Onwards, histories
<1>6. \A i \in Imports : imports'[i] = imports[i] \/ ImportFits(i)'
  BY <1>3 DEF ImportFits
<1> HIDE DEF TickerInd, TickerTypeOK
<1> QED BY <1>1, <1>4, <1>5, <1>6, RunsMove

\* The empty table: a fill that is at it has its rows noted.
LEMMA ReplaceKeeps == ASSUME TickerInd, NEW i \in Imports, Replace(i) PROVE TickerInd'
<1> USE TickerAssumption DEF TickerInd, TickerTypeOK
<1>1. PICK t \in TickerSet :
        /\ imports[i].ticker = t /\ imports[i].stage = "replace"
        /\ tables' = [tables EXCEPT ![t] = Nothing]
        /\ imports' = [imports EXCEPT ![i] = [@ EXCEPT !.stage = "copy"]]
        /\ undone' = [undone EXCEPT ![t] = IF FillsOf(t) = {} THEN @ ELSE @ \cup There(t)]
  BY DEF Replace
<1>2. UNCHANGED <<newest, csv, fills, missed, again, crossed>>
  BY DEF Replace
<1>3. /\ There(t)' = {} /\ There(t) \subseteq Bars
      /\ \A s \in TickerSet : s # t => tables'[s] = tables[s] /\ There(s)' = There(s)
  BY <1>1 DEF There, Nothing
<1>4. /\ undone' \in [TickerSet -> SUBSET Bars]
      /\ \A s \in TickerSet : undone[s] \subseteq undone'[s]
      /\ FillsOf(t) # {} => There(t) \subseteq undone'[t]
  BY <1>1, <1>3
<1>5. tables' \in [TickerSet -> [Bars -> 0 .. 2]]
  BY <1>1 DEF Nothing
<1>6. imports' \in [Imports -> ImportRecords]
  BY <1>1 DEF ImportRecords
<1>7. TickerTypeOK'
  BY <1>2, <1>4, <1>5, <1>6
<1>8. Onwards
  BY <1>2, <1>4 DEF Onwards
<1>9. ASSUME NEW s \in TickerSet PROVE TableFits(s)'
  <2>1. CASE s # t
    BY <1>2, <1>3, <1>8, <2>1, TableKept
  <2>2. CASE s = t
    <3>1. Whole(t, csv[t])'
      BY <1>2, <1>4 DEF TableFits, Whole, Causes
    <3>2. \A b \in Bars : tables'[t][b] = 0
      BY <1>1 DEF Nothing
    <3> QED BY <1>2, <1>3, <2>2, <3>1, <3>2 DEF TableFits
  <2> QED BY <2>1, <2>2
<1>10. ASSUME NEW j \in Imports PROVE ImportFits(j)'
  <2>1. imports[j].ticker \in TickerSet /\ imports'[j].ticker = imports[j].ticker
    BY <1>1 DEF ImportRecords
  <2>2. CASE imports[j].ticker = t
    BY <1>3, <2>1, <2>2 DEF ImportFits
  <2>3. CASE imports[j].ticker # t
    BY <1>1, <1>2, <1>3, <2>1, <2>3 DEF ImportFits
  <2> QED BY <2>2, <2>3
<1>11. ASSUME NEW f \in Fills PROVE FillFits(f)'
  <2>1. ASSUME Looked(f), fills[f].ticker = t
        PROVE  There(t) \subseteq undone'[t]
    BY <1>4, <2>1 DEF Looked, FillsOf
  <2>2. fills[f].ticker \in TickerSet
    BY DEF FillRecords
  <2> QED BY <1>2, <1>3, <1>8, <2>1, <2>2, FillKept
<1> QED BY <1>7, <1>9, <1>10, <1>11

\* What a run adds to a table keeps it and the runs beside it in order.
LEMMA AddKeeps ==
  ASSUME TickerInd, NEW r, NEW t \in TickerSet, NEW added \in SUBSET Bars, Adds(r, t, added),
         UNCHANGED <<csv, missed, again, undone>>,
         added \cap There(t) \subseteq again[t] \cup crossed[t],
         \A b \in Bars : b > Archive /\ b \in added => b \in csv[t] \cup undone[t],
         added # {} => \E n \in added : n >= Archive,
         \A b \in Bars, n \in added : b < n => b \in There(t) \cup added \cup Causes(t)
  PROVE  /\ Onwards
         /\ \A s \in TickerSet : TableFits(s)'
         /\ \A i \in Imports : i # r /\ imports'[i] = imports[i] => ImportFits(i)'
         /\ \A f \in Fills : f # r /\ fills'[f] = fills[f] => FillFits(f)'
<1> USE DEF TickerInd
<1>1. /\ \A s \in TickerSet : crossed[s] \subseteq crossed'[s]
      /\ \A s \in TickerSet : s # t => tables'[s] = tables[s]
      /\ There(t)' = There(t) \cup added
      /\ \A b \in Bars : tables'[t][b] > 1 => tables[t][b] > 1 \/ (b \in added /\ b \in There(t))
      /\ \A q \in FillsOf(t) \cup ImportsOf(t) : q # r => added \subseteq crossed'[t]
  BY AddsWhat
<1>2. Onwards
  BY <1>1 DEF Onwards
<1>3. \A s \in TickerSet : s # t => There(s)' = There(s)
  BY <1>1 DEF There
<1>4. There(t) \subseteq Bars
  BY DEF There
<1>5. Causes(t)' = Causes(t)
  BY DEF Causes
<1>6. ASSUME NEW s \in TickerSet PROVE TableFits(s)'
  <2>1. CASE s # t
    BY <1>1, <1>2, <2>1, TableKept
  <2>2. CASE s = t
    <3>1. \A b \in Bars, n \in There(t)' : b < n => b \in There(t)' \cup Causes(t)'
      BY <1>1, <1>5 DEF TableFits
    <3>2. \A b \in Bars : tables'[t][b] > 1 => b \in again'[t] \cup crossed'[t]
      BY <1>1 DEF TableFits
    <3>3. There(t)' # {} => \E n \in There(t)' : n >= Archive
      BY <1>1 DEF TableFits
    <3>4. \A b \in There(t)' : b > Archive => b \in csv'[t] \cup undone'[t]
      BY <1>1 DEF TableFits
    <3>5. Whole(t, csv[t])'
      BY <1>5 DEF TableFits, Whole
    <3> QED BY <2>2, <3>1, <3>2, <3>3, <3>4, <3>5 DEF TableFits
  <2> QED BY <2>1, <2>2
<1>7. ASSUME NEW i \in Imports, i # r, imports'[i] = imports[i] PROVE ImportFits(i)'
  <2>1. imports[i].ticker \in TickerSet
    BY DEF TickerTypeOK, ImportRecords
  <2>2. CASE imports[i].ticker = t
    BY <1>1, <1>7, <2>2 DEF ImportFits, ImportsOf
  <2>3. CASE imports[i].ticker # t
    BY <1>1, <1>3, <1>7, <2>1, <2>3 DEF ImportFits
  <2> QED BY <2>2, <2>3
<1>8. ASSUME NEW f \in Fills, f # r, fills'[f] = fills[f] PROVE FillFits(f)'
  <2>1. fills[f].ticker \in TickerSet
    BY DEF TickerTypeOK, FillRecords
  <2>2. Looked(f) /\ fills[f].ticker = t => added \subseteq crossed'[t]
    BY <1>1, <1>8 DEF Looked, FillsOf
  <2>3. Looked(f) => LET s == fills[f].ticker IN
           /\ There(s) \subseteq There(s)' \cup undone'[s]
           /\ There(s)' \subseteq There(s) \cup crossed'[s]
    <3> HIDE DEF TickerInd
    <3>1. CASE fills[f].ticker = t
      BY <1>1, <2>2, <3>1, <1>8
    <3>2. CASE fills[f].ticker # t
      BY <1>3, <2>1, <3>2, <1>8
    <3> QED BY <3>1, <3>2
  <2> QED BY <1>2, <1>8, <2>3, FillKept
<1> QED BY <1>2, <1>6, <1>7, <1>8

LEMMA CopyKeeps == ASSUME TickerInd, NEW i \in Imports, Copy(i) PROVE TickerInd'
<1> USE TickerAssumption
<1>1. PICK t \in TickerSet :
        /\ imports[i].ticker = t /\ imports[i].stage = "copy"
        /\ \/ ImportOn(i, TRUE) /\ UNCHANGED <<tables, crossed>>
           \/ ~imports[i].aborted /\ ImportOn(i, FALSE) /\ Adds(i, t, 1 .. Archive)
  BY DEF Copy
<1>2. UNCHANGED <<newest, csv, fills, missed, again, undone>>
  BY DEF Copy
<1>3. /\ imports' \in [Imports -> ImportRecords]
      /\ imports'[i].stage # "copy"
      /\ \A j \in Imports : j # i => imports'[j] = imports[j]
  BY <1>1, RunsAre DEF TickerInd
<1>4. ImportFits(i)'
  BY <1>3 DEF ImportFits
<1>5. CASE UNCHANGED <<tables, crossed>>
  <2>1. Onwards
    BY <1>2, <1>5 DEF Onwards
  <2>2. TickerTypeOK'
    BY <1>2, <1>3, <1>5 DEF TickerInd, TickerTypeOK
  <2> QED BY <1>2, <1>3, <1>4, <1>5, <2>1, <2>2, RunsMove
<1>6. CASE Adds(i, t, 1 .. Archive)
  <2> DEFINE added == 1 .. Archive
  <2>1. added \in SUBSET Bars /\ Archive \in added
    BY DEF Bars
  <2>2. added \cap There(t) \subseteq again[t] \cup crossed[t]
    BY <1>1 DEF TickerInd, ImportFits
  <2>3. /\ \A b \in Bars : b > Archive /\ b \in added => b \in csv[t] \cup undone[t]
        /\ \E n \in added : n >= Archive
        /\ \A b \in Bars, n \in added : b < n => b \in There(t) \cup added \cup Causes(t)
    BY <2>1 DEF Bars
  <2>4. /\ \A s \in TickerSet : TableFits(s)'
        /\ \A j \in Imports : j # i /\ imports'[j] = imports[j] => ImportFits(j)'
        /\ \A f \in Fills : f # i /\ fills'[f] = fills[f] => FillFits(f)'
    <3> HIDE DEF added
    <3> QED BY <1>2, <1>6, <2>1, <2>2, <2>3, AddKeeps DEF added
  <2>5. \A f \in Fills : f # i
    OBVIOUS
  <2>6. TickerTypeOK'
    BY <1>2, <1>3, <1>6, <2>1, AddsWhat DEF TickerInd, TickerTypeOK
  <2> QED BY <1>2, <1>3, <1>4, <2>4, <2>5, <2>6 DEF TickerInd
<1> QED BY <1>1, <1>5, <1>6

\* What a run of fill_gap.py does before it fetches, and its end.
LEMMA FillWaits ==
  ASSUME TickerInd, NEW f \in Fills, BeginFill(f) \/ Skip(f) \/ FillDies(f) \/ SeeGap(f)
  PROVE  TickerInd'
<1> USE TickerAssumption
<1>1. UNCHANGED <<newest, tables, csv, imports, histories>>
  BY DEF BeginFill, Skip, FillDies, SeeGap
<1>2. Onwards
  BY <1>1 DEF Onwards, histories
<1>3. /\ fills' \in [Fills -> FillRecords] /\ FillFits(f)'
      /\ \A g \in Fills : g # f => fills'[g] = fills[g]
  <2>1. CASE Skip(f)
    <3>1. FillOn(f)
      BY <2>1 DEF Skip
    <3> QED BY <3>1, RunsAre DEF TickerInd, FillFits, Looked
  <2>2. CASE BeginFill(f) \/ FillDies(f)
    <3>1. DayOfBar(newest) \in Nat
      <4>1. newest \in Nat /\ newest >= 1
        BY DEF TickerInd, TickerTypeOK, Bars
      <4> DEFINE x == newest + DayBars - 1
      <4>2. x \in Nat /\ DayBars \in Nat \ {0}
        BY <4>1
      <4>3. x \div DayBars \in Nat
        <5> HIDE DEF x
        <5> QED BY <4>2
      <4> QED BY <4>3 DEF DayOfBar
    <3>2. \E r \in FillRecords : /\ fills' = [fills EXCEPT ![f] = r]
                                 /\ r.stage \in {"look", "over"}
      <4>1. 1 \in TickerSet
        BY DEF TickerSet
      <4>2. /\ FillAt(1, "look", DayOfBar(newest)) \in FillRecords
            /\ FillAt(1, "look", DayOfBar(newest)).stage = "look"
            /\ FillAt(1, "over", 0) \in FillRecords /\ FillAt(1, "over", 0).stage = "over"
        BY <3>1, <4>1 DEF FillAt, FillRecords
      <4> QED BY <2>2, <4>2 DEF BeginFill, FillDies
    <3> QED BY <3>2 DEF TickerInd, TickerTypeOK, FillFits, Looked
  <2>3. CASE SeeGap(f)
    <3> DEFINE t == fills[f].ticker
    <3>1. /\ There(t) # {}
          /\ fills' = [fills EXCEPT ![f] = [fills[f] EXCEPT !.stage = "fetch", !.last = LastRow(t)]]
      BY <2>3 DEF SeeGap
    <3>2. t \in TickerSet
      BY DEF TickerInd, TickerTypeOK, FillRecords
    <3>3. /\ LastRow(t) \in {0} \cup There(t) /\ LastRow(t) \in Nat
          /\ \A b \in There(t) : b <= LastRow(t)
      BY <3>2, LastRowIs, LastOfIs DEF TickerInd, TickerTypeOK, There
    <3>4. There(t) \subseteq Bars /\ Bars \subseteq Nat
      BY DEF There, Bars
    <3>5. LastRow(t) \in There(t) /\ LastRow(t) >= Archive
      <4>1. PICK n \in There(t) : n >= Archive
        BY <3>1, <3>2 DEF TickerInd, TableFits
      <4>2. n \in Nat /\ n <= LastRow(t)
        BY <3>3, <3>4
      <4> QED BY <3>3, <4>1, <4>2
    <3>6. \A b \in Bars : b <= LastRow(t) => b \in There(t) \cup Causes(t)
      <4>1. \A b \in Bars : b < LastRow(t) => b \in There(t) \cup Causes(t)
        BY <3>2, <3>5 DEF TickerInd, TableFits
      <4>2. \A b \in Bars : b <= LastRow(t) => b < LastRow(t) \/ b = LastRow(t)
        BY <3>3, <3>4
      <4> QED BY <3>5, <4>1, <4>2
    <3>7. /\ fills'[f].ticker = t /\ fills'[f].stage = "fetch" /\ fills'[f].last = LastRow(t)
          /\ fills' \in [Fills -> FillRecords]
          /\ \A g \in Fills : g # f => fills'[g] = fills[g]
      BY <3>1, <3>4, <3>5 DEF TickerInd, TickerTypeOK, FillRecords
    <3>8. /\ There(t)' = There(t) /\ Causes(t)' = Causes(t)
      BY <1>1, <3>7 DEF There, Causes, histories
    <3>9. \A b \in Bars : b <= Archive => b \in There(t) \cup Causes(t)
      BY <3>3, <3>4, <3>5, <3>6
    <3>10. \A b \in Bars : b > Archive /\ b <= LastRow(t) => b \in csv[t] \cup Causes(t)
      BY <3>2, <3>6 DEF TickerInd, TableFits, Causes
    <3>11. \A b \in There(t) : ~(b > LastRow(t))
      <4> HIDE DEF t
      <4> TAKE b \in There(t)
      <4>1. b \in Nat /\ b <= LastRow(t) /\ LastRow(t) \in Nat
        BY <3>3, <3>4
      <4> QED BY <4>1
    <3> QED BY <1>1, <3>5, <3>7, <3>8, <3>9, <3>10, <3>11 DEF FillFits
  <2> QED BY <2>1, <2>2, <2>3
<1>4. TickerTypeOK'
  BY <1>1, <1>3 DEF TickerInd, TickerTypeOK, histories
<1>5. \A i \in Imports : imports'[i] = imports[i]
  BY <1>1
<1>6. \A g \in Fills : fills'[g] = fills[g] \/ FillFits(g)'
  BY <1>3
<1> QED BY <1>1, <1>2, <1>4, <1>5, <1>6, RunsMove

\* The rows to be saved are without gaps: what a fetch does not bring between
\* its first and its last bar is in the file, or missed.
LEMMA FetchedWhole ==
  ASSUME TickerInd, NEW f \in Fills, NEW t \in TickerSet, NEW failed,
         fills[f].ticker = t, fills[f].stage = "fetch", Fetches(f, t, failed),
         UNCHANGED undone
  PROVE  LET rows == csv[t] \cup Fetched(f, failed) IN
           \A c \in rows : c > Archive /\
             \A b \in Bars : b > Archive /\ b < c => b \in rows \cup Causes(t)'
<1> USE TickerAssumption
<1> DEFINE new == Fetched(f, failed)
           last == fills[f].last
           today == fills[f].today
           cause == Causes(t)'
<1>1. missed'[t] = missed[t] \cup
        {b \in Bars : DayOfBar(b) \in Wanted(f) /\ Chunk(f, DayOfBar(b)) \in failed}
        \cup {b \in Bars : b > last /\ DayOfBar(b) = DayOfBar(last)}
  BY DEF Fetches, TickerInd, TickerTypeOK
<1>2. /\ Causes(t) \subseteq cause /\ missed'[t] \subseteq cause
      /\ \A b \in Bars : DayOfBar(b) \in Wanted(f) /\ Chunk(f, DayOfBar(b)) \in failed
                         => b \in cause
      /\ \A b \in Bars : b > last /\ DayOfBar(b) = DayOfBar(last) => b \in cause
  BY <1>1 DEF Causes
<1>3. /\ last \in Nat /\ today \in Nat /\ last >= Archive /\ newest \in Bars /\ Bars \subseteq Nat
      /\ Archive \in Nat
  BY DEF TickerInd, TickerTypeOK, FillRecords, Bars, FillFits, Looked
<1>4. \A b \in Bars : b > Archive /\ b <= last => b \in csv[t] \cup cause
  BY <1>2 DEF TickerInd, FillFits, Looked
<1>5. ASSUME NEW c \in csv[t]
      PROVE  c > Archive /\
             \A b \in Bars : b > Archive /\ b < c => b \in csv[t] \cup cause
  BY <1>2 DEF TickerInd, TableFits, Whole
<1>6. ASSUME NEW c \in new
      PROVE  c > Archive /\
             \A b \in Bars : b > Archive /\ b < c => b \in csv[t] \cup new \cup cause
  <2>1. /\ c \in 1 .. newest /\ c > last
        /\ DayOfBar(c) \in GapStart(last) .. today
    BY DEF Fetched, Wanted
  <2>2. c > Archive /\ c \in Nat
    <3> HIDE DEF last, new
    <3> QED BY <1>3, <2>1
  <2>3. ASSUME NEW b \in Bars, b > last, b < c PROVE b \in new \cup cause
    <3>1. b \in 1 .. newest /\ b \in Nat
      <4>1. b \in 1 .. LastBar /\ newest \in Nat
        BY <1>3 DEF Bars
      <4> HIDE DEF last, new
      <4> QED BY <2>1, <2>3, <4>1
    <3>2. /\ DayOfBar(b) <= DayOfBar(c) /\ DayOfBar(last) <= DayOfBar(b)
          /\ DayOfBar(b) \in Int /\ DayOfBar(c) \in Int /\ DayOfBar(last) \in Int
      <4>1. last <= b /\ b <= c
        <5> HIDE DEF last, new
        <5> QED BY <1>3, <2>2, <2>3, <3>1
      <4> HIDE DEF last, new
      <4> QED BY <1>3, <2>2, <3>1, <4>1, DaysInOrder
    <3>3. CASE DayOfBar(b) = DayOfBar(last)
      BY <1>2, <2>3, <3>3
    <3>4. CASE DayOfBar(b) # DayOfBar(last)
      <4>1. DayOfBar(b) \in GapStart(last) .. today
        <5> HIDE DEF last, today, new
        <5> QED BY <1>3, <2>1, <3>2, <3>4 DEF GapStart
      <4>2. DayOfBar(b) \in Wanted(f)
        BY <4>1 DEF Wanted
      <4>3. CASE Chunk(f, DayOfBar(b)) \in failed
        BY <1>2, <4>2, <4>3
      <4>4. CASE Chunk(f, DayOfBar(b)) \notin failed
        BY <2>3, <3>1, <4>2, <4>4 DEF Fetched
      <4> QED BY <4>3, <4>4
    <3> QED BY <3>3, <3>4
  <2>4. ASSUME NEW b \in Bars, b > Archive, b < c PROVE b \in csv[t] \cup new \cup cause
    <3>1. b <= last \/ b > last
      <4>1. b \in Nat
        BY <1>3
      <4> HIDE DEF last
      <4> QED BY <1>3, <4>1
    <3> HIDE DEF last, new, cause
    <3> QED BY <1>4, <2>3, <2>4, <3>1
  <2> QED BY <2>2, <2>4
<1> HIDE DEF new, cause
<1> QED BY <1>5, <1>6 DEF new, cause

LEMMA FetchKeeps == ASSUME TickerInd, NEW f \in Fills, Fetch(f) PROVE TickerInd'
<1> USE TickerAssumption
<1>1. PICK t \in TickerSet : /\ fills[f].ticker = t /\ fills[f].stage = "fetch"
                             /\ \E failed : Fetches(f, t, failed)
  BY DEF Fetch
<1>2. PICK failed : Fetches(f, t, failed)
  BY <1>1
<1>3. UNCHANGED <<newest, tables, csv, imports, crossed, undone>>
  BY DEF Fetch
<1> DEFINE new == Fetched(f, failed)
<1>4. new \subseteq Bars
  <2>1. \A c \in new : c \in 1 .. newest
    BY DEF Fetched
  <2> QED BY <2>1 DEF TickerInd, TickerTypeOK, Bars
<1>5. /\ missed' \in [TickerSet -> SUBSET Bars]
      /\ \A s \in TickerSet : missed[s] \subseteq missed'[s]
  BY <1>2 DEF Fetches, TickerInd, TickerTypeOK
<1>6. /\ again' \in [TickerSet -> SUBSET Bars]
      /\ \A s \in TickerSet : again[s] \subseteq again'[s]
  <2>1. \/ again' = again
        \/ again' = [again EXCEPT ![t] = again[t] \cup (csv[t] \cap There(t))]
    BY <1>2 DEF Fetches
  <2>2. again \in [TickerSet -> SUBSET Bars] /\ csv \in [TickerSet -> SUBSET Bars]
    BY DEF TickerInd, TickerTypeOK
  <2> QED BY <2>1, <2>2
<1>7. There(t)' = There(t)
  BY <1>3 DEF There
<1>8. /\ fills' \in [Fills -> FillRecords] /\ FillFits(f)'
      /\ \A g \in Fills : g # f => fills'[g] = fills[g]
  <2>1. CASE new = {}
    <3>1. FillOn(f)
      BY <1>2, <2>1 DEF Fetches
    <3> QED BY <3>1, RunsAre DEF TickerInd, FillFits, Looked
  <2>2. CASE new # {}
    <3> DEFINE rows == csv[t] \cup new
    <3>1. /\ fills' = [fills EXCEPT ![f] = [fills[f] EXCEPT !.stage = "save", !.rows = rows]]
          /\ again' = [again EXCEPT ![t] = again[t] \cup (csv[t] \cap There(t))]
      BY <1>2, <2>2 DEF Fetches
    <3>2. rows \in SUBSET Bars
      BY <1>4 DEF TickerInd, TickerTypeOK
    <3>3. /\ fills'[f].ticker = t /\ fills'[f].stage = "save" /\ fills'[f].rows = rows
          /\ fills' \in [Fills -> FillRecords]
          /\ \A g \in Fills : g # f => fills'[g] = fills[g]
      <4> HIDE DEF rows
      <4> QED BY <1>1, <3>1, <3>2 DEF TickerInd, TickerTypeOK, FillRecords
    <3>4. \A c \in rows : c > Archive /\
            \A b \in Bars : b > Archive /\ b < c => b \in rows \cup Causes(t)'
      BY <1>1, <1>2, <1>3, FetchedWhole
    <3>5. Whole(t, fills[f].rows)'
      <4> HIDE DEF rows
      <4> QED BY <3>3, <3>4 DEF Whole
    <3>6. rows \cap There(t) \subseteq again'[t] \cup crossed[t]
      <4>1. csv[t] \cap There(t) \subseteq again'[t]
        BY <3>1 DEF TickerInd, TickerTypeOK
      <4>2. \A b \in new : b > fills[f].last
        BY DEF Fetched
      <4>3. \A b \in There(t) : b > fills[f].last => b \in crossed[t]
        BY <1>1 DEF TickerInd, FillFits, Looked
      <4> HIDE DEF new
      <4> QED BY <4>1, <4>2, <4>3
    <3>7. \A b \in Bars : b <= Archive => b \in There(t) \cup Causes(t)'
      BY <1>1, <1>3, <1>5 DEF TickerInd, FillFits, Looked, Causes
    <3> HIDE DEF rows
    <3> QED BY <1>3, <1>7, <3>3, <3>5, <3>6, <3>7 DEF FillFits
  <2> QED BY <2>1, <2>2
<1>9. TickerTypeOK'
  BY <1>3, <1>5, <1>6, <1>8 DEF TickerInd, TickerTypeOK
<1>10. Onwards
  BY <1>3, <1>5, <1>6 DEF Onwards
<1>11. /\ \A i \in Imports : imports'[i] = imports[i]
       /\ \A g \in Fills : fills'[g] = fills[g] \/ FillFits(g)'
  BY <1>3, <1>8
<1> QED BY <1>3, <1>9, <1>10, <1>11, RunsMove

\* The file that a run saves over another's loses only what is noted, however
\* many of its rows the run comes to write.
LEMMA SaveKeeps == ASSUME TickerInd, NEW f \in Fills, Save(f) PROVE TickerInd'
<1> USE TickerAssumption
<1> DEFINE held == fills[f].rows
<1>1. PICK t \in TickerSet, rows \in SUBSET held :
        /\ fills[f].ticker = t /\ fills[f].stage = "save"
        /\ csv' = [csv EXCEPT ![t] = rows]
        /\ undone' = [undone EXCEPT ![t] = undone[t] \cup (csv[t] \ rows)]
        /\ \/ /\ rows = held
              /\ fills' = [fills EXCEPT ![f] = [fills[f] EXCEPT !.stage = "append"]]
           \/ /\ \E last \in {0} \cup held : rows = {b \in held : b <= last}
              /\ fills' = [fills EXCEPT ![f] = FillAt(1, "over", 0)]
  <2>1. PICK t \in TickerSet :
          /\ fills[f].ticker = t /\ fills[f].stage = "save"
          /\ \/ /\ WriteCsv(t, held)
                /\ fills' = [fills EXCEPT ![f] = [fills[f] EXCEPT !.stage = "append"]]
             \/ \E last \in {0} \cup held :
                  /\ WriteCsv(t, {b \in held : b <= last})
                  /\ fills' = [fills EXCEPT ![f] = FillAt(1, "over", 0)]
    BY DEF Save
  <2> QED BY <2>1 DEF WriteCsv
<1>2. UNCHANGED <<newest, tables, imports, missed, again, crossed>>
  BY DEF Save
<1>3. held \in SUBSET Bars /\ rows \in SUBSET Bars /\ csv[t] \in SUBSET Bars /\ Bars \subseteq Nat
  BY DEF TickerInd, TickerTypeOK, FillRecords, Bars
<1>4. csv' \in [TickerSet -> SUBSET Bars] /\ undone' \in [TickerSet -> SUBSET Bars]
  BY <1>1, <1>3 DEF TickerInd, TickerTypeOK
<1>5. /\ \A s \in TickerSet : undone[s] \subseteq undone'[s]
      /\ csv'[t] = rows /\ csv[t] \subseteq csv'[t] \cup undone'[t]
      /\ \A s \in TickerSet : s # t => csv'[s] = csv[s]
  BY <1>1, <1>4 DEF TickerInd, TickerTypeOK
<1>6. Onwards
  BY <1>2, <1>5 DEF Onwards
<1>7. \A g \in Fills : g # f => fills'[g] = fills[g]
  BY <1>1 DEF TickerInd, TickerTypeOK
<1>8. TickerTypeOK'
  <2>1. 1 \in TickerSet
    BY DEF TickerSet
  <2>2. FillAt(1, "over", 0) \in FillRecords
    BY <2>1 DEF FillAt, FillRecords
  <2>3. [fills[f] EXCEPT !.stage = "append"] \in FillRecords
    BY DEF TickerInd, TickerTypeOK, FillRecords
  <2>4. fills' \in [Fills -> FillRecords]
    BY <1>1, <2>2, <2>3 DEF TickerInd, TickerTypeOK
  <2> QED BY <1>2, <1>4, <2>4 DEF TickerInd, TickerTypeOK
<1>9. \A s : There(s)' = There(s)
  BY <1>2 DEF There
<1>10. Causes(t) \subseteq Causes(t)' /\ undone'[t] \subseteq Causes(t)'
  BY <1>2, <1>5 DEF Causes
<1>11. \A c \in held : c > Archive /\
         \A b \in Bars : b > Archive /\ b < c => b \in held \cup Causes(t)'
  BY <1>1, <1>10 DEF TickerInd, FillFits, Looked, Whole
<1>12. \A c \in rows : c > Archive /\
         \A b \in Bars : b > Archive /\ b < c => b \in rows \cup Causes(t)'
  <2>1. ASSUME NEW last \in {0} \cup held, rows = {b \in held : b <= last},
               NEW c \in rows, NEW b \in held, b < c
        PROVE  b \in rows
    <3>1. c <= last
      BY <2>1
    <3>2. last \in Nat /\ b \in Nat /\ c \in Nat
      <4> HIDE DEF held
      <4> QED BY <1>3, <2>1
    <3>3. b <= last
      <4> HIDE DEF held
      <4> QED BY <2>1, <3>1, <3>2
    <3> QED BY <2>1, <3>3
  <2>2. \A c \in rows, b \in held : b < c => b \in rows
    BY <1>1, <2>1
  <2> HIDE DEF held
  <2> QED BY <1>1, <1>3, <1>11, <2>2
<1>13. ASSUME NEW s \in TickerSet PROVE TableFits(s)'
  <2>1. CASE s # t
    BY <1>2, <1>5, <1>6, <2>1, TableKept DEF TickerInd
  <2>2. CASE s = t
    <3>1. Whole(t, csv[t])'
      BY <1>5, <1>12 DEF Whole
    <3>2. \A b \in There(t) : b > Archive => b \in csv'[t] \cup undone'[t]
      BY <1>5 DEF TickerInd, TableFits
    <3>3. /\ \A b \in Bars, n \in There(t) : b < n => b \in There(t) \cup Causes(t)'
          /\ \A b \in Bars : tables[t][b] > 1 => b \in again[t] \cup crossed[t]
          /\ There(t) # {} => \E n \in There(t) : n >= Archive
      BY <1>10 DEF TickerInd, TableFits
    <3> QED BY <1>2, <1>9, <2>2, <3>1, <3>2, <3>3 DEF TableFits
  <2> QED BY <2>1, <2>2
<1>14. \A i \in Imports : ImportFits(i)'
  BY <1>2, <1>9 DEF TickerInd, ImportFits
<1>15. ASSUME NEW g \in Fills PROVE FillFits(g)'
  <2>1. CASE g # f
    BY <1>6, <1>7, <1>9, <2>1, FillKept DEF TickerInd
  <2>2. CASE g = f /\ fills' = [fills EXCEPT ![f] = FillAt(1, "over", 0)]
    BY <2>2 DEF FillFits, Looked, FillAt, TickerInd, TickerTypeOK
  <2>3. CASE /\ g = f /\ rows = held
             /\ fills' = [fills EXCEPT ![f] = [fills[f] EXCEPT !.stage = "append"]]
    <3>1. fills'[f].ticker = t /\ fills'[f].stage = "append" /\ fills'[f].rows = held
      <4>1. fills \in [Fills -> FillRecords] /\ fills[f] \in FillRecords
        BY DEF TickerInd, TickerTypeOK
      <4>2. fills'[f] = [fills[f] EXCEPT !.stage = "append"]
        BY <2>3, <4>1
      <4> QED BY <1>1, <4>1, <4>2 DEF FillRecords
    <3>2. Whole(t, fills[f].rows)'
      <4> HIDE DEF held
      <4> QED BY <3>1, <1>11 DEF Whole
    <3>3. /\ held \cap There(t) \subseteq again[t] \cup crossed[t]
          /\ \A b \in Bars : b <= Archive => b \in There(t) \cup Causes(t)'
      BY <1>1, <1>10 DEF TickerInd, FillFits, Looked
    <3>4. held \subseteq csv'[t] \cup undone'[t]
      BY <1>5, <2>3
    <3> HIDE DEF held
    <3> QED BY <1>2, <1>9, <2>3, <3>1, <3>2, <3>3, <3>4 DEF FillFits
  <2> QED BY <1>1, <2>1, <2>2, <2>3
<1> QED BY <1>8, <1>13, <1>14, <1>15 DEF TickerInd

LEMMA AppendKeeps == ASSUME TickerInd, NEW f \in Fills, AppendFile(f) PROVE TickerInd'
<1> USE TickerAssumption
<1>1. PICK t \in TickerSet : /\ fills[f].ticker = t /\ fills[f].stage = "append"
                             /\ Adds(f, t, fills[f].rows)
  BY DEF AppendFile
<1>2. FillOn(f) /\ UNCHANGED <<newest, csv, imports, missed, again, undone>>
  BY DEF AppendFile
<1> DEFINE rows == fills[f].rows
<1>3. rows \in SUBSET Bars /\ Bars \subseteq Nat /\ Archive \in Nat
  BY DEF TickerInd, TickerTypeOK, FillRecords, Bars
<1>4. /\ \A b \in Bars : b <= Archive => b \in There(t) \cup Causes(t)
      /\ \A c \in rows : c > Archive
      /\ \A c \in rows : \A b \in Bars : b > Archive /\ b < c => b \in rows \cup Causes(t)
      /\ rows \cap There(t) \subseteq again[t] \cup crossed[t]
      /\ rows \subseteq csv[t] \cup undone[t]
  BY <1>1 DEF TickerInd, FillFits, Looked, Whole
<1>5. \A b \in Bars, n \in rows : b < n => b \in There(t) \cup rows \cup Causes(t)
  <2>1. \A b \in Bars : b <= Archive \/ b > Archive
    BY <1>3
  <2> QED BY <1>4, <2>1
<1>6. rows # {} => \E n \in rows : n >= Archive
  <2>1. \A n \in rows : n \in Nat /\ n > Archive
    BY <1>3, <1>4
  <2> HIDE DEF rows
  <2>2. \A n \in rows : n >= Archive
    BY <1>3, <2>1
  <2> QED BY <2>2
<1>7. /\ \A s \in TickerSet : TableFits(s)'
      /\ \A i \in Imports : i # f /\ imports'[i] = imports[i] => ImportFits(i)'
      /\ \A g \in Fills : g # f /\ fills'[g] = fills[g] => FillFits(g)'
  <2> HIDE DEF rows
  <2> QED BY <1>1, <1>2, <1>3, <1>4, <1>5, <1>6, AddKeeps DEF rows
<1>8. /\ fills' \in [Fills -> FillRecords] /\ FillFits(f)'
      /\ \A g \in Fills : g # f => fills'[g] = fills[g]
  BY <1>2, RunsAre DEF TickerInd, FillFits, Looked
<1>9. \A i \in Imports : i # f
  OBVIOUS
<1>10. TickerTypeOK'
  BY <1>1, <1>2, <1>3, <1>8, AddsWhat DEF TickerInd, TickerTypeOK
<1>11. \A g \in Fills : FillFits(g)'
  BY <1>7, <1>8
<1> QED BY <1>2, <1>7, <1>9, <1>10, <1>11 DEF TickerInd

LEMMA TickerStep == TickerInd /\ [TickerNext]_tickerVars => TickerInd'
<1> SUFFICES ASSUME TickerInd, [TickerNext]_tickerVars PROVE TickerInd'
  OBVIOUS
<1>1. CASE UNCHANGED tickerVars
  <2>1. TickerTypeOK' /\ Onwards
    BY <1>1 DEF tickerVars, histories, TickerInd, TickerTypeOK, Onwards
  <2> QED BY <1>1, <2>1, RunsMove DEF tickerVars
<1>2. ASSUME NEW i \in Imports, ImportStep(i) PROVE TickerInd'
  BY <1>2, ImportWaits, ReplaceKeeps, CopyKeeps DEF ImportStep
<1>3. ASSUME NEW f \in Fills, FillGapStep(f) PROVE TickerInd'
  BY <1>3, FillWaits, FetchKeeps, SaveKeeps, AppendKeeps DEF FillGapStep
<1> QED BY <1>1, <1>2, <1>3, ImportWaits DEF TickerNext

LEMMA TickerIndRows == TickerInd => RowsHaveCause
<1> SUFFICES ASSUME TickerInd PROVE RowsHaveCause
  OBVIOUS
<1>1. ASSUME NEW t \in TickerSet, NEW b \in Bars,
             tables[t][b] = 0, There(t) # {}, b < LastRow(t)
      PROVE  b \in missed[t] \cup undone[t]
  <2>1. LastRow(t) \in {0} \cup There(t) /\ b \in Nat
    BY LastRowIs, LastOfIs DEF TickerInd, TickerTypeOK, There, Bars
  <2>2. LastRow(t) \in There(t) /\ b \notin There(t)
    <3>1. b \in 1 .. LastBar
      BY DEF Bars
    <3>2. LastRow(t) # 0
      BY <1>1, <3>1, TickerAssumption
    <3> QED BY <1>1, <2>1, <3>2 DEF There
  <2> QED BY <1>1, <2>2 DEF TickerInd, TableFits, Causes
<1>2. ASSUME NEW t \in TickerSet, NEW b \in Bars, tables[t][b] > 1
      PROVE  b \in again[t] \cup crossed[t]
  BY <1>2 DEF TickerInd, TableFits
<1> QED BY <1>1, <1>2 DEF RowsHaveCause, HoleHasCause, CopyHasCause

\* For any tickers, bars, days and chunks, and over any number of imports and
\* fills, which may overlap and die anywhere: a bar missing below a table's
\* last row was missed by a run that no later run makes up for, or was taken
\* from the table under a fill, or from a file by a fill that had not read it
\* or died writing; and a bar stands twice only where a run appended a file
\* that the table already had a part of, or where another run was between its
\* look at the same table and what it added.
THEOREM RowsAlwaysHaveCause == TickerSpec => []RowsHaveCause
<1> QED BY TickerInitially, TickerStep, TickerIndRows, PTL DEF TickerSpec

-----------------------------------------------------------------------------
(* The operator's pipeline and the dashboard.                               *)

LEMMA StagesAre ==
  /\ Len(Stages) = 13 /\ DOMAIN Stages = 1 .. 13
  /\ Stages[1] = "init" /\ Stages[2] = "export_snapshot"
  /\ Stages[3] = "validate_snapshot" /\ Stages[4] = "sync_code"
  /\ Stages[5] = "upload_snapshot" /\ Stages[6] = "prepare_remote"
  /\ Stages[7] = "submit_base_train" /\ Stages[8] = "base_train"
  /\ Stages[9] = "verify_remote_artifacts" /\ Stages[10] = "download_artifacts"
  /\ Stages[11] = "promote_base" /\ Stages[12] = "reload_backend"
  /\ Stages[13] = "completed"
  BY DEF Stages

StageNames == {"init", "export_snapshot", "validate_snapshot", "sync_code",
               "upload_snapshot", "prepare_remote", "submit_base_train", "base_train",
               "verify_remote_artifacts", "download_artifacts", "promote_base",
               "reload_backend", "completed"}

LEMMA StageNamesAre == {Stages[i] : i \in DOMAIN Stages} = StageNames
<1>1. 1 .. 13 = {1, 2, 3, 4, 5, 6, 7, 8, 9, 10, 11, 12, 13}
  OBVIOUS
<1> QED BY <1>1, StagesAre DEF StageNames

LEMMA ExportIsSecond == StageNo("export_snapshot") = 2
<1>1. \A i \in 1 .. 13 : Stages[i] = "export_snapshot" <=> i = 2
  <2>1. 1 .. 13 = {1, 2, 3, 4, 5, 6, 7, 8, 9, 10, 11, 12, 13}
    OBVIOUS
  <2> QED BY <2>1, StagesAre
<1> QED BY <1>1, StagesAre DEF StageNo

ScriptStates == [date : Maybe, at : 0 .. 13, open : BOOLEAN, job : 0 .. MaxJobs]
RunReports == [cutoff : Maybe, stage : StageNames \cup {""},
            status : {"", "running", "ok", "error"}, meta : {"none", "bad", "ok"}]
SlurmJobs == [date : Dates, state : {"queued", "running", "completed", "failed"}]

LEMMA OffIs == /\ Off \in ScriptStates /\ Off.date = 0 /\ Off.at = 0 /\ Off.job = 0
               /\ NoReport \in RunReports /\ NoReport.cutoff = 0 /\ NoReport.stage = ""
               /\ NoReport.status = "" /\ NoReport.meta = "none"
<1>1. 0 \in Maybe /\ 0 \in 0 .. MaxJobs /\ 0 \in 0 .. 13
  BY FlowAssumption DEF Maybe
<1>2. Off \in ScriptStates
  BY <1>1 DEF Off, ScriptStates
<1>3. NoReport \in RunReports
  BY <1>1 DEF NoReport, RunReports
<1> QED BY <1>2, <1>3 DEF Off, NoReport

FlowTypesOK ==
  /\ latest \in Dates /\ closed \in BOOLEAN
  /\ script \in ScriptStates /\ report \in RunReports
  /\ exported \in [Dates -> {"none", "short", "full"}]
  /\ meta \in [Dates -> {"none", "bad", "ok"}]
  /\ slurm \in Seq(SlurmJobs)
  /\ runRoot \in Maybe /\ warm \in [Dates -> Maybe]
  /\ links \in [base : Maybe, eod : Maybe]
  /\ master \in BOOLEAN /\ heartbeat \in BOOLEAN
  /\ login \in [Logins -> {"off", "check", "password", "mfa", "eof"}]
  /\ trained \subseteq Dates

LEMMA FlowTypes == FlowTypeOK <=> FlowTypesOK
  BY StagesAre, StageNamesAre DEF FlowTypeOK, FlowTypesOK, ScriptStates, RunReports, SlurmJobs

\* A meta file, and a status line that quotes it, say ok of a whole snapshot.
MetaIsTrue == /\ \A d \in Dates : meta[d] = "ok" => exported[d] = "full"
              /\ report.meta = "ok" /\ report.cutoff # 0 => exported[report.cutoff] = "full"

\* The model wherever it has got to was trained by some job.
ModelsAreTrained == /\ runRoot # 0 => runRoot \in trained
                    /\ \A d \in Dates : warm[d] # 0 => warm[d] \in trained
                    /\ \A j \in DOMAIN slurm :
                         slurm[j].state = "completed" => slurm[j].date \in trained

\* The script polls a job of its own date, and goes on when that one is done.
PollsItsOwn == /\ script.at # 0 => script.date # 0
               /\ script.at >= 8 => /\ script.job \in DOMAIN slurm
                                    /\ slurm[script.job].date = script.date
               /\ script.at > 8 => script.date \in trained

\* A status line that says so much was written by a script that got there.
ReportIsTrue == report.stage \in AfterTraining /\ report.status = "ok" =>
                  report.cutoff \in trained

FlowInd == FlowTypesOK /\ MetaIsTrue /\ ModelsAreTrained /\ PollsItsOwn /\ ReportIsTrue

LEMMA FlowInitially == FlowInit => FlowInd
<1> SUFFICES ASSUME FlowInit PROVE FlowInd
  OBVIOUS
<1> USE FlowAssumption DEF FlowInit
<1>1. 0 \in Maybe /\ 0 \in 0 .. MaxJobs /\ 1 \in Dates
  BY DEF Maybe, Dates
<1>2. script \in ScriptStates /\ report \in RunReports
  BY OffIs
<1>3. slurm \in Seq(SlurmJobs) /\ DOMAIN slurm = {}
  OBVIOUS
<1>4. FlowTypesOK
  <2>1. links \in [base : Maybe, eod : Maybe] /\ warm \in [Dates -> Maybe]
    BY <1>1
  <2>2. login \in [Logins -> {"off", "check", "password", "mfa", "eof"}]
    OBVIOUS
  <2> QED BY <1>1, <1>2, <1>3, <2>1, <2>2 DEF FlowTypesOK
<1>5. MetaIsTrue
  BY OffIs DEF MetaIsTrue
<1>6. PollsItsOwn /\ ReportIsTrue
  <2>1. script.at = 0 /\ report.stage = ""
    BY OffIs
  <2> HIDE DEF FlowInit
  <2>2. PollsItsOwn
    <3>1. ~(0 >= 8) /\ ~(0 > 8)
      OBVIOUS
    <3>2. ~(script.at >= 8) /\ ~(script.at > 8)
      BY <2>1, <3>1, Zenon
    <3> QED BY <2>1, <3>2 DEF PollsItsOwn
  <2>3. ReportIsTrue
    BY <2>1 DEF ReportIsTrue, AfterTraining
  <2> QED BY <2>2, <2>3
<1>7. ModelsAreTrained
  BY <1>3 DEF ModelsAreTrained
<1> QED BY <1>4, <1>5, <1>6, <1>7 DEF FlowInd

\* What the dashboard shows follows from the invariant.
LEMMA FlowShows == FlowInd => ShownIsDone
<1> SUFFICES ASSUME FlowInd, NEW db \in BOOLEAN, Cutoff(db) # 0
             PROVE  /\ SnapshotShown(Cutoff(db)) = "completed" =>
                         exported[Cutoff(db)] = "full"
                    /\ TrainShown(Cutoff(db)) = "completed" => Cutoff(db) \in trained
  BY DEF ShownIsDone
<1> DEFINE c == Cutoff(db)
<1> USE FlowAssumption DEF FlowInd, FlowTypesOK
<1>1. ActiveCutoff # 0 => ActiveCutoff \in trained
  BY DEF ActiveCutoff, ModelsAreTrained, Maybe, Dates
<1>2. c \in Dates
  <2>1. ActiveCutoff \in Maybe
    BY DEF ActiveCutoff, Maybe, Dates
  <2>2. report.cutoff \in Maybe
    BY DEF RunReports
  <2> QED BY <2>1, <2>2 DEF Cutoff, Maybe, Dates
<1>3. SnapshotShown(c) = "completed" => exported[c] = "full"
  <2> HIDE DEF c
  <2>1. SnapshotShown(c) = "completed" =>
          (IF Flow(c).meta # "none" THEN Flow(c).meta ELSE meta[c]) = "ok"
    BY DEF SnapshotShown
  <2>2. Flow(c).meta # "none" => Flow(c) = report /\ report.cutoff = c
    BY DEF Flow, NoReport
  <2> QED BY <1>2, <2>1, <2>2 DEF MetaIsTrue, Dates
<1>4. TrainShown(c) = "completed" => c \in trained
  <2> HIDE DEF c
  <2> SUFFICES ASSUME TrainShown(c) = "completed" PROVE c \in trained
    OBVIOUS
  <2>1. ActiveCutoff = c \/ FromFlow(c, AfterTraining) = "completed"
    BY DEF TrainShown, LiveTrain
  <2>2. CASE ActiveCutoff = c
    BY <1>1, <1>2, <2>2 DEF Dates
  <2>3. CASE FromFlow(c, AfterTraining) = "completed"
    <3>1. /\ Flow(c).stage \in AfterTraining
          /\ Normalized(Flow(c).status) = "completed"
      BY <2>3 DEF FromFlow
    <3>2. Flow(c) = report /\ report.cutoff = c
      BY <3>1 DEF Flow, NoReport, AfterTraining
    <3>3. report.status = "ok"
      BY <3>1, <3>2 DEF Normalized, RunReports
    <3> QED BY <3>1, <3>2, <3>3 DEF ReportIsTrue
  <2> QED BY <2>1, <2>2, <2>3
<1> QED BY <1>3, <1>4

LEMMA StageOf ==
  ASSUME NEW i \in 1 .. 13, NEW k \in 1 .. 13, Stages[i] = Stages[k] PROVE i = k
<1>1. 1 .. 13 = {1, 2, 3, 4, 5, 6, 7, 8, 9, 10, 11, 12, 13}
  OBVIOUS
<1> QED BY <1>1, StagesAre

\* The status file takes what it is given.
LEMMA StatusIs ==
  ASSUME NEW d \in Dates, NEW stage \in StageNames, NEW status \in {"running", "ok", "error"},
         NEW metas \in [Dates -> {"none", "bad", "ok"}], WriteStatus(d, stage, status, metas)
  PROVE  /\ report' \in RunReports /\ report'.cutoff = d /\ report'.stage = stage
         /\ report'.status = status /\ report'.meta = metas[d]
<1>1. d \in Maybe
  BY DEF Dates, Maybe
<1>2. report' = [cutoff |-> d, stage |-> stage, status |-> status, meta |-> metas[d]]
  BY DEF WriteStatus
<1>3. metas[d] \in {"none", "bad", "ok"}
  OBVIOUS
<1> QED BY <1>1, <1>2, <1>3 DEF RunReports

\* A stage that is done: the next one, and an ok line of the script's date.
LEMMA DoneIs ==
  ASSUME FlowInd, NEW i \in 2 .. 12, Done(Stages[i]), i = 7 => Len(slurm) < MaxJobs
  PROVE  /\ script.at = i /\ script.date \in Dates
         /\ script' \in ScriptStates /\ script'.at = i + 1 /\ script'.date = script.date
         /\ script'.job = (IF i = 7 THEN Len(slurm) + 1 ELSE script.job)
         /\ report' \in RunReports /\ report'.cutoff = script.date
         /\ report'.stage = Stages[i] /\ report'.status = "ok"
         /\ report'.meta = meta[script.date]
<1> USE FlowAssumption DEF FlowInd, FlowTypesOK
<1>1. script.at \in 1 .. 13 /\ Stages[script.at] = Stages[i] /\ i \in 1 .. 13
  BY DEF Done, At, ScriptStates
<1>2. script.at = i
  BY <1>1, StageOf
<1>3. script.date \in Dates
  <2>1. script.at # 0
    BY <1>2
  <2>2. script.date # 0
    BY <2>1 DEF PollsItsOwn
  <2>3. script.date \in Maybe
    BY DEF ScriptStates
  <2> QED BY <2>2, <2>3 DEF Dates, Maybe
<1>4. Stages[i] = "submit_base_train" <=> i = 7
  BY <1>1, StageOf, StagesAre
<1> DEFINE job == IF i = 7 THEN Len(slurm) + 1 ELSE script.job
<1>5. script' = [script EXCEPT !.at = i + 1, !.open = FALSE, !.job = job]
  BY <1>2, <1>4 DEF Done
<1>6. job \in 0 .. MaxJobs /\ i + 1 \in 0 .. 13
  <2>1. Len(slurm) \in Nat /\ script.job \in 0 .. MaxJobs
    BY DEF ScriptStates
  <2> QED BY <2>1
<1>7. /\ script' \in ScriptStates /\ script'.at = i + 1 /\ script'.date = script.date
      /\ script'.job = job
  <2> HIDE DEF job
  <2> QED BY <1>5, <1>6 DEF ScriptStates
<1>8. Stages[i] \in StageNames
  BY <1>1, StagesAre, StageNamesAre
<1>9. WriteStatus(script.date, Stages[i], "ok", meta)
  BY DEF Done
<1> QED BY <1>2, <1>3, <1>7, <1>8, <1>9, StatusIs

\* What keeps each part of the invariant.
LEMMA MetaKept ==
  ASSUME FlowInd, \A d \in Dates : exported[d] = "full" => exported'[d] = "full",
         \A d \in Dates : meta'[d] = "ok" => exported'[d] = "full",
         \/ report' = report
         \/ report'.cutoff \in Dates /\ report'.meta = meta'[report'.cutoff]
  PROVE  MetaIsTrue'
<1>1. report.cutoff \in Maybe
  BY DEF FlowTypesOK, FlowInd, RunReports
<1> QED BY <1>1 DEF FlowInd, MetaIsTrue, Dates, Maybe

LEMMA ReportKept ==
  ASSUME FlowInd, trained \subseteq trained',
         \/ report' = report \/ report'.status \in {"running", "error"}
         \/ report'.stage \notin AfterTraining \/ report'.cutoff \in trained'
  PROVE  ReportIsTrue'
  BY DEF FlowInd, ReportIsTrue

LEMMA ScriptStays ==
  ASSUME FlowInd, \/ script'.at = 0
                  \/ /\ script'.at = script.at /\ script'.date = script.date
                     /\ script'.job = script.job,
         slurm' = slurm, trained' = trained
  PROVE  PollsItsOwn'
  BY DEF FlowTypesOK, FlowInd, PollsItsOwn

LEMMA LaunchStep == ASSUME FlowInd, NEW d \in Dates, Launch(d) PROVE FlowInd'
<1> USE FlowAssumption DEF FlowTypesOK
<1>1. script' = [Off EXCEPT !.date = d, !.at = 2]
  BY ExportIsSecond DEF Launch
<1>2. d \in Maybe /\ d # 0 /\ 2 \in 0 .. 13
  BY DEF Dates, Maybe
<1>3. script' \in ScriptStates /\ script'.at = 2 /\ script'.date = d
  BY <1>1, <1>2, OffIs DEF ScriptStates
<1>4. /\ report' \in RunReports /\ report'.cutoff = d /\ report'.status = "running"
      /\ report'.meta = meta[d]
  BY StatusIs DEF Launch, FlowInd, StageNames
<1>5. UNCHANGED <<latest, closed, exported, meta, warm, links, slurm, runRoot, trained,
                  master, heartbeat, login>>
  BY DEF Launch, localVars, nibiVars, sshVars
<1>6. MetaIsTrue'
  BY <1>4, <1>5, MetaKept DEF FlowInd, MetaIsTrue
<1>7. ReportIsTrue'
  BY <1>4, <1>5, ReportKept
<1>8. ModelsAreTrained' /\ PollsItsOwn'
  BY <1>2, <1>3, <1>5 DEF FlowInd, ModelsAreTrained, PollsItsOwn
<1> QED BY <1>3, <1>4, <1>5, <1>6, <1>7, <1>8 DEF FlowInd

LEMMA BeginStep == ASSUME FlowInd, BeginStage PROVE FlowInd'
<1> USE FlowAssumption DEF FlowTypesOK
<1>1. script.at \in 1 .. 13 /\ script.date \in Dates
  <2>1. script.at # 0 /\ script.at \in 0 .. 13 /\ script.date \in Maybe
    BY DEF BeginStage, FlowInd, ScriptStates
  <2> QED BY <2>1 DEF FlowInd, PollsItsOwn, Dates, Maybe
<1>2. /\ script' \in ScriptStates /\ script'.at = script.at /\ script'.date = script.date
      /\ script'.job = script.job
  BY DEF BeginStage, FlowInd, ScriptStates
<1>3. Stages[script.at] \in StageNames
  BY <1>1, StagesAre, StageNamesAre
<1>4. /\ report' \in RunReports /\ report'.cutoff = script.date /\ report'.status = "running"
      /\ report'.meta = meta[script.date]
  BY <1>1, <1>3, StatusIs DEF BeginStage, FlowInd
<1>5. UNCHANGED <<latest, closed, exported, meta, warm, links, slurm, runRoot, trained,
                  master, heartbeat, login>>
  BY DEF BeginStage, localVars, nibiVars, sshVars
<1>6. MetaIsTrue' /\ ReportIsTrue'
  BY <1>1, <1>4, <1>5, MetaKept, ReportKept DEF FlowInd, MetaIsTrue
<1>7. PollsItsOwn' /\ ModelsAreTrained'
  BY <1>2, <1>5, ScriptStays DEF FlowInd, ModelsAreTrained
<1> QED BY <1>2, <1>4, <1>5, <1>6, <1>7 DEF FlowInd

LEMMA DieStep == ASSUME FlowInd, Die PROVE FlowInd'
<1> USE FlowAssumption, OffIs DEF FlowTypesOK
<1>1. script' \in ScriptStates /\ script'.at = 0
  BY DEF Die
<1>2. UNCHANGED <<latest, closed, report, exported, meta, warm, links, slurm, runRoot, trained,
                  master, heartbeat, login>>
  BY DEF Die, localVars, nibiVars, sshVars
<1>3. MetaIsTrue' /\ ReportIsTrue' /\ PollsItsOwn' /\ ModelsAreTrained'
  BY <1>1, <1>2, ScriptStays, MetaKept, ReportKept DEF FlowInd, ModelsAreTrained, MetaIsTrue
<1> QED BY <1>1, <1>2, <1>3 DEF FlowInd

\* A stage that leaves the jobs and the models alone: export, sync, upload,
\* the check of the remote files, the reload, and the poll of a completed job.
LEMMA EasyStage ==
  ASSUME FlowInd, NEW i \in 2 .. 12, i # 7, Done(Stages[i]),
         i = 8 => slurm[script.job].state = "completed",
         UNCHANGED <<latest, closed, meta, warm, nibiVars, sshVars>>,
         exported' \in [Dates -> {"none", "short", "full"}],
         \A d \in Dates : exported[d] = "full" => exported'[d] = "full",
         links' \in [base : Maybe, eod : Maybe]
  PROVE  FlowInd'
<1> USE FlowAssumption DEF FlowTypesOK
<1>1. /\ script.at = i /\ script.date \in Dates
      /\ script' \in ScriptStates /\ script'.at = i + 1 /\ script'.date = script.date
      /\ script'.job = script.job
      /\ report' \in RunReports /\ report'.cutoff = script.date
      /\ report'.stage = Stages[i] /\ report'.status = "ok"
      /\ report'.meta = meta[script.date]
  BY DoneIs
<1>2. UNCHANGED <<slurm, runRoot, trained, master, heartbeat, login>>
  BY DEF nibiVars, sshVars
<1>3. i >= 8 => script.date \in trained
  <2>1. CASE i = 8
    BY <1>1, <2>1 DEF FlowInd, PollsItsOwn, ModelsAreTrained
  <2>2. CASE i > 8
    BY <1>1, <2>2 DEF FlowInd, PollsItsOwn
  <2> QED BY <2>1, <2>2
<1>4. PollsItsOwn'
  BY <1>1, <1>2, <1>3 DEF FlowInd, PollsItsOwn
<1>5. ReportIsTrue'
  <2>1. CASE i >= 8
    BY <1>1, <1>2, <1>3, <2>1, ReportKept
  <2>2. CASE i \in {2, 3, 4, 5, 6}
    <3>1. Stages[i] \notin AfterTraining
      BY <2>2, StagesAre DEF AfterTraining
    <3> QED BY <1>1, <1>2, <3>1, ReportKept
  <2> QED BY <2>1, <2>2
<1>6. MetaIsTrue'
  BY <1>1, MetaKept DEF FlowInd, MetaIsTrue
<1>7. ModelsAreTrained'
  BY <1>2 DEF FlowInd, ModelsAreTrained
<1> QED BY <1>1, <1>2, <1>4, <1>5, <1>6, <1>7 DEF FlowInd

LEMMA EasySteps ==
  ASSUME FlowInd, \/ ExportSnapshot \/ SyncAndUpload \/ PollCompleted \/ VerifyRemote
                  \/ MoveEod \/ ReloadBackend
  PROVE  FlowInd'
<1> USE FlowAssumption, StagesAre DEF FlowInd, FlowTypesOK
<1>1. CASE ExportSnapshot
  <2>1. Coverage(script.date) \in {"full", "short"}
    BY DEF Coverage
  <2>2. /\ exported' \in [Dates -> {"none", "short", "full"}]
        /\ \A d \in Dates : exported[d] = "full" => exported'[d] = "full"
    BY <1>1, <2>1 DEF ExportSnapshot
  <2>3. Done(Stages[2]) /\ UNCHANGED <<latest, closed, meta, warm, nibiVars, sshVars, links>>
    BY <1>1 DEF ExportSnapshot
  <2> QED BY <2>2, <2>3, EasyStage
<1>2. CASE SyncAndUpload
  <2>1. /\ Done(Stages[4]) \/ Done(Stages[5])
        /\ UNCHANGED <<latest, closed, meta, warm, nibiVars, sshVars, links, exported>>
    BY <1>2 DEF SyncAndUpload, localVars
  <2> QED BY <2>1, EasyStage
<1>3. CASE PollCompleted
  <2>1. /\ Done(Stages[8]) /\ slurm[script.job].state = "completed"
        /\ UNCHANGED <<latest, closed, meta, warm, nibiVars, sshVars, links, exported>>
    BY <1>3 DEF PollCompleted, localVars
  <2> QED BY <2>1, EasyStage
<1>4. CASE VerifyRemote
  <2>1. /\ Done(Stages[9])
        /\ UNCHANGED <<latest, closed, meta, warm, nibiVars, sshVars, links, exported>>
    BY <1>4 DEF VerifyRemote, localVars
  <2> QED BY <2>1, EasyStage
<1>5. CASE MoveEod
  <2>1. /\ Done(Stages[11])
        /\ UNCHANGED <<latest, closed, meta, warm, nibiVars, sshVars, exported>>
    BY <1>5 DEF MoveEod
  <2>2. script.date \in Maybe
    BY DEF ScriptStates
  <2>3. links' \in [base : Maybe, eod : Maybe]
    BY <1>5, <2>2 DEF MoveEod
  <2> QED BY <2>1, <2>3, EasyStage
<1>6. CASE ReloadBackend
  <2>1. /\ Done(Stages[12])
        /\ UNCHANGED <<latest, closed, meta, warm, nibiVars, sshVars, links, exported>>
    BY <1>6 DEF ReloadBackend, localVars
  <2> QED BY <2>1, EasyStage
<1> QED BY <1>1, <1>2, <1>3, <1>4, <1>5, <1>6

LEMMA ScriptIs ==
  ASSUME FlowInd, script.at # 0
  PROVE  script.at \in 1 .. 13 /\ script.date \in Dates
<1>1. script.at \in 0 .. 13 /\ script.date \in Maybe
  BY DEF FlowInd, FlowTypesOK, ScriptStates
<1>2. script.date # 0
  BY DEF FlowInd, PollsItsOwn
<1> QED BY <1>1, <1>2 DEF Maybe, Dates

LEMMA AtIs ==
  ASSUME FlowInd, NEW i \in 1 .. 13, At(Stages[i])
  PROVE  script.at = i /\ script.date \in Dates
<1>1. script.at \in 1 .. 13 /\ script.date \in Dates /\ Stages[script.at] = Stages[i]
  BY ScriptIs DEF At
<1> QED BY <1>1, StageOf

LEMMA ValidateStep == ASSUME FlowInd, ValidateSnapshot PROVE FlowInd'
<1> USE FlowAssumption
<1>1. script.at = 3
  BY AtIs, StagesAre DEF ValidateSnapshot
<1>2. script.date \in Dates
  BY <1>1, ScriptIs
<1>3. /\ meta' = [meta EXCEPT ![script.date] = IF Valid(script.date) THEN "ok" ELSE "bad"]
      /\ UNCHANGED <<latest, closed, exported, warm, links, slurm, runRoot, trained,
                     master, heartbeat, login>>
  BY DEF FlowInd, FlowTypesOK, ValidateSnapshot, nibiVars, sshVars
<1>4. meta' \in [Dates -> {"none", "bad", "ok"}]
      /\ \A d \in Dates : meta'[d] = "ok" => exported'[d] = "full"
  BY <1>2, <1>3 DEF FlowInd, FlowTypesOK, Valid, MetaIsTrue
<1>5. CASE Valid(script.date)
  <2>1. script' = [script EXCEPT !.at = 4, !.open = FALSE]
    BY <1>1, <1>5 DEF FlowInd, FlowTypesOK, ValidateSnapshot
  <2>2. /\ script' \in ScriptStates /\ script'.at = 4 /\ script'.date = script.date
    <3>1. script \in ScriptStates /\ 4 \in 0 .. 13
      BY DEF FlowInd, FlowTypesOK
    <3> QED BY <2>1, <3>1 DEF ScriptStates
  <2>3. "validate_snapshot" \in StageNames
    BY DEF FlowInd, FlowTypesOK, StageNames
  <2>4. WriteStatus(script.date, "validate_snapshot", "ok", meta')
    BY <1>5 DEF FlowInd, FlowTypesOK, ValidateSnapshot
  <2>5. /\ report' \in RunReports /\ report'.cutoff = script.date
        /\ report'.stage = "validate_snapshot" /\ report'.meta = meta'[script.date]
    BY <1>2, <1>4, <2>3, <2>4, StatusIs DEF FlowInd, FlowTypesOK
  <2>6. MetaIsTrue'
    BY <1>2, <1>3, <1>4, <2>5, MetaKept DEF FlowInd, FlowTypesOK
  <2>7. ReportIsTrue'
    BY <2>5 DEF FlowInd, FlowTypesOK, ReportIsTrue, AfterTraining
  <2>8. PollsItsOwn'
    BY <1>2, <2>2 DEF FlowInd, FlowTypesOK, PollsItsOwn, Dates
  <2> QED BY <1>3, <1>4, <2>2, <2>5, <2>6, <2>7, <2>8 DEF FlowInd, FlowTypesOK, ModelsAreTrained
<1>6. CASE ~Valid(script.date)
  <2>1. script' = Off /\ report' = report
    BY <1>6 DEF ValidateSnapshot
  <2>4. script' \in ScriptStates /\ script'.at = 0
    BY <2>1, OffIs
  <2>2. MetaIsTrue'
    BY <1>3, <1>4, <2>1, MetaKept DEF FlowInd, FlowTypesOK
  <2>3. ReportIsTrue' /\ PollsItsOwn'
    BY <1>3, <2>1, <2>4, ScriptStays DEF FlowInd, ReportIsTrue
  <2> QED BY <1>3, <1>4, <2>1, <2>2, <2>3, <2>4 DEF FlowInd, FlowTypesOK, ModelsAreTrained
<1> QED BY <1>5, <1>6

\* One more job in the queue.
LEMMA SbatchIs ==
  ASSUME FlowInd, Sbatch, script.date \in Dates
  PROVE  /\ slurm' \in Seq(SlurmJobs) /\ Len(slurm) \in Nat /\ Len(slurm) < MaxJobs
         /\ Len(slurm) + 1 \in DOMAIN slurm' /\ slurm'[Len(slurm) + 1].date = script.date
         /\ slurm'[Len(slurm) + 1].state = "queued"
         /\ \A j \in DOMAIN slurm : j \in DOMAIN slurm' /\ slurm'[j] = slurm[j]
         /\ \A j \in DOMAIN slurm' : j \in DOMAIN slurm \/ j = Len(slurm) + 1
<1> DEFINE e == [date |-> script.date, state |-> "queued"]
<1>1. e \in SlurmJobs /\ slurm \in Seq(SlurmJobs)
  BY DEF SlurmJobs, FlowInd, FlowTypesOK
<1>2. slurm' = Append(slurm, e) /\ Len(slurm) < MaxJobs
  BY DEF Sbatch
<1>3. e.date = script.date /\ e.state = "queued"
  OBVIOUS
<1> HIDE DEF e
<1> QED BY <1>1, <1>2, <1>3

LEMMA SubmitSteps ==
  ASSUME FlowInd, SubmitBaseTrain \/ SubmitLost PROVE FlowInd'
<1> USE FlowAssumption
<1>1. CASE SubmitBaseTrain
  <2>0. Sbatch /\ Len(slurm) < MaxJobs /\ Done(Stages[7])
    BY <1>1, StagesAre DEF FlowInd, FlowTypesOK, SubmitBaseTrain, Sbatch
  <2>1. /\ script.at = 7 /\ script.date \in Dates
        /\ script' \in ScriptStates /\ script'.at = 7 + 1 /\ script'.date = script.date
        /\ script'.job = Len(slurm) + 1
        /\ report' \in RunReports /\ report'.cutoff = script.date
        /\ report'.stage = Stages[7] /\ report'.meta = meta[script.date]
    BY <2>0, DoneIs
  <2>2. UNCHANGED <<latest, closed, exported, meta, warm, links, runRoot, trained,
                    master, heartbeat, login>>
    BY <1>1 DEF FlowInd, FlowTypesOK, SubmitBaseTrain, localVars, sshVars
  <2>3. MetaIsTrue'
    BY <2>1, <2>2, MetaKept DEF FlowInd, FlowTypesOK, MetaIsTrue
  <2>4. ReportIsTrue'
    BY <2>1, StagesAre DEF FlowInd, FlowTypesOK, ReportIsTrue, AfterTraining
  <2>5. PollsItsOwn'
    BY <2>0, <2>1, SbatchIs DEF PollsItsOwn, Dates
  <2>6. ModelsAreTrained'
    BY <2>0, <2>1, <2>2, SbatchIs DEF FlowInd, ModelsAreTrained
  <2> QED BY <2>0, <2>1, <2>2, <2>3, <2>4, <2>5, <2>6, SbatchIs DEF FlowInd, FlowTypesOK
<1>2. CASE SubmitLost
  <2>1. Sbatch /\ script' = Off /\ master' = FALSE
        /\ UNCHANGED <<latest, closed, report, exported, meta, warm, links, runRoot,
                       trained, heartbeat, login>>
    BY <1>2 DEF FlowInd, FlowTypesOK, SubmitLost, localVars
  <2>2. script.date \in Dates
    BY <1>2, ScriptIs DEF SubmitLost, At
  <2>5. script' \in ScriptStates /\ script'.at = 0 /\ script'.date = 0
    BY <2>1, OffIs
  <2>3. MetaIsTrue' /\ ReportIsTrue'
    BY <2>1 DEF FlowInd, FlowTypesOK, MetaIsTrue, ReportIsTrue
  <2>4. ModelsAreTrained' /\ PollsItsOwn'
    BY <2>1, <2>2, <2>5, SbatchIs DEF FlowInd, FlowTypesOK, ModelsAreTrained, PollsItsOwn
  <2> QED BY <2>1, <2>2, <2>3, <2>4, <2>5, SbatchIs DEF FlowInd, FlowTypesOK
<1> QED BY <1>1, <1>2

LEMMA RemoteSteps ==
  ASSUME FlowInd, PrepareRemote \/ PollFailed \/ Download \/ MoveBase \/ Complete
  PROVE  FlowInd'
<1> USE FlowAssumption
<1>1. CASE PrepareRemote
  <2>0. Done(Stages[6])
    BY <1>1, StagesAre DEF FlowInd, FlowTypesOK, PrepareRemote
  <2>1. /\ script.at = 6 /\ script.date \in Dates
        /\ script' \in ScriptStates /\ script'.at = 6 + 1 /\ script'.date = script.date
        /\ report' \in RunReports /\ report'.cutoff = script.date
        /\ report'.stage = Stages[6] /\ report'.meta = meta[script.date]
    BY <2>0, DoneIs
  <2>2. runRoot' = 0 /\ UNCHANGED <<latest, closed, exported, meta, warm, links, slurm, trained,
                                    master, heartbeat, login>>
    BY <1>1 DEF FlowInd, FlowTypesOK, PrepareRemote, localVars, sshVars
  <2>3. MetaIsTrue'
    BY <2>1, <2>2, MetaKept DEF FlowInd, FlowTypesOK, MetaIsTrue
  <2>4. ReportIsTrue'
    BY <2>1, StagesAre DEF FlowInd, FlowTypesOK, ReportIsTrue, AfterTraining
  <2>5. PollsItsOwn' /\ ModelsAreTrained'
    BY <2>1, <2>2 DEF FlowInd, FlowTypesOK, PollsItsOwn, ModelsAreTrained, Dates
  <2>6. runRoot' \in Maybe
    BY <2>2 DEF FlowInd, FlowTypesOK, Maybe
  <2> QED BY <2>1, <2>2, <2>3, <2>4, <2>5, <2>6 DEF FlowInd, FlowTypesOK
<1>2. CASE PollFailed
  <2>1. /\ script' = Off /\ UNCHANGED <<latest, closed, exported, meta, warm, links, slurm,
                                        runRoot, trained, master, heartbeat, login>>
        /\ WriteStatus(script.date, "base_train", "error", meta)
    BY <1>2 DEF FlowInd, FlowTypesOK, PollFailed, localVars, nibiVars, sshVars
  <2>2. script.date \in Dates /\ "base_train" \in StageNames
    BY <1>2, ScriptIs DEF PollFailed, At, StageNames
  <2>3. /\ report' \in RunReports /\ report'.cutoff = script.date
        /\ report'.status = "error" /\ report'.meta = meta[script.date]
    BY <2>1, <2>2, StatusIs DEF FlowInd, FlowTypesOK
  <2>4. MetaIsTrue' /\ ReportIsTrue'
    BY <2>1, <2>2, <2>3, MetaKept DEF FlowInd, FlowTypesOK, MetaIsTrue, ReportIsTrue
  <2>6. script' \in ScriptStates /\ script'.at = 0
    BY <2>1, OffIs
  <2>5. PollsItsOwn' /\ ModelsAreTrained'
    BY <2>1, <2>6, ScriptStays DEF FlowInd, ModelsAreTrained
  <2> QED BY <2>1, <2>3, <2>4, <2>5, <2>6 DEF FlowInd, FlowTypesOK
<1>3. CASE Download
  <2>0. Done(Stages[10])
    BY <1>3, StagesAre DEF FlowInd, FlowTypesOK, Download
  <2>1. /\ script.at = 10 /\ script.date \in Dates
        /\ script' \in ScriptStates /\ script'.at = 10 + 1 /\ script'.date = script.date
        /\ script'.job = script.job
        /\ report' \in RunReports /\ report'.cutoff = script.date
        /\ report'.stage = Stages[10] /\ report'.meta = meta[script.date]
    BY <2>0, DoneIs
  <2>2. /\ runRoot # 0 /\ warm' = [warm EXCEPT ![script.date] = runRoot]
        /\ UNCHANGED <<latest, closed, exported, meta, links, slurm, runRoot, trained,
                       master, heartbeat, login>>
    BY <1>3 DEF FlowInd, FlowTypesOK, Download, nibiVars, sshVars
  <2>3. MetaIsTrue'
    BY <2>1, <2>2, MetaKept DEF FlowInd, FlowTypesOK, MetaIsTrue
  <2>4. ReportIsTrue' /\ PollsItsOwn'
    BY <2>1, <2>2 DEF FlowInd, FlowTypesOK, ReportIsTrue, PollsItsOwn
  <2>5. ModelsAreTrained'
    BY <2>2 DEF FlowInd, FlowTypesOK, ModelsAreTrained
  <2>6. warm' \in [Dates -> Maybe]
    BY <2>2 DEF FlowInd, FlowTypesOK
  <2> QED BY <2>1, <2>2, <2>3, <2>4, <2>5, <2>6 DEF FlowInd, FlowTypesOK
<1>4. CASE MoveBase
  <2>1. /\ links' = [links EXCEPT !.base = script.date]
        /\ UNCHANGED <<latest, closed, script, report, exported, meta, warm, slurm, runRoot,
                       trained, master, heartbeat, login>>
    BY <1>4 DEF FlowInd, FlowTypesOK, MoveBase, scriptVars, nibiVars, sshVars
  <2>2. links' \in [base : Maybe, eod : Maybe]
    BY <2>1 DEF FlowInd, FlowTypesOK, ScriptStates
  <2> QED BY <2>1, <2>2 DEF FlowInd, FlowTypesOK, MetaIsTrue, ReportIsTrue, PollsItsOwn, ModelsAreTrained
<1>5. CASE Complete
  <2>1. /\ script' = Off /\ UNCHANGED <<latest, closed, exported, meta, warm, links, slurm,
                                        runRoot, trained, master, heartbeat, login>>
        /\ WriteStatus(script.date, "completed", "ok", meta)
    BY <1>5 DEF FlowInd, FlowTypesOK, Complete, localVars, nibiVars, sshVars
  <2>2. script.at = 13 /\ script.date \in Dates
    BY <1>5, AtIs, StagesAre DEF Complete
  <2>3. script.date \in trained /\ "completed" \in StageNames
    BY <2>2 DEF FlowInd, PollsItsOwn, StageNames
  <2>4. /\ report' \in RunReports /\ report'.cutoff = script.date
        /\ report'.meta = meta[script.date]
    BY <2>1, <2>2, <2>3, StatusIs DEF FlowInd, FlowTypesOK
  <2>5. MetaIsTrue' /\ ReportIsTrue'
    BY <2>1, <2>3, <2>4, MetaKept DEF FlowInd, FlowTypesOK, MetaIsTrue, ReportIsTrue
  <2>7. script' \in ScriptStates /\ script'.at = 0
    BY <2>1, OffIs
  <2>6. PollsItsOwn' /\ ModelsAreTrained'
    BY <2>1, <2>7, ScriptStays DEF FlowInd, ModelsAreTrained
  <2> QED BY <2>1, <2>4, <2>5, <2>6, <2>7 DEF FlowInd, FlowTypesOK
<1> QED BY <1>1, <1>2, <1>3, <1>4, <1>5

LEMMA JobStepKeeps ==
  ASSUME FlowInd, NEW j \in DOMAIN slurm, JobStep(j) PROVE FlowInd'
<1> USE FlowAssumption
<1>1. PICK s \in {"running", "completed", "failed"} :
        /\ slurm' = [slurm EXCEPT ![j].state = s]
        /\ runRoot' = IF s = "completed" THEN slurm[j].date ELSE runRoot
        /\ trained' = IF s = "completed" THEN trained \cup {slurm[j].date} ELSE trained
  BY DEF JobStep
<1>2. slurm \in Seq(SlurmJobs) /\ slurm[j] \in SlurmJobs
  BY DEF FlowInd, FlowTypesOK
<1>3. /\ slurm' \in Seq(SlurmJobs) /\ DOMAIN slurm' = DOMAIN slurm
      /\ slurm'[j].state = s /\ \A k \in DOMAIN slurm : slurm'[k].date = slurm[k].date
      /\ \A k \in DOMAIN slurm \ {j} : slurm'[k] = slurm[k]
  <2> DEFINE e == [slurm[j] EXCEPT !.state = s]
  <2>1. e \in SlurmJobs /\ e.state = s /\ e.date = slurm[j].date
    BY <1>2 DEF SlurmJobs
  <2>2. slurm' = [slurm EXCEPT ![j] = e]
    BY <1>1
  <2> HIDE DEF e
  <2> QED BY <1>2, <2>1, <2>2
<1>4. slurm[j].date \in Dates /\ slurm[j].date \in Maybe
  BY <1>2 DEF SlurmJobs, Dates, Maybe
<1>5. UNCHANGED <<latest, closed, script, report, exported, meta, warm, links, master,
                  heartbeat, login>>
  BY DEF JobStep, scriptVars, localVars, sshVars
<1>6. trained \subseteq trained' /\ trained' \subseteq Dates /\ runRoot' \in Maybe
  BY <1>1, <1>4 DEF FlowInd, FlowTypesOK
<1>7. MetaIsTrue' /\ ReportIsTrue'
  BY <1>5, <1>6, MetaKept, ReportKept DEF FlowInd, MetaIsTrue
<1>8. ModelsAreTrained'
  BY <1>1, <1>3, <1>5, <1>6 DEF FlowInd, ModelsAreTrained
<1>9. PollsItsOwn'
  BY <1>3, <1>5, <1>6 DEF FlowInd, PollsItsOwn
<1> QED BY <1>3, <1>5, <1>6, <1>7, <1>8, <1>9 DEF FlowInd, FlowTypesOK

\* The collector, the connection and the logins leave the rest alone.
LEMMA AroundSteps ==
  ASSUME FlowInd, \/ DataArrives \/ MasterExpires \/ Heartbeat
                  \/ \E g \in Logins : Relogin(g) \/ LoginStep(g) \/ LoginFails(g)
                  \/ UNCHANGED flowVars
  PROVE  FlowInd'
<1> USE FlowAssumption
<1>1. UNCHANGED <<script, report, exported, meta, warm, links, slurm, runRoot, trained>>
  BY DEF DataArrives, MasterExpires, Heartbeat, Relogin, LoginStep, LoginFails, flowVars,
         scriptVars, localVars, nibiVars, sshVars
<1>2. latest' \in Dates /\ closed' \in BOOLEAN
  <2>1. CASE DataArrives
    <3>1. latest \in Dates /\ closed \in BOOLEAN
      BY DEF FlowInd, FlowTypesOK
    <3>2. CASE closed
      BY <2>1, <3>1, <3>2 DEF DataArrives, Dates
    <3>3. CASE ~closed
      BY <2>1, <3>1, <3>3 DEF DataArrives
    <3> QED BY <3>2, <3>3
  <2>2. CASE UNCHANGED <<latest, closed>>
    BY <2>2 DEF FlowInd, FlowTypesOK
  <2> QED BY <2>1, <2>2 DEF MasterExpires, Heartbeat, Relogin, LoginStep, LoginFails, flowVars
<1>3. master' \in BOOLEAN /\ heartbeat' \in BOOLEAN
      /\ login' \in [Logins -> {"off", "check", "password", "mfa", "eof"}]
  <2> USE DEF FlowInd, FlowTypesOK
  <2>1. CASE DataArrives \/ MasterExpires \/ Heartbeat \/ UNCHANGED flowVars
    BY <2>1 DEF DataArrives, MasterExpires, Heartbeat, flowVars, sshVars
  <2>2. ASSUME NEW g \in Logins, Relogin(g) \/ LoginFails(g)
        PROVE  /\ master' \in BOOLEAN /\ heartbeat' \in BOOLEAN
               /\ login' \in [Logins -> {"off", "check", "password", "mfa", "eof"}]
    BY <2>2 DEF Relogin, LoginFails
  <2>3. ASSUME NEW g \in Logins, LoginStep(g)
        PROVE  /\ master' \in BOOLEAN /\ heartbeat' \in BOOLEAN
               /\ login' \in [Logins -> {"off", "check", "password", "mfa", "eof"}]
    BY <2>3 DEF LoginStep, NextPrompt
  <2> QED BY <2>1, <2>2, <2>3
<1> QED BY <1>1, <1>2, <1>3 DEF FlowInd, FlowTypesOK, MetaIsTrue, ReportIsTrue,
                                PollsItsOwn, ModelsAreTrained

LEMMA FlowStep == FlowInd /\ [FlowNext]_flowVars => FlowInd'
  BY LaunchStep, BeginStep, DieStep, EasySteps, ValidateStep, SubmitSteps, RemoteSteps,
     JobStepKeeps, AroundSteps DEF FlowNext, Script

\* For any dates, jobs and logins, wherever the script dies and whatever of
\* an earlier run still trains: a snapshot that the dashboard shows as
\* completed reaches the close of its date, and a completed training is one
\* that some job did for that date.
THEOREM ShownIsAlwaysDone == FlowSpec => []ShownIsDone
<1> QED BY FlowInitially, FlowStep, FlowShows, PTL DEF FlowSpec

-----------------------------------------------------------------------------
(* The archive's files, their loaders, and the vendor's files.              *)

\* Of a file with these rows nothing is missing below its last row but what
\* is in miss.
HolesIn(rows, miss) == \A q \in rows : \A r \in FileRows :
                         r < q /\ r \notin rows => r \in miss

\* What the fetch is about to write, or writes, has no other holes than those
\* already put down as lost.
WritesWell == /\ fetcher.stage = "open" =>
                   HolesIn(archive[fetcher.share].rows \cup fetcher.answer,
                           lost[fetcher.share])
              /\ fetcher.stage = "write" => HolesIn(fetcher.answer, lost[fetcher.share])
              /\ fetcher.stage \in {"open", "write"} => fetcher.share \in Shares

\* What a load holds of the files it is through with, if none has changed.
LoadsWell ==
  /\ upload.stage = "final" =>
       /\ upload.into = "final" /\ upload.todo \subseteq upload.listed
       /\ \A t \in Shares \ upload.listed : upload.held[t] = {}
       /\ ~raced => \A t \in upload.listed \ upload.todo :
                      IsValid(t) /\ upload.held[t] = archive[t].rows
  /\ upload.stage = "staging" =>
       /\ upload.into = "staging"
       /\ ~raced /\ ~upload.failed => \A t \in upload.listed \ upload.todo :
            archive[t].rows \ archive[t].broken \subseteq stored["staging"][t]

\* The shares that a landing has seen are as it has counted them.
LandsWell ==
  /\ coverage.by <= lander.number
  /\ \A t \in Shares : landing[t].by <= lander.number
  /\ lander.stage # "idle" => coverage.by < lander.number
  /\ lander.stage # "idle" => \A t \in lander.seen :
       /\ t \notin lander.todo
       /\ landing[t] = [by |-> lander.number, whole |-> TRUE, rows |-> lander.stats[t]]
  /\ lander.stage = "write" => lander.share \in lander.todo

FilesInd == FilesTypeOK /\ HolesHaveCause /\ WritesWell /\ LoadIsWhole /\ LoadsWell

LandInd == LandingTypeOK /\ LandsWell /\ ReportTellsLanding

LEMMA FilesInitially == FilesInit => FilesInd
<1> SUFFICES ASSUME FilesInit PROVE FilesInd
  OBVIOUS
<1> USE ArchiveAssumption DEF FilesInit
<1>1. FilesTypeOK
  <2>1. fetcher \in Fetchers
    BY DEF Fetchers, FetcherOff
  <2>2. NoRows \in RowSets
    BY DEF NoRows, RowSets
  <2>3. upload \in Loaders
    BY <2>2 DEF Loaders, LoaderOff
  <2>4. archive \in [Shares -> Files]
    BY DEF Files, FileStates
  <2>5. vendor \in 0 .. ArchiveDays * DayRows
    <3>1. ArchiveDays * DayRows \in Nat
      OBVIOUS
    <3> QED BY <3>1
  <2> QED BY <2>1, <2>2, <2>3, <2>4, <2>5 DEF FilesTypeOK
<1>2. HolesHaveCause /\ WritesWell
  BY DEF HolesHaveCause, WritesWell, FetcherOff
<1>3. LoadIsWhole /\ LoadsWell
  BY DEF LoadIsWhole, LoadsWell, LoaderOff
<1> QED BY <1>1, <1>2, <1>3 DEF FilesInd

LEMMA LandingInitially == LandingInit => LandInd
<1> SUFFICES ASSUME LandingInit PROVE LandInd
  OBVIOUS
<1> USE DEF LandingInit, LanderOff
<1>1. NoRows \in RowSets
  BY DEF NoRows, RowSets
<1>2. LandingTypeOK
  <2>1. lander \in Landers
    BY <1>1 DEF Landers
  <2> QED BY <1>1, <2>1 DEF LandingTypeOK, Landings, Reports
<1>3. LandsWell /\ ReportTellsLanding
  BY DEF LandsWell, ReportTellsLanding
<1> QED BY <1>2, <1>3 DEF LandInd

\* The days of rows are in the order of the rows.
LEMMA RowDaysInOrder == ASSUME NEW q \in FileRows, NEW r \in FileRows, q <= r
                        PROVE  RowDay(q) <= RowDay(r) /\ RowDay(q) \in FileDays
<1> USE ArchiveAssumption DEF FileRows
<1> DEFINE x == q + DayRows - 1
           y == r + DayRows - 1
<1>1. x \in Nat /\ y \in Nat /\ x <= y /\ DayRows <= x
  OBVIOUS
<1>2. x \div DayRows <= y \div DayRows /\ x \div DayRows \in Nat
  <2> HIDE DEF x, y
  <2> QED BY <1>1
<1>3. x \div DayRows >= 1
  <2> HIDE DEF x, y
  <2> QED BY <1>1
<1>4. x \div DayRows <= ArchiveDays
  <2>1. x < (ArchiveDays + 1) * DayRows
    <3>1. q <= ArchiveDays * DayRows
      OBVIOUS
    <3>2. (ArchiveDays + 1) * DayRows = ArchiveDays * DayRows + DayRows
      OBVIOUS
    <3>3. ArchiveDays * DayRows \in Nat
      OBVIOUS
    <3> QED BY <3>1, <3>2, <3>3
  <2> HIDE DEF x
  <2>2. x \div DayRows < ArchiveDays + 1
    BY <1>1, <2>1
  <2> QED BY <1>2, <2>2
<1> QED BY <1>2, <1>3, <1>4 DEF RowDay, FileDays

\* A file's rows have a last one.
LEMMA LastRowOf == ASSUME NEW rows, rows \subseteq FileRows, rows # {}
                   PROVE  \E last \in rows : \A p \in rows : p <= last
<1>1. rows \subseteq Nat /\ \A r \in rows : r <= ArchiveDays * DayRows
  BY DEF FileRows
<1>2. ArchiveDays * DayRows \in Nat
  BY ArchiveAssumption
<1>3. Max(rows) \in rows /\ \A p \in rows : Max(rows) >= p
  BY <1>1, <1>2, MaxIsLargest
<1>4. Max(rows) \in Nat /\ \A p \in rows : p \in Nat
  BY <1>1, <1>3
<1> QED BY <1>3, <1>4

\* An answer leaves no holes but what failed, what is missing already, and
\* the rest of the last day.
LEMMA AnswerLeaves ==
  ASSUME FilesTypeOK, NEW t \in Shares, NEW failed,
         NEW miss, HolesIn(archive[t].rows, miss), RestOfDay(t) \subseteq miss,
         {r \in FileRows : /\ RowDay(r) \in MissingDays(t)
                           /\ Request(MissingDays(t), RowDay(r)) \in failed} \subseteq miss
  PROVE  HolesIn(archive[t].rows \cup Answer(MissingDays(t), failed), miss)
<1> DEFINE rows == archive[t].rows
           answer == Answer(MissingDays(t), failed)
<1>1. rows \subseteq FileRows
  BY DEF FilesTypeOK, Files
<1> SUFFICES ASSUME NEW q \in rows \cup answer, NEW r \in FileRows,
                    r < q, r \notin rows, r \notin answer
             PROVE  r \in miss
  BY DEF HolesIn
<1>2. FileRows \subseteq Nat /\ vendor \in Nat
  BY ArchiveAssumption DEF FilesTypeOK, FileRows
<1>3. CASE q \in rows
  BY <1>3 DEF HolesIn
<1>4. CASE q \in answer
  <2>1. r <= vendor
    <3>1. q \in FileRows /\ q <= vendor
      BY <1>4 DEF Answer
    <3> QED BY <1>2, <3>1
  <2>2. CASE RowDay(r) \in MissingDays(t)
    BY <2>1, <2>2 DEF Answer
  <2>3. CASE RowDay(r) \notin MissingDays(t)
    <3>1. RowDay(r) \in FileDays
      BY RowDaysInOrder, <1>2
    <3>2. PICK p \in rows : ~ (RowDay(p) < RowDay(r))
      BY <2>3, <3>1 DEF MissingDays
    <3>3. PICK last \in rows : \A x \in rows : x <= last
      BY <1>1, <3>2, LastRowOf
    <3>4. CASE r < last
      BY <3>4 DEF HolesIn
    <3>5. CASE last < r
      <4>1. last \in FileRows /\ p \in FileRows /\ p <= last
        BY <1>1, <3>2, <3>3
      <4>2. last \in FileRows /\ p \in FileRows /\ p <= last /\ last <= r /\ r <= r
        <5>1. last \in Nat /\ r \in Nat
          BY <1>2, <4>1
        <5> QED BY <3>5, <4>1, <5>1
      <4>3. RowDay(p) <= RowDay(last) /\ RowDay(last) <= RowDay(r)
        BY <4>2, RowDaysInOrder
      <4>4. RowDay(p) \in Int /\ RowDay(last) \in Int /\ RowDay(r) \in Int
        BY <4>2, RowDaysInOrder, ArchiveAssumption DEF FileDays
      <4>5. RowDay(last) = RowDay(r)
        BY <3>2, <4>3, <4>4
      <4>6. r \in RestOfDay(t)
        BY <3>3, <3>5, <4>5 DEF RestOfDay
      <4> QED BY <4>6
    <3>6. last \in Nat /\ r \in Nat /\ last # r
      BY <1>1, <1>2, <3>3
    <3> QED BY <3>4, <3>5, <3>6
  <2> QED BY <2>2, <2>3
<1> QED BY <1>3, <1>4

\* Where neither files nor what is lost of them change, nor the fetch.
LEMMA FetchKept ==
  ASSUME FilesInd, UNCHANGED fetchVars
  PROVE  HolesHaveCause' /\ WritesWell' /\ (fetcher \in Fetchers)'
BY DEF FilesInd, FilesTypeOK, fetchVars, HolesHaveCause, WritesWell, HolesIn

\* Where files, tables and loads do not change, or some file was written.
LEMMA LoadKept ==
  ASSUME FilesInd, UNCHANGED loadVars, \/ raced'
                                       \/ UNCHANGED <<archive, raced>>
  PROVE  LoadIsWhole' /\ LoadsWell'
BY DEF FilesInd, loadVars, LoadIsWhole, LoadsWell, IsValid

LEMMA FetchSteps ==
  ASSUME FilesInd, NEW t \in Shares, NEW failed, FetchShare(t, failed)
  PROVE  FilesInd'
<1> DEFINE days == MissingDays(t)
           answer == Answer(days, failed)
           more == {r \in FileRows : RowDay(r) \in days /\ Request(days, RowDay(r)) \in failed}
<1>1. /\ lost' = [lost EXCEPT ![t] = @ \cup RestOfDay(t) \cup more]
      /\ fetcher' = IF answer = {} THEN NextShare(t)
                    ELSE [fetcher EXCEPT !.stage = "open", !.share = t, !.answer = answer]
      /\ UNCHANGED <<vendor, archive, raced, loadVars, starts>>
  BY DEF FetchShare
<1>2. answer \subseteq FileRows /\ RestOfDay(t) \subseteq FileRows /\ more \subseteq FileRows
  BY DEF Answer, RestOfDay
<1>3. lost \in RowSets /\ fetcher \in Fetchers
  BY DEF FilesInd, FilesTypeOK
<1>4. lost' \in RowSets /\ \A s \in Shares : lost[s] \subseteq lost'[s]
  <2> HIDE DEF more
  <2> QED BY <1>1, <1>2, <1>3 DEF RowSets
<1>5. lost'[t] = lost[t] \cup RestOfDay(t) \cup more
  <2> HIDE DEF more
  <2> QED BY <1>1, <1>3 DEF RowSets
<1>6. fetcher' \in Fetchers
  <2>1. CASE fetcher' = NextShare(t)
    BY <1>3, <2>1 DEF NextShare, FetcherOff, Fetchers
  <2>2. CASE fetcher' = [fetcher EXCEPT !.stage = "open", !.share = t, !.answer = answer]
    <3> HIDE DEF answer
    <3> QED BY <1>2, <1>3, <2>2 DEF Fetchers
  <2> QED BY <1>1, <2>1, <2>2
<1>7. FilesTypeOK'
  BY <1>1, <1>4, <1>6 DEF FilesInd, FilesTypeOK, loadVars
<1>8. HolesHaveCause'
  BY <1>1, <1>4 DEF FilesInd, HolesHaveCause
<1>9. WritesWell'
  <2>1. CASE fetcher' = NextShare(t)
    BY <2>1 DEF WritesWell, NextShare, FetcherOff
  <2>2. CASE fetcher' = [fetcher EXCEPT !.stage = "open", !.share = t, !.answer = answer]
    <3>1. fetcher'.stage = "open" /\ fetcher'.share = t /\ fetcher'.answer = answer
      BY <1>3, <2>2 DEF Fetchers
    <3>2. HolesIn(archive[t].rows, lost'[t])
      BY <1>1, <1>8 DEF HolesHaveCause, HolesIn
    <3>3. HolesIn(archive[t].rows \cup answer, lost'[t])
      BY <1>5, <3>2, AnswerLeaves DEF FilesInd
    <3> HIDE DEF answer
    <3> QED BY <1>1, <3>1, <3>3 DEF WritesWell, HolesIn
  <2> QED BY <1>1, <2>1, <2>2
<1>10. LoadIsWhole' /\ LoadsWell'
  BY <1>1, LoadKept
<1> QED BY <1>7, <1>8, <1>9, <1>10 DEF FilesInd

LEMMA OpenStep ==
  ASSUME FilesInd, NEW t \in Shares, NEW last \in FileRows, NEW state \in FileStates,
         NEW cut \in BOOLEAN, OpenFile(t, last, state, cut)
  PROVE  FilesInd'
<1> DEFINE rows == IF state = "bare" THEN {} ELSE {r \in Merged(t) : r <= last}
           broken == {r \in rows : r \in archive[t].broken \/ (cut /\ r = last)}
           all == Merged(t)
<1>1. /\ archive' = [archive EXCEPT ![t] = [state |-> state, rows |-> rows, broken |-> broken]]
      /\ fetcher' = [fetcher EXCEPT !.stage = "write", !.answer = all,
                                    !.broken = archive[t].broken]
      /\ fetcher.stage = "open" /\ fetcher.share = t /\ raced' = TRUE
      /\ UNCHANGED <<vendor, lost, loadVars, starts>>
  BY DEF OpenFile, FilesInd, FilesTypeOK
<1>2. archive \in [Shares -> Files] /\ fetcher \in Fetchers
  BY DEF FilesInd, FilesTypeOK
<1>3. all \subseteq FileRows /\ rows \subseteq all /\ broken \subseteq FileRows
  BY <1>2 DEF Merged, Files, Fetchers
<1>4. HolesIn(all, lost[t])
  BY <1>1 DEF FilesInd, WritesWell, Merged
<1>5. HolesIn(rows, lost[t])
  BY <1>3, <1>4 DEF HolesIn, FileRows
<1> HIDE DEF rows, broken, all
<1>6. archive' \in [Shares -> Files] /\ archive'[t].rows = rows
      /\ \A s \in Shares \ {t} : archive'[s] = archive[s]
  BY <1>1, <1>2, <1>3 DEF Files
<1>7. /\ fetcher' \in Fetchers /\ fetcher'.stage = "write" /\ fetcher'.answer = all
      /\ fetcher'.share = t
  BY <1>1, <1>2, <1>3 DEF Fetchers, Files
<1>8. FilesTypeOK'
  BY <1>1, <1>6, <1>7 DEF FilesInd, FilesTypeOK, loadVars
<1>9. HolesHaveCause' /\ WritesWell'
  BY <1>1, <1>4, <1>5, <1>6, <1>7 DEF FilesInd, HolesHaveCause, WritesWell, HolesIn
<1>10. LoadIsWhole' /\ LoadsWell'
  BY <1>1, LoadKept
<1> QED BY <1>8, <1>9, <1>10 DEF FilesInd

LEMMA WriteStep ==
  ASSUME FilesInd, NEW t \in Shares, WriteFile(t)
  PROVE  FilesInd'
<1>1. /\ archive' = [archive EXCEPT ![t] = [state |-> "whole", rows |-> fetcher.answer,
                                            broken |-> fetcher.broken]]
      /\ fetcher' = NextShare(t)
      /\ fetcher.stage = "write" /\ fetcher.share = t /\ raced' = TRUE
      /\ UNCHANGED <<vendor, lost, loadVars, starts>>
  BY DEF WriteFile
<1>2. archive \in [Shares -> Files] /\ fetcher \in Fetchers
  BY DEF FilesInd, FilesTypeOK
<1>3. /\ archive' \in [Shares -> Files] /\ archive'[t].rows = fetcher.answer
      /\ \A s \in Shares \ {t} : archive'[s] = archive[s]
  BY <1>1, <1>2 DEF Files, Fetchers, FileStates
<1>4. fetcher' \in Fetchers /\ fetcher'.stage = "look"
  BY <1>1, <1>2 DEF Fetchers, NextShare, FetcherOff
<1>5. FilesTypeOK'
  BY <1>1, <1>3, <1>4 DEF FilesInd, FilesTypeOK, loadVars
<1>6. HolesHaveCause' /\ WritesWell'
  BY <1>1, <1>3, <1>4 DEF FilesInd, HolesHaveCause, WritesWell, HolesIn
<1>7. LoadIsWhole' /\ LoadsWell'
  BY <1>1, LoadKept
<1> QED BY <1>5, <1>6, <1>7 DEF FilesInd

\* The fetch begins, passes a share over, or ends.
LEMMA FetchRests ==
  ASSUME FilesInd, \/ \E some \in SUBSET Shares : BeginFetch(some)
                   \/ \E t \in Shares : PassOver(t)
                   \/ FetchEnds
  PROVE  FilesInd'
<1>1. /\ UNCHANGED <<vendor, archive, lost, raced, loadVars>> /\ starts' \in Nat
      /\ fetcher' \in Fetchers /\ fetcher'.stage \in {"idle", "look"}
  <2>1. fetcher \in Fetchers /\ starts \in Nat /\ NoShare \notin Shares
    BY ArchiveAssumption DEF FilesInd, FilesTypeOK
  <2>2. ASSUME NEW some \in SUBSET Shares, BeginFetch(some)
        PROVE  /\ UNCHANGED <<vendor, archive, lost, raced, loadVars>> /\ starts' \in Nat
               /\ fetcher' \in Fetchers /\ fetcher'.stage \in {"idle", "look"}
    <3>1. fetcher' = [stage |-> "look", todo |-> some, share |-> NoShare,
                      answer |-> {}, broken |-> {}]
      BY <2>2 DEF BeginFetch, FetcherOff
    <3>2. fetcher' \in Fetchers /\ fetcher'.stage = "look"
      BY <2>2, <3>1 DEF Fetchers
    <3>3. Starts
      BY <2>2 DEF BeginFetch
    <3>4. starts' \in Nat
      BY <2>1, <3>3 DEF Starts
    <3> QED BY <2>2, <3>2, <3>4 DEF BeginFetch
  <2>3. ASSUME NEW t \in Shares, PassOver(t)
        PROVE  /\ UNCHANGED <<vendor, archive, lost, raced, loadVars>> /\ starts' \in Nat
               /\ fetcher' \in Fetchers /\ fetcher'.stage \in {"idle", "look"}
    BY <2>1, <2>3 DEF PassOver, NextShare, FetcherOff, Fetchers
  <2>4. CASE FetchEnds
    BY <2>1, <2>4 DEF FetchEnds, FetcherOff, Fetchers
  <2> QED BY <2>2, <2>3, <2>4
<1>2. FilesTypeOK'
  BY <1>1 DEF FilesInd, FilesTypeOK, loadVars
<1>3. HolesHaveCause' /\ WritesWell'
  BY <1>1 DEF FilesInd, HolesHaveCause, WritesWell
<1>4. LoadIsWhole' /\ LoadsWell'
  BY <1>1, LoadKept
<1> QED BY <1>2, <1>3, <1>4 DEF FilesInd

LEMMA LoaderOffIs == LoaderOff \in Loaders /\ LoaderOff.stage = "off" /\ NoRows \in RowSets
BY DEF LoaderOff, Loaders, NoRows, RowSets

LEMMA BeginLoadStep ==
  ASSUME FilesInd, NEW into \in {"final", "staging"}, NEW flag \in BOOLEAN,
         NEW chosen \in SUBSET Shares, BeginLoad(into, flag, chosen)
  PROVE  FilesInd'
<1>1. /\ upload' = [stage |-> into, into |-> into, flag |-> flag, todo |-> chosen,
                    listed |-> chosen, held |-> NoRows, failed |-> FALSE]
      /\ raced' = FALSE /\ starts' \in Nat
      /\ UNCHANGED <<vendor, archive, fetcher, lost, stored>>
  BY DEF BeginLoad, Starts, FilesInd, FilesTypeOK
<1>2. upload' \in Loaders
  BY <1>1, LoaderOffIs DEF Loaders
<1>3. FilesTypeOK'
  BY <1>1, <1>2 DEF FilesInd, FilesTypeOK
<1>4. HolesHaveCause' /\ WritesWell'
  BY <1>1 DEF FilesInd, HolesHaveCause, WritesWell
<1>5. LoadIsWhole' /\ LoadsWell'
  BY <1>1 DEF LoadIsWhole, LoadsWell, NoRows
<1> QED BY <1>3, <1>4, <1>5 DEF FilesInd

LEMMA LoadFileStep ==
  ASSUME FilesInd, NEW t \in Shares, LoadFile(t)
  PROVE  FilesInd'
<1>1. UNCHANGED <<vendor, fetchVars, stored, starts>> /\ upload \in Loaders
      /\ archive \in [Shares -> Files] /\ upload.stage = "final" /\ t \in upload.todo
  BY DEF LoadFile, FilesInd, FilesTypeOK
<1>2. CASE IsValid(t)
  <2>1. upload' = [upload EXCEPT !.todo = @ \ {t}, !.held[t] = archive[t].rows]
    BY <1>2 DEF LoadFile
  <2>2. /\ upload' \in Loaders /\ upload'.stage = "final" /\ upload'.into = upload.into
        /\ upload'.todo = upload.todo \ {t} /\ upload'.listed = upload.listed
        /\ upload'.held[t] = archive[t].rows
        /\ \A s \in Shares \ {t} : upload'.held[s] = upload.held[s]
    BY <1>1, <2>1 DEF Loaders, RowSets, Files
  <2>3. FilesTypeOK'
    BY <1>1, <2>2 DEF FilesInd, FilesTypeOK, fetchVars
  <2>4. LoadIsWhole'
    BY <2>2 DEF LoadIsWhole
  <2>5. LoadsWell'
    BY <1>1, <1>2, <2>2 DEF FilesInd, LoadsWell, IsValid, fetchVars, Loaders
  <2> QED BY <1>1, <2>3, <2>4, <2>5, FetchKept DEF FilesInd
<1>3. CASE ~IsValid(t)
  <2>1. upload' = LoaderOff
    BY <1>3 DEF LoadFile
  <2>2. FilesTypeOK' /\ LoadIsWhole' /\ LoadsWell'
    BY <1>1, <2>1, LoaderOffIs DEF FilesInd, FilesTypeOK, LoadIsWhole, LoadsWell, fetchVars
  <2> QED BY <1>1, <2>2, FetchKept DEF FilesInd
<1> QED BY <1>2, <1>3

LEMMA CommitStep ==
  ASSUME FilesInd, CommitLoad
  PROVE  FilesInd'
<1> DEFINE table == [t \in Shares |->
             upload.held[t] \cup IF upload.flag THEN {} ELSE stored["final"][t]]
<1>1. /\ stored' = [stored EXCEPT !["final"] = table]
      /\ upload' = [upload EXCEPT !.stage = "done", !.held = NoRows]
      /\ upload.stage = "final" /\ upload.todo = {}
      /\ UNCHANGED <<vendor, fetchVars, starts>>
      /\ stored \in [{"final", "staging"} -> RowSets] /\ upload \in Loaders
  BY DEF CommitLoad, FilesInd, FilesTypeOK
<1>2. table \in RowSets
  BY <1>1 DEF RowSets, Loaders
<1>3. stored' \in [{"final", "staging"} -> RowSets] /\ stored'["final"] = table
  <2> HIDE DEF table
  <2> QED BY <1>1, <1>2
<1>4. /\ upload' \in Loaders /\ upload'.stage = "done" /\ upload'.into = upload.into
      /\ upload'.flag = upload.flag /\ upload'.listed = upload.listed
  BY <1>1, LoaderOffIs DEF Loaders
<1>5. FilesTypeOK'
  BY <1>1, <1>3, <1>4 DEF FilesInd, FilesTypeOK, fetchVars
<1>6. LoadsWell'
  BY <1>4 DEF LoadsWell
<1>7. LoadIsWhole'
  <2> SUFFICES ASSUME ~raced
               PROVE  /\ \A t \in upload.listed : IsValid(t) /\ archive[t].rows \subseteq table[t]
                      /\ upload.flag => \A t \in Shares :
                           table[t] = IF t \in upload.listed THEN archive[t].rows ELSE {}
    <3>1. upload'.into = "final" /\ stored'[upload'.into] = table
      BY <1>1, <1>3, <1>4 DEF FilesInd, LoadsWell
    <3>2. /\ upload'.listed = upload.listed /\ upload'.flag = upload.flag
          /\ archive' = archive /\ raced' = raced
      BY <1>1, <1>4 DEF fetchVars
    <3>3. \A t : IsValid(t)' <=> IsValid(t)
      BY <3>2 DEF IsValid
    <3> HIDE DEF table
    <3> QED BY <3>1, <3>2, <3>3 DEF LoadIsWhole
  <2>1. \A t \in upload.listed : IsValid(t) /\ upload.held[t] = archive[t].rows
    BY <1>1 DEF FilesInd, LoadsWell
  <2>2. \A t \in Shares \ upload.listed : upload.held[t] = {}
    BY <1>1 DEF FilesInd, LoadsWell
  <2>3. upload.listed \subseteq Shares
    BY <1>1 DEF Loaders
  <2> QED BY <2>1, <2>2, <2>3
<1> QED BY <1>1, <1>5, <1>6, <1>7, FetchKept DEF FilesInd

LEMMA StageFileStep ==
  ASSUME FilesInd, NEW t \in Shares, StageFile(t)
  PROVE  FilesInd'
<1> DEFINE fails == archive[t].state = "bare" \/ ~(upload.flag \/ IsValid(t))
<1>1. /\ UNCHANGED <<vendor, fetchVars, starts>>
      /\ upload \in Loaders /\ archive \in [Shares -> Files] /\ fails \in BOOLEAN
      /\ stored \in [{"final", "staging"} -> RowSets]
      /\ upload.stage = "staging" /\ t \in upload.todo
      /\ stored' = IF fails THEN stored
                   ELSE [stored EXCEPT !["staging"][t] =
                           @ \cup (archive[t].rows \ archive[t].broken)]
      /\ upload' = IF fails /\ ~upload.flag THEN LoaderOff
                   ELSE [upload EXCEPT !.todo = @ \ {t}, !.failed = @ \/ fails]
  BY DEF StageFile, FilesInd, FilesTypeOK
<1> HIDE DEF fails
<1>2. /\ stored' \in [{"final", "staging"} -> RowSets]
      /\ \A s \in Shares : stored["staging"][s] \subseteq stored'["staging"][s]
      /\ ~fails => archive[t].rows \ archive[t].broken \subseteq stored'["staging"][t]
  <2>1. CASE fails
    BY <1>1, <2>1
  <2>2. CASE ~fails
    <3> DEFINE new == archive[t].rows \ archive[t].broken
               table == [stored["staging"] EXCEPT ![t] = @ \cup new]
    <3>1. new \subseteq FileRows
      BY <1>1 DEF Files
    <3>2. stored' = [stored EXCEPT !["staging"] = table]
      BY <1>1, <2>2
    <3>3. stored["staging"] \in RowSets
      BY <1>1
    <3>4. table \in RowSets /\ new \subseteq table[t]
          /\ \A s \in Shares : stored["staging"][s] \subseteq table[s]
      <4> HIDE DEF new
      <4> QED BY <3>1, <3>3 DEF RowSets
    <3>5. stored' \in [{"final", "staging"} -> RowSets] /\ stored'["staging"] = table
      <4> HIDE DEF table
      <4> QED BY <1>1, <3>2, <3>4
    <3> QED BY <3>4, <3>5
  <2> QED BY <2>1, <2>2
<1>3. CASE upload' = LoaderOff
  <2>1. FilesTypeOK' /\ LoadIsWhole' /\ LoadsWell'
    BY <1>1, <1>2, <1>3, LoaderOffIs
       DEF FilesInd, FilesTypeOK, LoadIsWhole, LoadsWell, fetchVars
  <2> QED BY <1>1, <2>1, FetchKept DEF FilesInd
<1>4. CASE upload' = [upload EXCEPT !.todo = @ \ {t}, !.failed = @ \/ fails]
  <2>1. /\ upload' \in Loaders /\ upload'.stage = "staging" /\ upload'.into = upload.into
        /\ upload'.todo = upload.todo \ {t} /\ upload'.listed = upload.listed
        /\ upload'.failed = (upload.failed \/ fails)
    BY <1>1, <1>4 DEF Loaders
  <2>2. FilesTypeOK'
    BY <1>1, <1>2, <2>1 DEF FilesInd, FilesTypeOK, fetchVars
  <2>3. LoadIsWhole'
    BY <2>1 DEF LoadIsWhole
  <2>4. LoadsWell'
    BY <1>1, <1>2, <2>1 DEF FilesInd, LoadsWell, fetchVars, Loaders
  <2> QED BY <1>1, <2>2, <2>3, <2>4, FetchKept DEF FilesInd
<1> QED BY <1>1, <1>3, <1>4

LEMMA EndLoads ==
  ASSUME FilesInd, EndStaging \/ LoaderDies
  PROVE  FilesInd'
<1>1. UNCHANGED <<vendor, fetchVars, stored, starts>> /\ upload \in Loaders
  BY DEF EndStaging, LoaderDies, FilesInd, FilesTypeOK
<1>2. CASE upload' = LoaderOff
  <2>1. FilesTypeOK' /\ LoadIsWhole' /\ LoadsWell'
    BY <1>1, <1>2, LoaderOffIs
       DEF FilesInd, FilesTypeOK, LoadIsWhole, LoadsWell, fetchVars
  <2> QED BY <1>1, <2>1, FetchKept DEF FilesInd
<1>3. CASE EndStaging /\ ~upload.failed
  <2>1. /\ upload' \in Loaders /\ upload'.stage = "done" /\ upload'.into = upload.into
        /\ upload'.listed = upload.listed
        /\ upload.stage = "staging" /\ upload.todo = {}
    BY <1>1, <1>3 DEF EndStaging, Loaders
  <2>2. FilesTypeOK' /\ LoadsWell'
    BY <1>1, <2>1 DEF FilesInd, FilesTypeOK, LoadsWell, fetchVars
  <2>3. LoadIsWhole'
    BY <1>1, <1>3, <2>1 DEF FilesInd, LoadIsWhole, LoadsWell, fetchVars
  <2> QED BY <1>1, <2>2, <2>3, FetchKept DEF FilesInd
<1> QED BY <1>2, <1>3 DEF EndStaging, LoaderDies

LEMMA FilesStep == FilesInd /\ [FilesNext]_filesVars => FilesInd'
<1> SUFFICES ASSUME FilesInd, [FilesNext]_filesVars PROVE FilesInd'
  OBVIOUS
<1>1. CASE VendorGrows \/ UNCHANGED filesVars
  <2>1. UNCHANGED <<fetchVars, loadVars, starts>> /\ vendor' \in 0 .. ArchiveDays * DayRows
    <3>1. ArchiveDays * DayRows \in Nat
      BY ArchiveAssumption
    <3>2. CASE VendorGrows
      BY <3>1, <3>2 DEF VendorGrows, FilesInd, FilesTypeOK
    <3>3. CASE UNCHANGED filesVars
      BY <3>3 DEF filesVars, fetchVars, loadVars, FilesInd, FilesTypeOK
    <3> QED BY <1>1, <3>2, <3>3
  <2>2. FilesTypeOK'
    BY <2>1 DEF FilesInd, FilesTypeOK, fetchVars, loadVars
  <2> QED BY <2>1, <2>2, FetchKept, LoadKept DEF FilesInd, fetchVars
<1>2. CASE FetcherStep
  BY <1>2, FetchSteps, OpenStep, WriteStep, FetchRests DEF FetcherStep
<1>3. CASE LoaderStep
  BY <1>3, BeginLoadStep, LoadFileStep, CommitStep, StageFileStep, EndLoads DEF LoaderStep
<1> QED BY <1>1, <1>2, <1>3 DEF FilesNext

LEMMA LandStep ==
  ASSUME LandInd, FilesTypeOK, LanderStep
  PROVE  LandInd'
<1> USE DEF LandInd, LandingTypeOK
<1>1. ASSUME NEW some \in SUBSET Shares, NEW first \in FileDays, NEW last \in FileDays,
             BeginLanding(some, first .. last)
      PROVE  LandInd'
  <2>1. /\ UNCHANGED <<landing, coverage>> /\ lander.number \in Nat
        /\ lander'.number = lander.number + 1 /\ lander'.stage = "ask"
        /\ lander'.seen = {}
    BY <1>1 DEF BeginLanding, LanderOff, Landers
  <2>2. first .. last \subseteq FileDays
    BY ArchiveAssumption DEF FileDays
  <2>3. lander' \in Landers
    <3>1. lander' = [stage |-> "ask", number |-> lander.number + 1, todo |-> some,
                     share |-> NoShare, days |-> first .. last, answer |-> {},
                     seen |-> {}, stats |-> NoRows]
      BY <1>1 DEF BeginLanding, LanderOff
    <3> QED BY <2>1, <2>2, <3>1, LoaderOffIs DEF Landers
  <2>4. coverage.by \in Nat /\ \A t \in Shares : landing[t].by \in Nat
    BY DEF Reports, Landings
  <2> QED BY <2>1, <2>3, <2>4 DEF LandsWell, ReportTellsLanding
<1>2. ASSUME NEW t \in Shares, NEW failed, LandShare(t, failed)
      PROVE  LandInd'
  <2> DEFINE answer == Answer(lander.days, failed)
             file == [by |-> lander.number, whole |-> FALSE, rows |-> {}]
  <2>1. /\ landing' = [landing EXCEPT ![t] = file]
        /\ lander' = [lander EXCEPT !.stage = "write", !.share = t, !.answer = answer]
        /\ lander.stage = "ask" /\ t \in lander.todo /\ coverage' = coverage
    BY <1>2 DEF LandShare
  <2>2. answer \subseteq FileRows /\ file \in Landings
    BY DEF Answer, Landings, Landers
  <2> HIDE DEF answer
  <2>3. /\ lander' \in Landers /\ lander'.number = lander.number /\ lander'.stage = "write"
        /\ lander'.todo = lander.todo /\ lander'.seen = lander.seen
        /\ lander'.stats = lander.stats /\ lander'.share = t
    BY <2>1, <2>2 DEF Landers
  <2>4. /\ landing' \in [Shares -> Landings] /\ landing'[t].by = lander.number
        /\ \A s \in Shares \ {t} : landing'[s] = landing[s]
    <3>1. file.by = lander.number
      OBVIOUS
    <3> HIDE DEF file
    <3> QED BY <2>1, <2>2, <3>1
  <2>5. /\ coverage.by < lander.number /\ lander.number \in Nat /\ coverage.by \in Nat
        /\ t \notin lander.seen /\ lander.seen \subseteq Shares
        /\ coverage.seen \subseteq Shares
    BY <2>1 DEF LandsWell, Landers, Reports
  <2>6. LandsWell'
    BY <2>1, <2>3, <2>4, <2>5 DEF LandsWell
  <2>7. ReportTellsLanding'
    BY <2>1, <2>4, <2>5 DEF ReportTellsLanding
  <2> QED BY <2>1, <2>3, <2>4, <2>6, <2>7
<1>3. ASSUME NEW t \in Shares, WriteLanding(t)
      PROVE  LandInd'
  <2> DEFINE file == [by |-> lander.number, whole |-> TRUE, rows |-> lander.answer]
  <2>1. /\ landing' = [landing EXCEPT ![t] = file]
        /\ lander' = [lander EXCEPT !.stage = "ask", !.todo = @ \ {t}, !.share = NoShare,
                                    !.seen = @ \cup {t}, !.stats[t] = lander.answer,
                                    !.answer = {}]
        /\ lander.stage = "write" /\ lander.share = t /\ coverage' = coverage
    BY <1>3 DEF WriteLanding
  <2>2. file \in Landings
    BY DEF Landings, Landers
  <2>3. /\ lander' \in Landers /\ lander'.number = lander.number /\ lander'.stage = "ask"
        /\ lander'.todo = lander.todo \ {t} /\ lander'.seen = lander.seen \cup {t}
        /\ lander'.stats[t] = lander.answer
        /\ \A s \in Shares \ {t} : lander'.stats[s] = lander.stats[s]
    BY <2>1 DEF Landers, RowSets
  <2>4. /\ landing' \in [Shares -> Landings] /\ landing'[t] = file
        /\ \A s \in Shares \ {t} : landing'[s] = landing[s]
    <3> HIDE DEF file
    <3> QED BY <2>1, <2>2
  <2>5. /\ coverage.by < lander.number /\ lander.number \in Nat /\ coverage.by \in Nat
        /\ lander.seen \subseteq Shares /\ coverage.seen \subseteq Shares
    BY <2>1 DEF LandsWell, Landers, Reports
  <2>6. LandsWell'
    <3>1. \A s \in lander.seen \cup {t} :
            /\ s \notin lander'.todo
            /\ landing'[s] = [by |-> lander.number, whole |-> TRUE, rows |-> lander'.stats[s]]
      <4>1. CASE t \in lander.seen
        BY <2>1, <4>1 DEF LandsWell
      <4>2. CASE t \notin lander.seen
        <5>1. t \notin lander'.todo
              /\ landing'[t] = [by |-> lander.number, whole |-> TRUE, rows |-> lander'.stats[t]]
          BY <2>3, <2>4
        <5>2. \A s \in lander.seen : s \in Shares \ {t}
          BY <2>5, <4>2
        <5>3. \A s \in lander.seen :
                /\ s \notin lander.todo
                /\ landing[s] = [by |-> lander.number, whole |-> TRUE, rows |-> lander.stats[s]]
          BY <2>1 DEF LandsWell
        <5> QED BY <2>3, <2>4, <5>1, <5>2, <5>3
      <4> QED BY <4>1, <4>2
    <3>2. \A s \in Shares : landing'[s].by <= lander.number
      BY <2>4, <2>5 DEF LandsWell
    <3> QED BY <2>1, <2>3, <2>5, <3>1, <3>2 DEF LandsWell
  <2>7. ReportTellsLanding'
    <3>1. landing'[t].by = lander.number
      BY <2>4
    <3> QED BY <2>1, <2>4, <2>5, <3>1 DEF ReportTellsLanding
  <2> QED BY <2>1, <2>3, <2>4, <2>6, <2>7
<1>4. ASSUME FetchTreasury PROVE LandInd'
  <2>1. /\ UNCHANGED <<landing, coverage>> /\ lander.stage = "ask"
        /\ lander' \in Landers /\ lander'.number = lander.number /\ lander'.stage = "report"
        /\ lander'.todo = lander.todo /\ lander'.seen = lander.seen
        /\ lander'.stats = lander.stats
    BY <1>4 DEF FetchTreasury, Landers
  <2> QED BY <2>1 DEF LandsWell, ReportTellsLanding
<1>5. ASSUME WriteReports PROVE LandInd'
  <2>1. /\ landing' = landing /\ lander' = LanderOff(lander.number)
        /\ coverage' = [by |-> lander.number, seen |-> lander.seen, stats |-> lander.stats]
        /\ lander.stage = "report"
    BY <1>5 DEF WriteReports
  <2>2. /\ lander' \in Landers /\ lander'.number = lander.number /\ lander'.stage = "idle"
        /\ coverage' \in Reports
    BY <2>1, LoaderOffIs DEF LanderOff, Landers, Reports
  <2>3. lander.number \in Nat
    BY DEF Landers
  <2> QED BY <2>1, <2>2, <2>3 DEF LandsWell, ReportTellsLanding
<1>6. ASSUME LanderDies PROVE LandInd'
  <2>1. UNCHANGED <<landing, coverage>> /\ lander' = LanderOff(lander.number)
    BY <1>6 DEF LanderDies
  <2>2. lander' \in Landers /\ lander'.number = lander.number /\ lander'.stage = "idle"
    BY <2>1, LoaderOffIs DEF LanderOff, Landers
  <2> QED BY <2>1, <2>2 DEF LandsWell, ReportTellsLanding
<1> QED BY <1>1, <1>2, <1>3, <1>4, <1>5, <1>6 DEF LanderStep

\* However many shares, days, rows and runs there are, what is missing from the
\* files is put down to a failed request or the rest of a day, an undisturbed
\* load is whole, and the report tells what has landed.
THEOREM FilesAlwaysHaveCause == LandingSpec => []FilesHaveCause
<1>1. FilesInit /\ LandingInit => FilesInd /\ LandInd
  BY FilesInitially, LandingInitially
<1>2. FilesInd /\ LandInd /\ [LandingNext]_<<filesVars, landVars>> => FilesInd' /\ LandInd'
  <2> SUFFICES ASSUME FilesInd, LandInd, [LandingNext]_<<filesVars, landVars>>
               PROVE  FilesInd' /\ LandInd'
    OBVIOUS
  <2>1. CASE LanderStep
    <3>1. UNCHANGED filesVars
      BY <2>1 DEF LanderStep, BeginLanding, LandShare, WriteLanding, FetchTreasury,
                  WriteReports, LanderDies
    <3>2. FilesInd'
      BY <3>1, FilesStep
    <3> QED BY <2>1, <3>2, LandStep DEF FilesInd
  <2>2. CASE [FilesNext]_filesVars /\ UNCHANGED landVars
    <3>1. LandInd'
      BY <2>2 DEF LandInd, LandingTypeOK, LandsWell, ReportTellsLanding, landVars
    <3> QED BY <2>2, <3>1, FilesStep
  <2> QED BY <2>1, <2>2 DEF LandingNext
<1>3. FilesInd /\ LandInd => FilesHaveCause
  BY DEF FilesInd, LandInd, FilesHaveCause
<1> QED BY <1>1, <1>2, <1>3, PTL DEF LandingSpec

=============================================================================
