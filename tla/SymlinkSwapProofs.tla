------------------------- MODULE SymlinkSwapProofs -------------------------
(***************************************************************************)
(* Proofs about SymlinkSwap for any set of promoters and of directories:   *)
(* type correctness, that a failure needs an overlap, that a lone          *)
(* promotion publishes its own bundle, and that the whole protocol         *)
(* implements LinkRegister.  At the end, the promotions by hand of         *)
(* HandPromotion, whose mv follows a link: where each script has left the  *)
(* links when it says that it is complete.                                 *)
(***************************************************************************)
EXTENDS SymlinkSwap, HandPromotion, TLAPS

\* Whatever a name points to was checked by some promoter.
PointersVerified ==
  /\ link \in verified \cup {NoDir}
  /\ tmp \in verified \cup {NoDir}
  /\ \A p \in Promoters : Active(p) => target[p] \in verified

\* A promoter nobody overlapped is alone, and knows what the temporary name
\* holds: this is what the exists/unlink/symlink/rename sequence establishes.
Alone(p) ==
  /\ \A q \in Promoters \ {p} : ~Active(q)
  /\ pc[p] = "unlink" => tmp # NoDir
  /\ pc[p] = "symlink" => tmp = NoDir
  /\ pc[p] = "rename" => tmp = target[p]

AloneUnlessOverlapped ==
  \A p \in Promoters : Active(p) /\ p \notin overlapped => Alone(p)

IndInv == /\ TypeOK
          /\ PointersVerified
          /\ AloneUnlessOverlapped
          /\ FailureNeedsOverlap

\* The type invariant is inductive on its own.
LEMMA TypeInductive == TypeOK /\ [Next]_vars => TypeOK'
<1> SUFFICES ASSUME TypeOK, [Next]_vars PROVE TypeOK'
  OBVIOUS
<1> USE DEF TypeOK, InCall, Active
<1>1. CASE UNCHANGED vars
  BY <1>1 DEF vars
<1>2. ASSUME NEW d \in Dirs, CreateDir(d) PROVE TypeOK'
  BY <1>2 DEF CreateDir
<1>3. ASSUME NEW d \in Dirs, RemoveDir(d) PROVE TypeOK'
  BY <1>3 DEF RemoveDir
<1>4. ASSUME NEW p \in Promoters, NEW d \in Dirs, Enter(p, d) PROVE TypeOK'
  BY <1>4 DEF Enter
<1>5. ASSUME NEW p \in Promoters, Look(p) PROVE TypeOK'
  BY <1>5 DEF Look
<1>6. ASSUME NEW p \in Promoters, Unlink(p) PROVE TypeOK'
  BY <1>6 DEF Unlink
<1>7. ASSUME NEW p \in Promoters, MakeTmp(p) PROVE TypeOK'
  BY <1>7 DEF MakeTmp
<1>8. ASSUME NEW p \in Promoters, Rename(p) PROVE TypeOK'
  BY <1>8 DEF Rename
<1>9. ASSUME NEW p \in Promoters, Kill(p) PROVE TypeOK'
  BY <1>9 DEF Kill
<1>. QED
  BY <1>1, <1>2, <1>3, <1>4, <1>5, <1>6, <1>7, <1>8, <1>9 DEF Next, Step

\* The initial state has no promoter in a call and no link of either name.
LEMMA InitInd == Init => IndInv
  BY NoDirAssumption
  DEF Init, IndInv, TypeOK, PointersVerified, AloneUnlessOverlapped, Active,
      InCall, FailureNeedsOverlap

\* Only verified directories get a name, step by step.
LEMMA PointersInductive == IndInv /\ [Next]_vars => PointersVerified'
<1> SUFFICES ASSUME IndInv, [Next]_vars PROVE PointersVerified'
  OBVIOUS
<1> USE DEF IndInv, TypeOK, PointersVerified, InCall, Active
<1>1. CASE UNCHANGED vars
  BY <1>1 DEF vars
<1>2. ASSUME NEW d \in Dirs, CreateDir(d) \/ RemoveDir(d) PROVE PointersVerified'
  BY <1>2 DEF CreateDir, RemoveDir
<1>3. ASSUME NEW p \in Promoters, NEW d \in Dirs, Enter(p, d)
      PROVE PointersVerified'
  BY <1>3 DEF Enter
<1>4. ASSUME NEW p \in Promoters, Look(p) \/ Kill(p) PROVE PointersVerified'
  BY <1>4 DEF Look, Kill
<1>5. ASSUME NEW p \in Promoters, Unlink(p) PROVE PointersVerified'
  BY <1>5 DEF Unlink
<1>6. ASSUME NEW p \in Promoters, MakeTmp(p) PROVE PointersVerified'
  BY <1>6 DEF MakeTmp
<1>7. ASSUME NEW p \in Promoters, Rename(p) PROVE PointersVerified'
  BY <1>7 DEF Rename
<1>. QED
  BY <1>1, <1>2, <1>3, <1>4, <1>5, <1>6, <1>7 DEF Next, Step

\* A step of one promoter cannot spoil what a lone promoter knows: had the two
\* been in their calls together, both would be marked as overlapped.
LEMMA AloneInductive == IndInv /\ [Next]_vars => AloneUnlessOverlapped'
<1> SUFFICES ASSUME IndInv, [Next]_vars,
                    NEW r \in Promoters, Active(r)', r \notin overlapped'
             PROVE  Alone(r)'
  BY DEF AloneUnlessOverlapped
<1> USE DEF IndInv, TypeOK, InCall, Active, Alone, AloneUnlessOverlapped
<1>1. CASE UNCHANGED vars
  BY <1>1 DEF vars
<1>2. ASSUME NEW d \in Dirs, CreateDir(d) \/ RemoveDir(d) PROVE Alone(r)'
  BY <1>2 DEF CreateDir, RemoveDir
<1>3. ASSUME NEW p \in Promoters, NEW d \in Dirs, Enter(p, d) PROVE Alone(r)'
  <2>1. CASE r = p
    BY <1>3, <2>1 DEF Enter
  <2>2. CASE r # p
    BY <1>3, <2>2 DEF Enter
  <2>. QED BY <2>1, <2>2
<1>4. ASSUME NEW p \in Promoters, Look(p) PROVE Alone(r)'
  BY <1>4 DEF Look, TmpSeen
<1>5. ASSUME NEW p \in Promoters, Unlink(p) PROVE Alone(r)'
  BY <1>5 DEF Unlink
<1>6. ASSUME NEW p \in Promoters, MakeTmp(p) PROVE Alone(r)'
  BY <1>6 DEF MakeTmp
<1>7. ASSUME NEW p \in Promoters, Rename(p) PROVE Alone(r)'
  BY <1>7 DEF Rename
<1>8. ASSUME NEW p \in Promoters, Kill(p) PROVE Alone(r)'
  BY <1>8 DEF Kill
<1>. QED
  BY <1>1, <1>2, <1>3, <1>4, <1>5, <1>6, <1>7, <1>8 DEF Next, Step

\* Each of the three OS errors is impossible for a promoter that is alone.
LEMMA FailureInductive == IndInv /\ [Next]_vars => FailureNeedsOverlap'
<1> SUFFICES ASSUME IndInv, [Next]_vars,
                    NEW r \in Promoters, pc'[r] = "failed"
             PROVE  r \in overlapped'
  BY DEF FailureNeedsOverlap
<1> USE NoDirAssumption DEF IndInv, TypeOK, InCall, Active, FailureNeedsOverlap
<1>1. CASE UNCHANGED vars
  BY <1>1 DEF vars
<1>2. ASSUME NEW d \in Dirs, CreateDir(d) \/ RemoveDir(d) PROVE r \in overlapped'
  BY <1>2 DEF CreateDir, RemoveDir
<1>3. ASSUME NEW p \in Promoters, NEW d \in Dirs, Enter(p, d)
      PROVE r \in overlapped'
  BY <1>3 DEF Enter
<1>4. ASSUME NEW p \in Promoters, Look(p) \/ Kill(p) PROVE r \in overlapped'
  BY <1>4 DEF Look, Kill
<1>5. ASSUME NEW p \in Promoters, Unlink(p) PROVE r \in overlapped'
  BY <1>5 DEF Unlink, Alone, AloneUnlessOverlapped
<1>6. ASSUME NEW p \in Promoters, MakeTmp(p) PROVE r \in overlapped'
  BY <1>6 DEF MakeTmp, Alone, AloneUnlessOverlapped
<1>7. ASSUME NEW p \in Promoters, Rename(p) PROVE r \in overlapped'
  BY <1>7 DEF Rename, Alone, AloneUnlessOverlapped
<1>. QED
  BY <1>1, <1>2, <1>3, <1>4, <1>5, <1>6, <1>7 DEF Next, Step

\* The three facts above make the invariant inductive.
THEOREM IndInvHolds == Spec => []IndInv
<1>1. IndInv /\ [Next]_vars => IndInv'
  BY TypeInductive, PointersInductive, AloneInductive, FailureInductive
  DEF IndInv
<1>. QED
  BY InitInd, <1>1, PTL DEF Spec

\* Type correctness of the swap protocol.
THEOREM TypeCorrect == Spec => []TypeOK
<1>1. IndInv => TypeOK
  BY DEF IndInv
<1>. QED BY IndInvHolds, <1>1, PTL

\* _atomic_symlink() raises only if another promoter was inside it too; the
\* left-over of a killed promoter blocks nobody.
THEOREM FailureTheorem == Spec => []FailureNeedsOverlap
<1>1. IndInv => FailureNeedsOverlap
  BY DEF IndInv
<1>. QED BY IndInvHolds, <1>1, PTL

\* A promotion that ran alone leaves current_base at its own bundle.
THEOREM SoloTheorem == Spec => SoloPublishesItsOwn
<1> DEFINE Own == \A p \in Promoters :
              (pc[p] = "rename" /\ pc'[p] = "done" /\ p \notin overlapped)
                => link' = target[p]
<1>1. IndInv /\ [Next]_vars => [Own]_vars
  <2> SUFFICES ASSUME IndInv, Next, NEW r \in Promoters,
                      pc[r] = "rename", pc'[r] = "done", r \notin overlapped
               PROVE  link' = target[r]
    BY DEF vars
  <2> USE DEF IndInv, TypeOK, InCall, Active
  <2>1. ASSUME NEW d \in Dirs, CreateDir(d) \/ RemoveDir(d) PROVE FALSE
    BY <2>1 DEF CreateDir, RemoveDir
  <2>2. ASSUME NEW p \in Promoters, NEW d \in Dirs, Enter(p, d) PROVE FALSE
    BY <2>2 DEF Enter
  <2>3. ASSUME NEW p \in Promoters,
               Look(p) \/ Unlink(p) \/ MakeTmp(p) \/ Kill(p)
        PROVE  FALSE
    BY <2>3 DEF Look, Unlink, MakeTmp, Kill
  <2>4. ASSUME NEW p \in Promoters, Rename(p) PROVE link' = target[r]
    BY <2>4 DEF Rename, Alone, AloneUnlessOverlapped
  <2>. QED BY <2>1, <2>2, <2>3, <2>4 DEF Next, Step
<1>2. Spec => [][Own]_vars
  BY IndInvHolds, <1>1, PTL DEF Spec
<1>. QED BY <1>2 DEF SoloPublishesItsOwn

\* However the calls of the promoters interleave or break off, readers of
\* current_base see the register of LinkRegister.
THEOREM Refinement == Spec => RegisterSpec
<1>1. Init => Register!Init
  BY DEF Init, Register!Init
<1>2. IndInv /\ [Next]_vars => [Register!Next]_(Register!vars)
  <2> SUFFICES ASSUME IndInv, [Next]_vars
               PROVE  Register!Next \/ UNCHANGED Register!vars
    OBVIOUS
  <2> USE DEF IndInv, TypeOK, PointersVerified, Register!vars
  <2>1. CASE UNCHANGED vars
    BY <2>1 DEF vars
  <2>2. ASSUME NEW d \in Dirs, CreateDir(d) \/ RemoveDir(d)
        PROVE  UNCHANGED Register!vars
    BY <2>2 DEF CreateDir, RemoveDir
  <2>3. ASSUME NEW p \in Promoters, NEW d \in Dirs, Enter(p, d)
        PROVE  Register!Next
    BY <2>3 DEF Enter, Register!Next, Register!Verify
  <2>4. ASSUME NEW p \in Promoters,
               Look(p) \/ Unlink(p) \/ MakeTmp(p) \/ Kill(p)
        PROVE  UNCHANGED Register!vars
    BY <2>4 DEF Look, Unlink, MakeTmp, Kill
  <2>5. ASSUME NEW p \in Promoters, Rename(p)
        PROVE  Register!Next \/ UNCHANGED Register!vars
    <3>1. CASE tmp # NoDir
      BY <2>5, <3>1 DEF Rename, Register!Next, Register!Publish
    <3>2. CASE tmp = NoDir
      BY <2>5, <3>2 DEF Rename
    <3>. QED BY <3>1, <3>2
  <2>. QED BY <2>1, <2>2, <2>3, <2>4, <2>5 DEF Next, Step
<1>. QED
  BY IndInvHolds, <1>1, <1>2, PTL DEF Spec, RegisterSpec, Register!Spec

-----------------------------------------------------------------------------
(* Promotion by hand.  Which places of a script a command stands at is     *)
(* read off the scripts once; everything else speaks of places.            *)

\* The pipeline is behind its k-th command: it goes on from there or has ended.
Past(k) == at["pipeline"] = -1 \/ at["pipeline"] > k

HandPlaces == at["newbase"] <= 6 /\ at["model"] <= 5

\* What an undisturbed pipeline has made of the links, command by command.
LinksSoFar ==
  "pipeline" \notin disturbed =>
    /\ at["pipeline"] = 12 => new["base"] = "warm"
    /\ Past(12) => leadsTo["base"] = "warm"
    /\ at["pipeline"] = 14 => new["eod"] = "warm"
    /\ Past(14) => leadsTo["eod"] = "warm"
    /\ at["pipeline"] = 16 => new["sim"] = "simulation"
    /\ Past(16) => leadsTo["sim"] = "simulation"
    /\ Past(17) => loaded["base"] \in {"warm", "none"}
    /\ Past(18) => loaded["eod"] \in {"warm", "none"}

\* Files of another job in run_root, and in what was pulled, mean that another
\* job has used it.
OriginSoFar ==
  /\ root["pipeline"].model = "other" => crowded
  /\ root["pipeline"].steps = "other" => crowded
  /\ Past(8) => (origin["warm"] = "other" => crowded)
  /\ Past(9) => (origin["simulation"] = "other" => crowded)

ReachedWhenVacant ==
  \A s \in {"newbase", "model"} : leadsTo["base"] = OwnDir[s] => s \in vacant

HandInd == HandTypeOK /\ HandPlaces /\ LinksSoFar /\ OriginSoFar /\ ReachedWhenVacant

LEMMA HandInitially == HandInit => HandInd
<1> SUFFICES ASSUME HandInit PROVE HandInd
  OBVIOUS
<1> USE HandAssumption DEF HandInit
<1>0. EmptyRoot \in RootSet /\ "daily" \in Targets /\ "none" \in Targets
  BY DEF EmptyRoot, RootSet, Whose, Targets, HandDirs
<1>1. HandTypeOK
  <2>1. at \in [Scripts -> -2 .. 19] /\ starts \in 0 .. MaxStarts
    OBVIOUS
  <2>2. /\ leadsTo \in [Links -> Targets] /\ new \in [Links -> Targets]
        /\ stray \in [HandDirs -> Targets] /\ backup \in Targets
        /\ loaded \in [Links -> Targets] /\ root \in [Scripts -> RootSet]
    BY <1>0
  <2>3. disk \in [HandDirs -> {"none", "part", "whole"}] /\ origin \in [HandDirs -> Whose]
    BY DEF Whose
  <2> QED BY <2>1, <2>2, <2>3 DEF HandTypeOK
<1>2. at["pipeline"] = 0 /\ at["newbase"] = 0 /\ at["model"] = 0
  BY DEF Scripts
<1>3. HandPlaces /\ LinksSoFar
  BY <1>2 DEF HandPlaces, LinksSoFar, Past
<1>4. OriginSoFar
  BY <1>2 DEF OriginSoFar, Past, Scripts, EmptyRoot
<1>5. ReachedWhenVacant
  BY DEF ReachedWhenVacant, OwnDir, Links
<1> QED BY <1>1, <1>3, <1>4, <1>5 DEF HandInd

LEMMA PipelinePlaces ==
  /\ Len(Commands["pipeline"]) = 19
  /\ \A i \in 1 .. 19 :
       /\ Commands["pipeline"][i] = "wipe" => i = 1
       /\ Commands["pipeline"][i] \in {"base_train", "poll_base", "verify_base", "warm_windows",
                                       "poll_warm", "verify_done"} => i <= 7
       /\ Commands["pipeline"][i] = "manifest" => i = 10
       /\ Commands["pipeline"][i] = "pull" => i = 8
       /\ Commands["pipeline"][i] = "pull_steps" => i = 9
       /\ Commands["pipeline"][i] = "new_base" => i = 11
       /\ Commands["pipeline"][i] = "move_base" => i = 12
       /\ Commands["pipeline"][i] = "new_eod" => i = 13
       /\ Commands["pipeline"][i] = "move_eod" => i = 14
       /\ Commands["pipeline"][i] = "new_sim" => i = 15
       /\ Commands["pipeline"][i] = "move_sim" => i = 16
       /\ Commands["pipeline"][i] = "reload_base" => i = 17
       /\ Commands["pipeline"][i] = "reload_eod" => i = 18
       /\ Commands["pipeline"][i] = "reload_sim" => i = 19
       /\ Commands["pipeline"][i] # "reload" /\ Commands["pipeline"][i] # "backup"
  BY DEF Commands

LEMMA OtherPlaces ==
  /\ Len(Commands["newbase"]) = 6 /\ Len(Commands["model"]) = 5
  /\ \A i \in 1 .. 6 :
       Commands["newbase"][i] \notin
         {"wipe", "pull_steps", "new_eod", "move_eod", "new_sim", "move_sim", "reload_base",
          "reload_eod", "reload_sim", "base_train", "poll_base", "poll_warm"}
  /\ \A i \in 1 .. 5 :
       Commands["model"][i] \notin
         {"wipe", "pull_steps", "new_eod", "move_eod", "new_sim", "move_sim", "reload_base",
          "reload_eod", "reload_sim", "base_train", "poll_base", "poll_warm"}
  BY DEF Commands

\* A step of script s moves it by one command, or ends it.
StepsOn(s) ==
  /\ Runs(s)
  /\ \/ at' = [at EXCEPT ![s] = IF @ = Len(Commands[s]) THEN -1 ELSE @ + 1]
     \/ at' = [at EXCEPT ![s] = -2]
     \/ at' = at

LEMMA CommandSteps ==
  ASSUME NEW s \in Scripts, Command(s)
  PROVE  StepsOn(s)
<1> USE DEF StepsOn, Runs, Proceeds, FailsAt, StandsAt
<1>1. CASE WipeRoot(s) \/ SubmitJob(s) \/ Poll(s) \/ Verify(s)
  BY <1>1 DEF WipeRoot, SubmitJob, Poll, Verify
<1>2. CASE PullBundle(s) \/ PullSteps(s)
  BY <1>2 DEF PullBundle, PullSteps, Pull
<1>3. CASE Manifest(s) \/ Backup(s) \/ LinkNew(s) \/ Reload(s)
  BY <1>3 DEF Manifest, Backup, LinkNew, Reload
<1>4. CASE Move(s)
  BY <1>4 DEF Move
<1> QED BY <1>1, <1>2, <1>3, <1>4 DEF Command

LEMMA PlacesStep ==
  ASSUME at \in [Scripts -> -2 .. 19], HandPlaces, NEW s \in Scripts,
         StepsOn(s) \/ StartScript(s) \/ KillScript(s)
  PROVE  at' \in [Scripts -> -2 .. 19] /\ HandPlaces'
<1>1. CASE StartScript(s)
  BY <1>1 DEF StartScript, HandPlaces, Scripts
<1>2. CASE KillScript(s)
  BY <1>2 DEF KillScript, FailsAt, HandPlaces, Scripts
<1>3. CASE StepsOn(s)
  <2>1. CASE s = "pipeline"
    BY <1>3, <2>1, PipelinePlaces DEF StepsOn, Runs, HandPlaces, Scripts
  <2>2. CASE s = "newbase"
    BY <1>3, <2>2, OtherPlaces DEF StepsOn, Runs, HandPlaces, Scripts
  <2>3. CASE s = "model"
    BY <1>3, <2>3, OtherPlaces DEF StepsOn, Runs, HandPlaces, Scripts
  <2> QED BY <2>1, <2>2, <2>3 DEF Scripts
<1> QED BY <1>1, <1>2, <1>3

(* The types.                                                              *)

LEMMA PullTypes ==
  ASSUME HandTypeOK, NEW s \in Scripts, NEW d \in HandDirs, NEW what \in Whose,
         Pull(s, d, what)
  PROVE  disk' \in [HandDirs -> {"none", "part", "whole"}] /\ origin' \in [HandDirs -> Whose]
  BY DEF HandTypeOK, Pull

LEMMA RemoteTypes ==
  ASSUME HandTypeOK, at' \in [Scripts -> -2 .. 19], NEW s \in Scripts,
         \/ WipeRoot(s) \/ SubmitJob(s) \/ Poll(s) \/ Verify(s) \/ Manifest(s)
         \/ KillScript(s) \/ RemoteReady(s) \/ StartScript(s) \/ JobEnds \/ OtherJob
  PROVE  HandTypeOK'
<1> USE DEF HandTypeOK, artifactVars, remoteVars, historyVars
<1>0. /\ EmptyRoot \in RootSet
      /\ [model |-> "own", steps |-> "own", done |-> TRUE] \in RootSet
      /\ [model |-> "other", steps |-> "other", done |-> TRUE] \in RootSet
      /\ \A r \in RootSet : [r EXCEPT !.model = "own"] \in RootSet
  BY DEF EmptyRoot, RootSet, Whose
<1>1. CASE WipeRoot(s)
  BY <1>0, <1>1 DEF WipeRoot
<1>2. CASE SubmitJob(s) \/ Poll(s) \/ Verify(s) \/ Manifest(s) \/ KillScript(s)
  BY <1>2 DEF SubmitJob, Poll, Verify, Manifest, KillScript
<1>3. CASE RemoteReady(s)
  BY <1>0, <1>3 DEF RemoteReady
<1>4. CASE StartScript(s)
  BY <1>4, HandAssumption DEF StartScript
<1>5. CASE JobEnds
  <2>1. "pipeline" \in Scripts
    BY DEF Scripts
  <2>2. root["pipeline"] \in RootSet
    BY <2>1
  <2>3. \/ root' = root
        \/ root' = [root EXCEPT !["pipeline"] = [root["pipeline"] EXCEPT !.model = "own"]]
        \/ root' = [root EXCEPT !["pipeline"] =
                       [model |-> "own", steps |-> "own", done |-> TRUE]]
    BY <1>5, <2>1 DEF JobEnds
  <2>4. root' \in [Scripts -> RootSet]
    BY <1>0, <2>2, <2>3
  <2> QED BY <1>5, <2>4 DEF JobEnds
<1>6. CASE OtherJob
  <2>1. PICK r \in RootSet : root' = [root EXCEPT !["pipeline"] = r]
    BY <1>0, <1>6 DEF OtherJob
  <2>2. root' \in [Scripts -> RootSet]
    BY <2>1
  <2> QED BY <1>6, <2>2 DEF OtherJob
<1> QED BY <1>1, <1>2, <1>3, <1>4, <1>5, <1>6

LEMMA ArtifactTypes ==
  ASSUME HandTypeOK, at' \in [Scripts -> -2 .. 19], NEW s \in Scripts,
         \/ PullBundle(s) \/ PullSteps(s) \/ Backup(s) \/ LinkNew(s) \/ Move(s) \/ Reload(s)
         \/ LoadLate \/ DagPromotes \/ RemoveDaily
  PROVE  HandTypeOK'
<1> USE DEF HandTypeOK, artifactVars, remoteVars, historyVars
<1>0. /\ \A l \in Links : leadsTo[l] \in Targets /\ new[l] \in Targets
      /\ \A d \in Scripts : OwnDir[d] \in HandDirs
      /\ HandDirs \subseteq Targets /\ "none" \in Targets
      /\ "base" \in Links /\ "eod" \in Links /\ "sim" \in Links
      /\ "daily" \in HandDirs /\ "simulation" \in HandDirs
  BY DEF Links, Scripts, OwnDir, HandDirs, Targets
<1>1. CASE PullBundle(s)
  <2>1. root[s].model \in Whose
    BY DEF RootSet
  <2> QED BY <1>0, <1>1, <2>1, PullTypes DEF PullBundle
<1>2. CASE PullSteps(s)
  <2>1. root[s].steps \in Whose
    BY DEF RootSet
  <2> QED BY <1>0, <1>2, <2>1, PullTypes DEF PullSteps
<1>3. CASE Backup(s)
  BY <1>0, <1>3 DEF Backup
<1>4. CASE LinkNew(s)
  <2>1. PICK c \in DOMAIN NewOf :
          new' = [new EXCEPT ![NewOf[c]] = IF c = "new_sim" THEN "simulation" ELSE OwnDir[s]]
    BY <1>4 DEF LinkNew
  <2>2. new' \in [Links -> Targets]
    BY <1>0, <2>1
  <2> QED BY <1>4, <2>2 DEF LinkNew, Disturbs
<1>5. CASE Move(s)
  <2>1. PICK c \in DOMAIN MoveOf : LET l == MoveOf[c] IN
          \/ UNCHANGED <<leadsTo, new, stray, historyVars>>
          \/ /\ new' = [new EXCEPT ![l] = "none"]
             /\ \/ leadsTo' = [leadsTo EXCEPT ![l] = new[l]] /\ UNCHANGED stray
                \/ stray' = [stray EXCEPT ![leadsTo[l]] = new[l]] /\ UNCHANGED leadsTo
             /\ Disturbs({s})
             /\ vacant' = vacant \cup {r \in Scripts :
                                         IF r = s THEN ~Resolves(l) ELSE new[l] = OwnDir[r]}
    BY <1>5 DEF Move
  <2>2. MoveOf[c] \in Links
    BY DEF MoveOf, Links
  <2>3. leadsTo' \in [Links -> Targets] /\ new' \in [Links -> Targets]
        /\ stray' \in [HandDirs -> Targets]
    BY <1>0, <2>1, <2>2
  <2>4. disturbed' \subseteq Scripts /\ vacant' \subseteq Scripts
    BY <2>1 DEF Disturbs
  <2> QED BY <1>5, <2>3, <2>4 DEF Move
<1>6. CASE Reload(s)
  <2>1. \A c \in DOMAIN ReloadOf : ReloadOf[c] \in Links
    BY DEF ReloadOf, Links
  <2>2. loaded' \in [Links -> Targets]
    BY <1>0, <1>6, <2>1 DEF Reload, Reloads
  <2> QED BY <1>6, <2>2 DEF Reload
<1>7. CASE DagPromotes
  BY <1>0, <1>7 DEF DagPromotes, Disturbs
<1>8. CASE RemoveDaily
  BY <1>0, <1>8 DEF RemoveDaily
<1>9. CASE LoadLate
  <2>1. loaded' \in [Links -> Targets]
    BY <1>0, <1>9 DEF LoadLate
  <2> QED BY <1>9, <2>1 DEF LoadLate
<1> QED BY <1>1, <1>2, <1>3, <1>4, <1>5, <1>6, <1>7, <1>8, <1>9

(* The links.                                                              *)

LEMMA LinksStay ==
  ASSUME LinksSoFar,
         /\ new' = new /\ leadsTo' = leadsTo /\ loaded' = loaded
         /\ "pipeline" \in disturbed => "pipeline" \in disturbed',
         \/ at'["pipeline"] = at["pipeline"]
         \/ at'["pipeline"] \in -2 .. 11 /\ at'["pipeline"] # -1
  PROVE  LinksSoFar'
<1>1. CASE at'["pipeline"] = at["pipeline"]
  BY <1>1 DEF LinksSoFar, Past
<1>2. CASE at'["pipeline"] \in -2 .. 11 /\ at'["pipeline"] # -1
  BY <1>2 DEF LinksSoFar, Past
<1> QED BY <1>1, <1>2

\* Another script's commands, and the DAG, disturb the pipeline when they touch
\* a link.
LEMMA LinksDisturbed ==
  ASSUME at \in [Scripts -> -2 .. 19], NEW who \in SUBSET Scripts, "pipeline" \notin who,
         Disturbs(who), at'["pipeline"] = at["pipeline"]
  PROVE  LinksSoFar'
<1>1. CASE at["pipeline"] = 0
  BY <1>1 DEF LinksSoFar, Past
<1>2. CASE at["pipeline"] # 0
  <2>1. "pipeline" \in disturbed'
    BY <1>2 DEF Disturbs, Scripts
  <2> QED BY <2>1 DEF LinksSoFar
<1> QED BY <1>1, <1>2

LEMMA LinksBesides ==
  ASSUME HandTypeOK, HandPlaces, LinksSoFar, NEW s \in Scripts,
         \/ StartScript(s) \/ KillScript(s) \/ RemoteReady(s)
         \/ JobEnds \/ LoadLate \/ OtherJob \/ DagPromotes \/ RemoveDaily
  PROVE  LinksSoFar'
<1> USE DEF artifactVars, remoteVars, historyVars
<1>0. at \in [Scripts -> -2 .. 19] /\ "pipeline" \in Scripts
  BY DEF HandTypeOK, Scripts
<1>1. CASE StartScript(s)
  <2>1. CASE s = "pipeline"
    BY <1>0, <1>1, <2>1 DEF StartScript, LinksSoFar, Past
  <2>2. CASE s # "pipeline"
    BY <1>0, <1>1, <2>2, LinksStay DEF StartScript
  <2> QED BY <2>1, <2>2
<1>2. CASE KillScript(s)
  BY <1>0, <1>2, LinksStay DEF KillScript, FailsAt
<1>3. CASE RemoteReady(s) \/ JobEnds \/ OtherJob \/ RemoveDaily
  BY <1>3, LinksStay DEF RemoteReady, JobEnds, OtherJob, RemoveDaily
<1>4. CASE DagPromotes
  BY <1>0, <1>4, LinksDisturbed DEF DagPromotes
<1>5. CASE LoadLate
  <2>1. loaded \in [Links -> Targets] /\ "base" \in Links /\ "eod" \in Links
    BY DEF HandTypeOK, Links
  <2>2. PICK l \in {"base", "eod"} : loaded' = [loaded EXCEPT ![l] = leadsTo[l]]
    BY <1>5 DEF LoadLate
  <2>3. /\ loaded'["base"] \in {loaded["base"], leadsTo["base"]}
        /\ loaded'["eod"] \in {loaded["eod"], leadsTo["eod"]}
    BY <2>1, <2>2
  <2>4. /\ at' = at /\ new' = new /\ leadsTo' = leadsTo /\ disturbed' = disturbed
    BY <1>5 DEF LoadLate
  <2>5. Past(17) => Past(12) /\ Past(14)
    BY <1>0 DEF Past
  <2>6. Past(18) => Past(14)
    BY <1>0 DEF Past
  <2> QED BY <2>3, <2>4, <2>5, <2>6 DEF LinksSoFar, Past
<1> QED BY <1>1, <1>2, <1>3, <1>4, <1>5

LEMMA LinksOthersCommand ==
  ASSUME HandTypeOK, HandPlaces, LinksSoFar, NEW s \in Scripts, s # "pipeline", Command(s)
  PROVE  LinksSoFar'
<1> USE DEF artifactVars, remoteVars, historyVars
<1>0. at \in [Scripts -> -2 .. 19] /\ "pipeline" \in Scripts
  BY DEF HandTypeOK, Scripts
<1>1. at'["pipeline"] = at["pipeline"]
  BY <1>0, CommandSteps DEF StepsOn
<1>2. CASE WipeRoot(s) \/ SubmitJob(s) \/ Poll(s) \/ Verify(s) \/ PullBundle(s) \/ PullSteps(s)
           \/ Manifest(s) \/ Backup(s)
  BY <1>1, <1>2, LinksStay
     DEF WipeRoot, SubmitJob, Poll, Verify, PullBundle, PullSteps, Manifest, Backup
<1>3. CASE LinkNew(s)
  BY <1>0, <1>1, <1>3, LinksDisturbed DEF LinkNew
<1>4. CASE Move(s)
  <2>1. CASE Disturbs({s})
    BY <1>0, <1>1, <2>1, LinksDisturbed
  <2>2. CASE UNCHANGED <<leadsTo, new, stray, historyVars>>
    <3>1. loaded' = loaded
      BY <1>4 DEF Move
    <3> QED BY <1>1, <2>2, <3>1, LinksStay
  <2> QED BY <1>4, <2>1, <2>2 DEF Move
<1>5. CASE Reload(s)
  <2>1. loaded' = loaded
    <3>1. \A c \in DOMAIN ReloadOf : c \in {"reload_base", "reload_eod", "reload_sim"}
      BY DEF ReloadOf
    <3>2. \A c \in DOMAIN ReloadOf : ~StandsAt(s, c)
      BY <1>0, <3>1, OtherPlaces DEF StandsAt, HandPlaces, Scripts
    <3> QED BY <1>5, <3>2 DEF Reload
  <2> QED BY <1>1, <1>5, <2>1, LinksStay DEF Reload
<1> QED BY <1>2, <1>3, <1>4, <1>5 DEF Command

LEMMA LinksOwnCommand ==
  ASSUME HandTypeOK, HandPlaces, LinksSoFar, Command("pipeline")
  PROVE  LinksSoFar'
<1> USE DEF artifactVars, remoteVars, historyVars
<1>0. at \in [Scripts -> -2 .. 19] /\ "pipeline" \in Scripts
  BY DEF HandTypeOK, Scripts
<1>1. \A c : StandsAt("pipeline", c) =>
        at["pipeline"] \in 1 .. 19 /\ Commands["pipeline"][at["pipeline"]] = c
  BY <1>0 DEF StandsAt
<1> DEFINE On == at' = [at EXCEPT !["pipeline"] = IF @ = 19 THEN -1 ELSE @ + 1]
<1>2. Proceeds("pipeline") => On
  BY PipelinePlaces DEF Proceeds
<1>3. CASE \/ WipeRoot("pipeline") \/ SubmitJob("pipeline") \/ Poll("pipeline")
           \/ Verify("pipeline") \/ Manifest("pipeline")
  <2>1. at["pipeline"] \in 1 .. 10
    BY <1>1, <1>3, PipelinePlaces DEF WipeRoot, SubmitJob, Poll, Verify, Manifest
  <2>2. On \/ at' = [at EXCEPT !["pipeline"] = -2]
    BY <1>2, <1>3 DEF WipeRoot, SubmitJob, Poll, Verify, Manifest, FailsAt
  <2>3. at'["pipeline"] \in -2 .. 11 /\ at'["pipeline"] # -1
    BY <1>0, <2>1, <2>2
  <2> QED BY <1>3, <2>3, LinksStay DEF WipeRoot, SubmitJob, Poll, Verify, Manifest
<1>4. CASE PullBundle("pipeline") \/ PullSteps("pipeline")
  <2>1. at["pipeline"] \in 1 .. 10
    BY <1>1, <1>4, PipelinePlaces DEF PullBundle, PullSteps
  <2>2. On \/ at' = [at EXCEPT !["pipeline"] = -2] \/ at' = at
    BY <1>2, <1>4 DEF PullBundle, PullSteps, Pull, FailsAt
  <2>3. at'["pipeline"] \in -2 .. 11 /\ at'["pipeline"] # -1
    BY <1>0, <2>1, <2>2
  <2> QED BY <1>4, <2>3, LinksStay DEF PullBundle, PullSteps
<1>5. CASE Backup("pipeline")
  BY <1>1, <1>5, PipelinePlaces DEF Backup
<1>6. CASE LinkNew("pipeline")
  <2>0. new \in [Links -> Targets] /\ "base" \in Links /\ "eod" \in Links /\ "sim" \in Links
    BY DEF HandTypeOK, Links
  <2>1. PICK c \in {"new_base", "new_eod", "new_sim"} :
          /\ StandsAt("pipeline", c) /\ Proceeds("pipeline")
          /\ new' = [new EXCEPT ![NewOf[c]] =
                        IF c = "new_sim" THEN "simulation" ELSE OwnDir["pipeline"]]
    BY <1>6 DEF LinkNew, NewOf
  <2>2. /\ leadsTo' = leadsTo /\ loaded' = loaded
        /\ "pipeline" \in disturbed => "pipeline" \in disturbed'
    BY <1>6 DEF LinkNew, Disturbs
  <2>3. CASE c = "new_base"
    <3>1. at["pipeline"] = 11 /\ at'["pipeline"] = 12 /\ new'["base"] = "warm"
      BY <1>0, <1>1, <1>2, <2>0, <2>1, <2>3, PipelinePlaces DEF NewOf, OwnDir
    <3> QED BY <2>2, <3>1 DEF LinksSoFar, Past
  <2>4. CASE c = "new_eod"
    <3>1. at["pipeline"] = 13 /\ at'["pipeline"] = 14 /\ new'["eod"] = "warm"
      BY <1>0, <1>1, <1>2, <2>0, <2>1, <2>4, PipelinePlaces DEF NewOf, OwnDir
    <3> QED BY <2>2, <3>1 DEF LinksSoFar, Past
  <2>5. CASE c = "new_sim"
    <3>1. at["pipeline"] = 15 /\ at'["pipeline"] = 16 /\ new'["sim"] = "simulation"
      BY <1>0, <1>1, <1>2, <2>0, <2>1, <2>5, PipelinePlaces DEF NewOf, OwnDir
    <3> QED BY <2>2, <3>1 DEF LinksSoFar, Past
  <2> QED BY <2>1, <2>3, <2>4, <2>5
<1>7. CASE Move("pipeline")
  <2>0. /\ leadsTo \in [Links -> Targets]
        /\ "base" \in Links /\ "eod" \in Links /\ "sim" \in Links
    BY DEF HandTypeOK, Links
  <2>1. PICK c \in {"move_base", "move_eod", "move_sim"} :
          /\ StandsAt("pipeline", c)
          /\ \/ FailsAt("pipeline")
             \/ /\ Proceeds("pipeline")
                /\ leadsTo' = [leadsTo EXCEPT ![MoveOf[c]] = new[MoveOf[c]]]
    BY <1>7 DEF Move, MoveOf, Replaces
  <2>2. /\ loaded' = loaded
        /\ "pipeline" \in disturbed => "pipeline" \in disturbed'
    BY <1>7 DEF Move, Disturbs
  <2>3. CASE FailsAt("pipeline")
    BY <1>0, <2>3 DEF FailsAt, LinksSoFar, Past
  <2>4. CASE ~FailsAt("pipeline")
    <3>1. CASE c = "move_base"
      <4>1. /\ at["pipeline"] = 12 /\ at'["pipeline"] = 13 /\ leadsTo'["base"] = new["base"]
        BY <1>0, <1>1, <1>2, <2>0, <2>1, <2>4, <3>1, PipelinePlaces DEF MoveOf
      <4> QED BY <2>2, <4>1 DEF LinksSoFar, Past
    <3>2. CASE c = "move_eod"
      <4>1. /\ at["pipeline"] = 14 /\ at'["pipeline"] = 15 /\ leadsTo'["eod"] = new["eod"]
            /\ leadsTo'["base"] = leadsTo["base"]
        BY <1>0, <1>1, <1>2, <2>0, <2>1, <2>4, <3>2, PipelinePlaces DEF MoveOf
      <4> QED BY <2>2, <4>1 DEF LinksSoFar, Past
    <3>3. CASE c = "move_sim"
      <4>1. /\ at["pipeline"] = 16 /\ at'["pipeline"] = 17 /\ leadsTo'["sim"] = new["sim"]
            /\ leadsTo'["base"] = leadsTo["base"] /\ leadsTo'["eod"] = leadsTo["eod"]
        BY <1>0, <1>1, <1>2, <2>0, <2>1, <2>4, <3>3, PipelinePlaces DEF MoveOf
      <4> QED BY <2>2, <4>1 DEF LinksSoFar, Past
    <3> QED BY <2>1, <3>1, <3>2, <3>3
  <2> QED BY <2>3, <2>4
<1>8. CASE Reload("pipeline")
  <2>0. /\ loaded \in [Links -> Targets]
        /\ "base" \in Links /\ "eod" \in Links /\ "sim" \in Links
    BY DEF HandTypeOK, Links
  <2>1. ~StandsAt("pipeline", "reload")
    BY <1>1, PipelinePlaces
  <2>2. PICK c \in {"reload_base", "reload_eod", "reload_sim"} :
          /\ StandsAt("pipeline", c)
          /\ \/ /\ Proceeds("pipeline")
                /\ \/ loaded' = [loaded EXCEPT ![ReloadOf[c]] = leadsTo[ReloadOf[c]]]
                   \/ loaded' = [loaded EXCEPT ![ReloadOf[c]] = "none"]
                   \/ c = "reload_sim" /\ loaded' = loaded
             \/ FailsAt("pipeline")
    BY <1>8, <2>1 DEF Reload, Reloads, ReloadOf
  <2>3. new' = new /\ leadsTo' = leadsTo /\ disturbed' = disturbed
    BY <1>8 DEF Reload
  <2>4. CASE FailsAt("pipeline")
    BY <1>0, <2>4 DEF FailsAt, LinksSoFar, Past
  <2>5. CASE ~FailsAt("pipeline") /\ c = "reload_base"
    <3>1. /\ at["pipeline"] = 17 /\ at'["pipeline"] = 18
          /\ loaded'["base"] \in {leadsTo["base"], "none"}
      BY <1>0, <1>1, <1>2, <2>0, <2>2, <2>5, PipelinePlaces DEF ReloadOf
    <3> QED BY <2>3, <3>1 DEF LinksSoFar, Past
  <2>6. CASE ~FailsAt("pipeline") /\ c = "reload_eod"
    <3>1. /\ at["pipeline"] = 18 /\ at'["pipeline"] = 19
          /\ loaded'["eod"] \in {leadsTo["eod"], "none"}
          /\ loaded'["base"] = loaded["base"]
      BY <1>0, <1>1, <1>2, <2>0, <2>2, <2>6, PipelinePlaces DEF ReloadOf
    <3> QED BY <2>3, <3>1 DEF LinksSoFar, Past
  <2>7. CASE ~FailsAt("pipeline") /\ c = "reload_sim"
    <3>1. /\ at["pipeline"] = 19 /\ at'["pipeline"] = -1
          /\ loaded'["base"] = loaded["base"] /\ loaded'["eod"] = loaded["eod"]
      BY <1>0, <1>1, <1>2, <2>0, <2>2, <2>7, PipelinePlaces DEF ReloadOf
    <3> QED BY <2>3, <3>1 DEF LinksSoFar, Past
  <2> QED BY <2>2, <2>4, <2>5, <2>6, <2>7
<1> QED BY <1>3, <1>4, <1>5, <1>6, <1>7, <1>8 DEF Command

(* What was pulled.                                                        *)

LEMMA OriginStay ==
  ASSUME OriginSoFar, crowded => crowded', root'["pipeline"] = root["pipeline"],
         origin' = origin,
         \/ at'["pipeline"] = at["pipeline"]
         \/ at'["pipeline"] \in -2 .. 8 /\ at'["pipeline"] # -1
         \/ at["pipeline"] \in 10 .. 19
  PROVE  OriginSoFar'
<1>1. CASE at'["pipeline"] = at["pipeline"]
  BY <1>1 DEF OriginSoFar, Past
<1>2. CASE at'["pipeline"] \in -2 .. 8 /\ at'["pipeline"] # -1
  BY <1>2 DEF OriginSoFar, Past
<1>3. CASE at["pipeline"] \in 10 .. 19
  BY <1>3 DEF OriginSoFar, Past
<1> QED BY <1>1, <1>2, <1>3

LEMMA OriginBesides ==
  ASSUME HandTypeOK, HandPlaces, OriginSoFar, NEW s \in Scripts,
         \/ StartScript(s) \/ KillScript(s) \/ RemoteReady(s)
         \/ JobEnds \/ LoadLate \/ OtherJob \/ DagPromotes \/ RemoveDaily
  PROVE  OriginSoFar'
<1> USE DEF artifactVars, remoteVars, historyVars
<1>0. /\ at \in [Scripts -> -2 .. 19] /\ root \in [Scripts -> RootSet]
      /\ "pipeline" \in Scripts
  BY DEF HandTypeOK, Scripts
<1>1. CASE StartScript(s) \/ KillScript(s)
  BY <1>0, <1>1, OriginStay DEF StartScript, KillScript, FailsAt
<1>2. CASE RemoteReady(s) \/ LoadLate \/ DagPromotes \/ RemoveDaily
  BY <1>0, <1>2, OriginStay DEF RemoteReady, LoadLate, DagPromotes, RemoveDaily
<1>3. CASE OtherJob
  BY <1>3 DEF OtherJob, OriginSoFar, Past
<1>4. CASE JobEnds
  <2>1. /\ root'["pipeline"].model \in {"own", root["pipeline"].model}
        /\ root'["pipeline"].steps \in {"own", root["pipeline"].steps}
    BY <1>0, <1>4 DEF JobEnds, RootSet
  <2> QED BY <1>4, <2>1 DEF JobEnds, OriginSoFar, Past
<1> QED BY <1>1, <1>2, <1>3, <1>4

LEMMA OriginOthersCommand ==
  ASSUME HandTypeOK, HandPlaces, OriginSoFar, NEW s \in Scripts, s # "pipeline", Command(s)
  PROVE  OriginSoFar'
<1> USE DEF artifactVars, remoteVars, historyVars
<1>0. at \in [Scripts -> -2 .. 19] /\ "pipeline" \in Scripts
  BY DEF HandTypeOK, Scripts
<1>1. at'["pipeline"] = at["pipeline"]
  BY <1>0, CommandSteps DEF StepsOn
<1>2. ~WipeRoot(s) /\ ~PullSteps(s)
  BY <1>0, OtherPlaces DEF WipeRoot, PullSteps, StandsAt, HandPlaces, Scripts
<1>3. CASE \/ SubmitJob(s) \/ Poll(s) \/ Verify(s) \/ Manifest(s) \/ Backup(s) \/ LinkNew(s)
           \/ Move(s) \/ Reload(s)
  BY <1>1, <1>3, OriginStay
     DEF SubmitJob, Poll, Verify, Manifest, Backup, LinkNew, Move, Reload
<1>4. CASE PullBundle(s)
  <2>1. OwnDir[s] # "warm" /\ OwnDir[s] # "simulation"
    BY DEF OwnDir, Scripts
  <2>0. origin \in [HandDirs -> Whose] /\ "warm" \in HandDirs /\ "simulation" \in HandDirs
    BY DEF HandTypeOK, HandDirs
  <2>2. /\ origin'["warm"] = origin["warm"] /\ origin'["simulation"] = origin["simulation"]
        /\ root' = root /\ crowded' = crowded
    BY <1>4, <2>0, <2>1 DEF PullBundle, Pull
  <2> QED BY <1>1, <2>2 DEF OriginSoFar, Past
<1> QED BY <1>2, <1>3, <1>4 DEF Command

LEMMA OriginOwnCommand ==
  ASSUME HandTypeOK, HandPlaces, OriginSoFar, Command("pipeline")
  PROVE  OriginSoFar'
<1> USE DEF artifactVars, remoteVars, historyVars
<1>0. at \in [Scripts -> -2 .. 19] /\ "pipeline" \in Scripts
  BY DEF HandTypeOK, Scripts
<1>1. \A c : StandsAt("pipeline", c) =>
        at["pipeline"] \in 1 .. 19 /\ Commands["pipeline"][at["pipeline"]] = c
  BY <1>0 DEF StandsAt
<1> DEFINE On == at' = [at EXCEPT !["pipeline"] = IF @ = 19 THEN -1 ELSE @ + 1]
<1>2. Proceeds("pipeline") => On
  BY PipelinePlaces DEF Proceeds
<1>3. CASE WipeRoot("pipeline")
  <2>1. at["pipeline"] = 1
    BY <1>1, <1>3, PipelinePlaces DEF WipeRoot
  <2>2. at'["pipeline"] = 2
    BY <1>0, <1>2, <1>3, <2>1 DEF WipeRoot
  <2>3. root'["pipeline"].model = "none" /\ root'["pipeline"].steps = "none"
    BY <1>0, <1>3 DEF WipeRoot, EmptyRoot, HandTypeOK
  <2> QED BY <2>2, <2>3 DEF OriginSoFar, Past
<1>4. CASE \/ SubmitJob("pipeline") \/ Poll("pipeline") \/ Verify("pipeline")
           \/ Manifest("pipeline")
  <2>1. at["pipeline"] \in 1 .. 7 \/ at["pipeline"] = 10
    BY <1>1, <1>4, PipelinePlaces DEF SubmitJob, Poll, Verify, Manifest
  <2>2. On \/ at' = [at EXCEPT !["pipeline"] = -2]
    BY <1>2, <1>4 DEF SubmitJob, Poll, Verify, Manifest, FailsAt
  <2>3. \/ at'["pipeline"] \in -2 .. 8 /\ at'["pipeline"] # -1
        \/ at["pipeline"] \in 10 .. 19
    BY <1>0, <2>1, <2>2
  <2> QED BY <1>4, <2>3, OriginStay DEF SubmitJob, Poll, Verify, Manifest
<1>5. CASE \/ Backup("pipeline") \/ LinkNew("pipeline") \/ Move("pipeline")
           \/ Reload("pipeline")
  <2>1. at["pipeline"] \in 10 .. 19
    BY <1>1, <1>5, PipelinePlaces DEF Backup, LinkNew, NewOf, Move, MoveOf, Reload, ReloadOf
  <2> QED BY <1>5, <2>1, OriginStay DEF Backup, LinkNew, Move, Reload
<1>6. CASE PullBundle("pipeline")
  <2>1. at["pipeline"] = 8
    BY <1>1, <1>6, PipelinePlaces DEF PullBundle
  <2>2. OwnDir["pipeline"] = "warm"
    BY DEF OwnDir
  <2>3. root' = root /\ crowded' = crowded
    BY <1>6 DEF PullBundle
  <2>4. \/ at' = at /\ origin' = origin
        \/ On /\ origin' = [origin EXCEPT !["warm"] = root["pipeline"].model]
        \/ at' = [at EXCEPT !["pipeline"] = -2] /\ origin' = origin
    BY <1>2, <1>6, <2>2 DEF PullBundle, Pull, FailsAt
  <2>5. \/ at'["pipeline"] \in {-2, 8} /\ origin' = origin
        \/ at'["pipeline"] = 9 /\ origin'["warm"] = root["pipeline"].model
    BY <1>0, <2>1, <2>4 DEF HandTypeOK, HandDirs
  <2> QED BY <2>3, <2>5 DEF OriginSoFar, Past
<1>7. CASE PullSteps("pipeline")
  <2>1. at["pipeline"] = 9
    BY <1>1, <1>7, PipelinePlaces DEF PullSteps
  <2>3. root' = root /\ crowded' = crowded
    BY <1>7 DEF PullSteps
  <2>4. \/ at' = at /\ origin' = origin
        \/ On /\ origin' = [origin EXCEPT !["simulation"] = root["pipeline"].steps]
        \/ at' = [at EXCEPT !["pipeline"] = -2] /\ origin' = origin
    BY <1>2, <1>7 DEF PullSteps, Pull, FailsAt
  <2>5. \/ at'["pipeline"] \in {-2, 9} /\ origin' = origin
        \/ /\ at'["pipeline"] = 10 /\ origin'["warm"] = origin["warm"]
           /\ origin'["simulation"] = root["pipeline"].steps
    BY <1>0, <2>1, <2>4 DEF HandTypeOK, HandDirs
  <2> QED BY <2>1, <2>3, <2>5 DEF OriginSoFar, Past
<1> QED BY <1>3, <1>4, <1>5, <1>6, <1>7 DEF Command

(* Where current_base leads.                                               *)

LEMMA ReachedStep ==
  ASSUME HandTypeOK, ReachedWhenVacant, HandNext
  PROVE  ReachedWhenVacant'
<1> USE DEF artifactVars, remoteVars, historyVars
<1>1. CASE leadsTo'["base"] = leadsTo["base"] /\ vacant \subseteq vacant'
  BY <1>1 DEF ReachedWhenVacant
<1>2. CASE JobEnds \/ LoadLate \/ OtherJob \/ RemoveDaily
  BY <1>1, <1>2 DEF JobEnds, LoadLate, OtherJob, RemoveDaily
<1>3. CASE DagPromotes
  <2>1. leadsTo'["base"] = "daily"
    BY <1>3 DEF DagPromotes, Links
  <2> QED BY <2>1 DEF ReachedWhenVacant, OwnDir
<1>4. ASSUME NEW s \in Scripts,
             \/ StartScript(s) \/ KillScript(s) \/ RemoteReady(s) \/ WipeRoot(s)
             \/ SubmitJob(s) \/ Poll(s) \/ Verify(s) \/ PullBundle(s) \/ PullSteps(s)
             \/ Manifest(s) \/ Backup(s) \/ LinkNew(s) \/ Reload(s)
      PROVE  ReachedWhenVacant'
  BY <1>1, <1>4 DEF StartScript, KillScript, RemoteReady, WipeRoot, SubmitJob, Poll, Verify,
                    PullBundle, PullSteps, Manifest, Backup, LinkNew, Reload
<1>5. ASSUME NEW s \in Scripts, Move(s)
      PROVE  ReachedWhenVacant'
  <2>0. /\ leadsTo \in [Links -> Targets] /\ "base" \in Links
        /\ \A c \in DOMAIN MoveOf : MoveOf[c] \in Links
    BY DEF HandTypeOK, Links, MoveOf
  <2>1. PICK c \in DOMAIN MoveOf : LET l == MoveOf[c] IN
          \/ UNCHANGED <<leadsTo, vacant>>
          \/ /\ \/ Replaces(s, l) /\ leadsTo' = [leadsTo EXCEPT ![l] = new[l]]
                \/ UNCHANGED leadsTo
             /\ vacant' = vacant \cup {r \in Scripts :
                                         IF r = s THEN ~Resolves(l) ELSE new[l] = OwnDir[r]}
    BY <1>5 DEF Move
  <2>2. CASE UNCHANGED leadsTo \/ MoveOf[c] # "base"
    BY <1>1, <2>0, <2>1, <2>2
  <2>3. CASE ~UNCHANGED leadsTo /\ MoveOf[c] = "base"
    <3>1. /\ Replaces(s, "base") /\ leadsTo'["base"] = new["base"]
          /\ vacant' = vacant \cup {r \in Scripts :
                                   IF r = s THEN ~Resolves("base") ELSE new["base"] = OwnDir[r]}
      BY <2>0, <2>1, <2>3
    <3>2. ASSUME NEW r \in {"newbase", "model"}, leadsTo'["base"] = OwnDir[r]
          PROVE  r \in vacant'
      <4>1. r \in Scripts /\ r # "pipeline"
        BY DEF Scripts
      <4>2. CASE r = s
        BY <3>1, <4>1, <4>2 DEF Replaces
      <4>3. CASE r # s
        BY <3>1, <3>2, <4>1, <4>3
      <4> QED BY <4>2, <4>3
    <3> QED BY <3>2 DEF ReachedWhenVacant
  <2> QED BY <2>2, <2>3
<1> QED BY <1>2, <1>3, <1>4, <1>5 DEF HandNext, Command

LEMMA HandIndStep == HandInd /\ [HandNext]_handVars => HandInd'
<1> SUFFICES ASSUME HandInd, [HandNext]_handVars PROVE HandInd'
  OBVIOUS
<1> USE DEF HandInd
<1>1. CASE UNCHANGED handVars
  BY <1>1 DEF handVars, artifactVars, remoteVars, historyVars, HandInd, HandTypeOK, HandPlaces,
              LinksSoFar, OriginSoFar, ReachedWhenVacant, Past
<1>2. CASE HandNext
  <2>0. at \in [Scripts -> -2 .. 19] /\ "pipeline" \in Scripts
    BY DEF HandTypeOK, Scripts
  <2>1. ReachedWhenVacant'
    BY <1>2, ReachedStep
  <2>2. ASSUME NEW s \in Scripts,
               \/ StartScript(s) \/ KillScript(s) \/ RemoteReady(s)
               \/ JobEnds \/ LoadLate \/ OtherJob \/ DagPromotes \/ RemoveDaily
        PROVE  HandInd'
    <3>1. at' \in [Scripts -> -2 .. 19] /\ HandPlaces'
      <4>1. CASE StartScript(s) \/ KillScript(s)
        BY <2>0, <4>1, PlacesStep
      <4>2. CASE \/ RemoteReady(s) \/ JobEnds \/ LoadLate
                 \/ OtherJob \/ DagPromotes \/ RemoveDaily
        BY <2>0, <4>2
           DEF RemoteReady, JobEnds, LoadLate, OtherJob, DagPromotes, RemoveDaily, HandPlaces
      <4> QED BY <2>2, <4>1, <4>2
    <3>2. HandTypeOK'
      BY <2>2, <3>1, RemoteTypes, ArtifactTypes
    <3> QED BY <2>1, <2>2, <3>1, <3>2, LinksBesides, OriginBesides
  <2>3. ASSUME NEW s \in Scripts, Command(s)
        PROVE  HandInd'
    <3>1. at' \in [Scripts -> -2 .. 19] /\ HandPlaces'
      BY <2>0, <2>3, CommandSteps, PlacesStep
    <3>2. HandTypeOK'
      BY <2>3, <3>1, RemoteTypes, ArtifactTypes DEF Command
    <3>3. LinksSoFar' /\ OriginSoFar'
      BY <2>3, LinksOwnCommand, LinksOthersCommand, OriginOwnCommand, OriginOthersCommand
    <3> QED BY <2>1, <3>1, <3>2, <3>3
  <2> QED BY <1>2, <2>0, <2>2, <2>3 DEF HandNext
<1> QED BY <1>1, <1>2

(* Whatever other scripts, jobs and DAGs do, however often scripts are     *)
(* killed and started over: a full pipeline nobody disturbed has left its  *)
(* three links and its own bundle, which the backend has loaded if it has  *)
(* loaded any, and the two other scripts reach current_base only where it  *)
(* led nowhere.                                                            *)
THEOREM HandPromotionAlwaysSettles == HandSpec => []HandPromotionSettles
<1>1. HandInd => HandPromotionSettles
  <2> SUFFICES ASSUME HandInd PROVE HandPromotionSettles
    OBVIOUS
  <2>1. leadsTo \in [Links -> Targets]
    BY DEF HandInd, HandTypeOK
  <2>2. ASSUME at["pipeline"] = -1, "pipeline" \notin disturbed
        PROVE  /\ leadsTo["base"] = "warm" /\ leadsTo["eod"] = "warm"
               /\ leadsTo["sim"] = "simulation"
               /\ {loaded["base"], loaded["eod"]} \subseteq {"warm", "none"}
               /\ origin["warm"] = "other" \/ origin["simulation"] = "other" => crowded
    BY <2>2 DEF HandInd, LinksSoFar, OriginSoFar, Past
  <2>3. ASSUME at["pipeline"] = -1, "pipeline" \notin disturbed
        PROVE  leadsTo = [base |-> "warm", eod |-> "warm", sim |-> "simulation"]
    BY <2>1, <2>2, <2>3 DEF Links
  <2> QED BY <2>2, <2>3 DEF HandInd, HandPromotionSettles, ReachedWhenVacant
<1> QED BY HandInitially, HandIndStep, <1>1, PTL DEF HandSpec
============================================================================
