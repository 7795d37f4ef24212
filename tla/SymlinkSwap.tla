---------------------------- MODULE SymlinkSwap ----------------------------
(***************************************************************************)
(* _atomic_symlink() of the NIBI DAGs: every promotion of current_base     *)
(* goes through one shared temporary name, current_base.new, with four     *)
(* system calls and no lock.  The promoters are tasks of different DAGs    *)
(* (daily, base-only, intraday, post-market): Airflow keeps two runs of    *)
(* one DAG apart (max_active_runs=1), not two DAGs.                        *)
(***************************************************************************)
EXTENDS Naturals, FiniteSets

CONSTANTS Promoters,  \* tasks that may be promoting at the same time
          Dirs,       \* bundle directories under model_artifacts/
          NoDir

ASSUME NoDirAssumption == NoDir \notin Dirs

VARIABLES
  link,        \* target of current_base
  tmp,         \* target of current_base.new, NoDir when the name is free
  dirs,        \* the bundle directories that exist (with a manifest)
  pc,          \* where each promoter is inside _atomic_symlink()
  target,      \* the directory each promoter is promoting
  verified,    \* history: directories a promoter found a manifest in
  overlapped   \* history: promoters whose call overlapped with another one

vars == <<link, tmp, dirs, pc, target, verified, overlapped>>

InCall == {"look", "unlink", "symlink", "rename"}
Active(p) == pc[p] \in InCall

TypeOK == /\ link \in Dirs \cup {NoDir}
          /\ tmp \in Dirs \cup {NoDir}
          /\ dirs \subseteq Dirs
          /\ pc \in [Promoters -> InCall \cup {"idle", "done", "failed"}]
          /\ target \in [Promoters -> Dirs \cup {NoDir}]
          /\ verified \subseteq Dirs
          /\ overlapped \subseteq Promoters
          /\ \A p \in Promoters : pc[p] # "idle" => target[p] \in Dirs

Init == /\ link = NoDir
        /\ tmp = NoDir
        /\ dirs = {}
        /\ pc = [p \in Promoters |-> "idle"]
        /\ target = [p \in Promoters |-> NoDir]
        /\ verified = {}
        /\ overlapped = {}
----------------------------------------------------------------------------
(* The bundle directories: rsync_artifacts_back creates them, its rmtree   *)
(* and the seven-day cleanup of promote_model remove them, whoever points  *)
(* at them.                                                                *)

CreateDir(d) == /\ dirs' = dirs \cup {d}
                /\ UNCHANGED <<link, tmp, pc, target, verified, overlapped>>

RemoveDir(d) == /\ d \in dirs
                /\ dirs' = dirs \ {d}
                /\ UNCHANGED <<link, tmp, pc, target, verified, overlapped>>

\* Mutant of Enter: the promoter keeps the target of its previous call.
EnterStaleTarget(p, d) ==
  /\ ~Active(p)
  /\ d \in dirs
  /\ pc' = [pc EXCEPT ![p] = "look"]
  /\ verified' = verified \cup {d}
  /\ overlapped' = overlapped \cup {q \in Promoters : Active(q)} \cup {p}
  /\ UNCHANGED <<link, tmp, dirs, target>>

(* task_promote_model: refuse a bundle without a manifest, then enter      *)
(* _atomic_symlink().                                                      *)
Enter(p, d) ==
  /\ ~Active(p)
  /\ d \in dirs
  /\ pc' = [pc EXCEPT ![p] = "look"]
  /\ target' = [target EXCEPT ![p] = d]
  /\ verified' = verified \cup {d}
  /\ LET others == {q \in Promoters \ {p} : Active(q)}
     IN overlapped' = IF others = {} THEN overlapped \ {p}
                      ELSE overlapped \cup others \cup {p}
  /\ UNCHANGED <<link, tmp, dirs>>

\* Mutant of TmpSeen: a dangling left-over is not noticed.
TmpSeenExistsOnly == tmp # NoDir /\ tmp \in dirs

\* Path.exists() follows the link, Path.is_symlink() does not.
TmpSeen == (tmp # NoDir /\ tmp \in dirs) \/ tmp # NoDir

\* Mutant of Look: a temporary link that is already there is used as it is.
LookReusingTmp(p) ==
  /\ pc[p] = "look"
  /\ pc' = [pc EXCEPT ![p] = IF TmpSeen THEN "rename" ELSE "symlink"]
  /\ UNCHANGED <<link, tmp, dirs, target, verified, overlapped>>

(* if tmp.exists() or tmp.is_symlink()                                     *)
Look(p) ==
  /\ pc[p] = "look"
  /\ pc' = [pc EXCEPT ![p] = IF TmpSeen THEN "unlink" ELSE "symlink"]
  /\ UNCHANGED <<link, tmp, dirs, target, verified, overlapped>>

(* tmp.unlink(): FileNotFoundError when another promoter was faster.       *)
Unlink(p) ==
  /\ pc[p] = "unlink"
  /\ pc' = [pc EXCEPT ![p] = IF tmp = NoDir THEN "failed" ELSE "symlink"]
  /\ tmp' = NoDir
  /\ UNCHANGED <<link, dirs, target, verified, overlapped>>

(* tmp.symlink_to(target.name): FileExistsError when the name is taken.    *)
MakeTmp(p) ==
  /\ pc[p] = "symlink"
  /\ \/ /\ tmp = NoDir
        /\ tmp' = target[p]
        /\ pc' = [pc EXCEPT ![p] = "rename"]
     \/ /\ tmp # NoDir
        /\ pc' = [pc EXCEPT ![p] = "failed"]
        /\ UNCHANGED tmp
  /\ UNCHANGED <<link, dirs, target, verified, overlapped>>

\* Mutant of Rename: rm current_base first, then move the new link in place.
RenameAfterRemoving(p) ==
  /\ pc[p] = "rename"
  /\ \/ link # NoDir /\ link' = NoDir /\ UNCHANGED <<tmp, pc>>
     \/ /\ link = NoDir /\ tmp # NoDir
        /\ link' = tmp
        /\ tmp' = NoDir
        /\ pc' = [pc EXCEPT ![p] = "done"]
  /\ UNCHANGED <<dirs, target, verified, overlapped>>

(* tmp.rename(symlink): moves whatever the temporary name points to now.   *)
Rename(p) ==
  /\ pc[p] = "rename"
  /\ \/ /\ tmp # NoDir
        /\ link' = tmp
        /\ tmp' = NoDir
        /\ pc' = [pc EXCEPT ![p] = "done"]
     \/ /\ tmp = NoDir
        /\ pc' = [pc EXCEPT ![p] = "failed"]
        /\ UNCHANGED <<link, tmp>>
  /\ UNCHANGED <<dirs, target, verified, overlapped>>

(* execution_timeout, or a worker that dies, between two of the calls.     *)
Kill(p) ==
  /\ Active(p)
  /\ pc' = [pc EXCEPT ![p] = "idle"]
  /\ UNCHANGED <<link, tmp, dirs, target, verified, overlapped>>

Step(p) == Look(p) \/ Unlink(p) \/ MakeTmp(p) \/ Rename(p)

Next == \/ \E d \in Dirs : CreateDir(d) \/ RemoveDir(d)
        \/ \E p \in Promoters : Step(p) \/ Kill(p) \/ \E d \in Dirs : Enter(p, d)

Spec == Init /\ [][Next]_vars
----------------------------------------------------------------------------
(* A promotion fails with an OS error only when another promotion ran      *)
(* during it.  A promotion that was killed half-way earlier leaves         *)
(* current_base.new behind, possibly dangling by now, and must never block *)
(* the ones that come after it.                                            *)
FailureNeedsOverlap ==
  \A p \in Promoters : pc[p] = "failed" => p \in overlapped

(* A promotion that no other one overlapped publishes its own bundle, not  *)
(* what somebody left under the temporary name.                            *)
SoloPublishesItsOwn ==
  [][\A p \in Promoters :
        (pc[p] = "rename" /\ pc'[p] = "done" /\ p \notin overlapped)
          => link' = target[p]]_vars

(* Readers see a register: the four calls of any number of overlapping and *)
(* killed promoters never unset current_base, and never point it at a      *)
(* directory nobody checked.                                               *)
Register == INSTANCE LinkRegister
              WITH link <- link, verified <- verified, Dirs <- Dirs, NoDir <- NoDir

(* The implementation: every behaviour of the swap is one of the register. *)
RegisterSpec == Register!Spec
============================================================================
