---------------------------- MODULE LinkRegister ----------------------------
(***************************************************************************)
(* What readers of model_artifacts/current_base are promised: a pointer    *)
(* that, from one step to the next, either stays or moves to a bundle      *)
(* directory that some promotion has checked, and that is never taken away *)
(* once it is there.                                                       *)
(***************************************************************************)
CONSTANTS Dirs,   \* the bundle directories under model_artifacts/
          NoDir   \* "there is no such link"

VARIABLES link,     \* the directory current_base points to
          verified  \* the directories some promotion has checked

vars == <<link, verified>>

Init == link = NoDir /\ verified = {}

\* A promotion finds models/model_manifest.json in d.
Verify(d) == /\ verified' = verified \cup {d}
             /\ UNCHANGED link

\* The pointer moves, in one step, to a directory that was checked.
Publish(d) == /\ d \in verified
              /\ link' = d
              /\ UNCHANGED verified

Next == \E d \in Dirs : Verify(d) \/ Publish(d)

Spec == Init /\ [][Next]_vars
=============================================================================
