---------------------------- MODULE UploadQueue ----------------------------
(***************************************************************************)
(* What the queue promises whoever uploads: an accepted upload is decided  *)
(* once, for good, and before long.  Nothing here knows of a worker, of    *)
(* claims, nudges or restarts; WorkerLoop is shown to implement it.        *)
(***************************************************************************)
CONSTANT Ids

VARIABLE outcome      \* "absent", "queued", "completed" or "failed"

TypeOK == outcome \in [Ids -> {"absent", "queued", "completed", "failed"}]

Init == outcome = [u \in Ids |-> "absent"]

Accept(u) ==
  /\ outcome[u] = "absent"
  /\ outcome' = [outcome EXCEPT ![u] = "queued"]

Decide(u) ==
  /\ outcome[u] = "queued"
  /\ \E how \in {"completed", "failed"} : outcome' = [outcome EXCEPT ![u] = how]

Next == \E u \in Ids : Accept(u) \/ Decide(u)

Safety == Init /\ [][Next]_outcome

Spec == Safety /\ \A u \in Ids : WF_outcome(Decide(u))
=============================================================================
