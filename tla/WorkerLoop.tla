----------------------------- MODULE WorkerLoop -----------------------------
(***************************************************************************)
(* When the worker runs: the handlers that queue work and then nudge, the  *)
(* one-slot channel the nudge goes through, the ticker, the drain loop, and *)
(* what ends them.  What an upload contains is left out: it is completed or *)
(* failed.  Tracker has the other half.                                    *)
(***************************************************************************)
EXTENDS Integers, SequencesExt

CONSTANTS
  MaxUploads,     \* bound: uploads that arrive
  MaxHandlers,    \* bound: handlers between their write and their nudge
  MaxFaults,      \* bound: statements that fail while the service is running
  MaxStops,       \* bound: times the process ends
  Faulty          \* the steps whose statement may fail

ASSUME BoundsAssumption == {MaxUploads, MaxHandlers, MaxFaults, MaxStops} \subseteq Nat

Ids  == 1..MaxUploads
NoId == 0

VARIABLES
  status,     \* uploads.status, "absent" before the row exists
  rereads,    \* the uploads whose reprocess_at is set, in the order of it
  nudge,      \* the channel holds a value
  owed,       \* handlers that have written but not yet called Notify
  worker,     \* where the worker goroutine is; "down" with the process
  cur,        \* the upload it has claimed
  cancelled,  \* SIGTERM has arrived
  faults,     \* statements that failed so far
  stops       \* times the process ended so far

stored  == <<status, rereads>>
process == <<nudge, owed, worker, cur, cancelled>>
counts  == <<faults, stops>>
vars    == <<stored, process, counts>>

Steps == {"down", "requeue", "drain", "process", "fail", "reread", "rereading",
          "finish", "idle", "returned"}

TypeOK ==
  /\ status \in [Ids -> {"absent", "pending", "processing", "completed", "failed"}]
  /\ rereads \in Seq(Ids) /\ IsInjective(rereads)
  /\ nudge \in BOOLEAN
  /\ owed \in 0..MaxHandlers
  /\ worker \in Steps
  /\ cur \in Ids \cup {NoId}
  /\ cancelled \in BOOLEAN
  /\ faults \in 0..MaxFaults
  /\ stops \in 0..MaxStops

Pending   == {u \in Ids : status[u] = "pending"}
Existing  == {u \in Ids : status[u] # "absent"}
Completed == {u \in Ids : status[u] = "completed"}

Init ==
  /\ status = [u \in Ids |-> "absent"]
  /\ rereads = <<>>
  /\ nudge = FALSE
  /\ owed = 0
  /\ worker = "down"
  /\ cur = NoId
  /\ cancelled = FALSE
  /\ faults = 0
  /\ stops = 0

-----------------------------------------------------------------------------
(* Handlers: the row first, the nudge after *)

CreateUpload(u) ==
  /\ worker # "down" /\ owed < MaxHandlers
  /\ Existing = 1..(u - 1)
  /\ status' = [status EXCEPT ![u] = "pending"]
  /\ owed' = owed + 1
  /\ UNCHANGED <<rereads, nudge, worker, cur, cancelled, counts>>

\* One request flags them all at the same moment, so they wait in the order
\* of their ids.  (Requests within the same second are told apart here; Tracker
\* has the moments.)
Flag(uploads) ==
  \E new \in SetToSeqs(uploads) :
    /\ \A i, j \in DOMAIN new : i < j => new[i] < new[j]
    /\ rereads' = rereads \o new

\* Mutant: the condition that reprocess_at is NULL is missing.
MarkForReprocess_Again ==
  /\ worker # "down" /\ owed < MaxHandlers
  /\ Completed # {} /\ Len(rereads) <= MaxUploads
  /\ Flag(Completed)
  /\ owed' = owed + 1
  /\ UNCHANGED <<status, nudge, worker, cur, cancelled, counts>>

\* Only a request that flags something nudges.
MarkForReprocess ==
  LET unflagged == Completed \ Range(rereads)
  IN  /\ worker # "down" /\ owed < MaxHandlers
      /\ unflagged # {}
      /\ Flag(unflagged)
      /\ owed' = owed + 1
      /\ UNCHANGED <<status, nudge, worker, cur, cancelled, counts>>

\* Mutant: the channel has no buffer, so a nudge reaches only a sleeping worker.
Notify_Unbuffered ==
  /\ owed > 0
  /\ owed' = owed - 1
  /\ nudge' = (nudge \/ worker = "idle")
  /\ UNCHANGED <<stored, worker, cur, cancelled, counts>>

\* A send that finds the channel full is dropped.
Notify ==
  /\ owed > 0
  /\ owed' = owed - 1
  /\ nudge' = TRUE
  /\ UNCHANGED <<stored, worker, cur, cancelled, counts>>

-----------------------------------------------------------------------------
(* The process *)

Start ==
  /\ worker = "down"
  /\ worker' = "requeue"
  /\ UNCHANGED <<stored, nudge, owed, cur, cancelled, counts>>

Shutdown ==
  /\ worker # "down" /\ ~cancelled /\ stops < MaxStops
  /\ cancelled' = TRUE
  /\ UNCHANGED <<stored, nudge, owed, worker, cur, counts>>

Exit ==
  /\ worker # "down"
  /\ stops < MaxStops
  /\ stops' = stops + 1
  /\ worker' = "down"
  /\ nudge' = FALSE
  /\ owed' = 0
  /\ cur' = NoId
  /\ cancelled' = FALSE
  /\ UNCHANGED <<stored, faults>>

\* main returns once the worker has.
ExitAfterShutdown == cancelled /\ worker = "returned" /\ Exit

-----------------------------------------------------------------------------
(* The worker *)

Go(from, to) ==
  /\ worker = from
  /\ worker' = to
  /\ UNCHANGED <<nudge, owed, cancelled>>

\* A statement that succeeds.
Succeeds(from, to) == ~cancelled /\ Go(from, to) /\ UNCHANGED counts

\* Mutant: interrupted uploads are left as they are.
RequeueProcessing_Skipped ==
  Succeeds("requeue", "drain") /\ UNCHANGED <<stored, cur>>

RequeueProcessing ==
  /\ Succeeds("requeue", "drain")
  /\ status' = [u \in Ids |-> IF status[u] = "processing" THEN "pending"
                                                          ELSE status[u]]
  /\ UNCHANGED <<rereads, cur>>

ClaimNextPending ==
  /\ Succeeds("drain", "process")
  /\ Pending # {}
  /\ cur' = CHOOSE u \in Pending : \A v \in Pending : u <= v
  /\ status' = [status EXCEPT ![cur'] = "processing"]
  /\ UNCHANGED rereads

NothingPending ==
  /\ Succeeds("drain", "reread")
  /\ Pending = {}
  /\ UNCHANGED <<stored, cur>>

Complete ==
  /\ Succeeds("process", "drain")
  /\ status' = [status EXCEPT ![cur] = "completed"]
  /\ cur' = NoId
  /\ UNCHANGED rereads

Refuse == Succeeds("process", "fail") /\ UNCHANGED <<stored, cur>>

FailUpload ==
  /\ Succeeds("fail", "drain")
  /\ status' = [status EXCEPT ![cur] = "failed"]
  /\ cur' = NoId
  /\ UNCHANGED rereads

ClaimNextReprocess ==
  /\ Succeeds("reread", "rereading")
  /\ rereads # <<>>
  /\ cur' = Head(rereads)
  /\ UNCHANGED stored

NothingFlagged ==
  /\ Succeeds("reread", "idle")
  /\ rereads = <<>>
  /\ UNCHANGED <<stored, cur>>

Reread == Succeeds("rereading", "finish") /\ UNCHANGED <<stored, cur>>

\* Mutant: a reread is put back at the end of the queue.
FinishReprocess_Retries ==
  /\ Succeeds("finish", "drain")
  /\ rereads' = Append(RemoveFirst(rereads, cur), cur)
  /\ cur' = NoId
  /\ UNCHANGED status

FinishReprocess ==
  /\ Succeeds("finish", "drain")
  /\ rereads' = RemoveFirst(rereads, cur)
  /\ cur' = NoId
  /\ UNCHANGED status

\* The select of Run.
WakeByNudge ==
  /\ worker = "idle" /\ nudge
  /\ worker' = "drain"
  /\ nudge' = FALSE
  /\ UNCHANGED <<stored, owed, cur, cancelled, counts>>

WakeByTicker == Succeeds("idle", "drain") /\ UNCHANGED <<stored, cur>>

Return ==
  /\ cancelled /\ Go("idle", "returned") /\ UNCHANGED <<stored, cur, counts>>

\* Mutant: the failure of an upload is recorded again until it sticks.
AfterError_RetriesFail ==
  [requeue   |-> "returned", drain     |-> "idle",
   process   |-> "fail",     fail      |-> "fail",
   reread    |-> "idle",     rereading |-> "finish",
   finish    |-> "idle"]

\* Where the worker goes when a statement of a step fails.
AfterError == [requeue   |-> "returned", drain     |-> "idle",
               process   |-> "fail",     fail      |-> "idle",
               reread    |-> "idle",     rereading |-> "finish",
               finish    |-> "idle"]

ASSUME FaultyAssumption == Faulty \subseteq DOMAIN AfterError

Fails(step) ==
  /\ Go(step, AfterError[step])
  /\ cur' = IF AfterError[step] \in {"fail", "finish"} THEN cur ELSE NoId
  /\ UNCHANGED stored

\* The worker's context is cancelled: every statement fails.
FailsCancelled ==
  /\ cancelled
  /\ \E step \in DOMAIN AfterError : Fails(step)
  /\ UNCHANGED counts

\* A statement fails for any other reason.
FailsByFault ==
  /\ ~cancelled /\ faults < MaxFaults
  /\ \E step \in Faulty : Fails(step)
  /\ faults' = faults + 1
  /\ UNCHANGED stops

WorkerStep ==
  \/ RequeueProcessing \/ ClaimNextPending \/ NothingPending
  \/ Complete \/ Refuse \/ FailUpload
  \/ ClaimNextReprocess \/ NothingFlagged \/ Reread \/ FinishReprocess
  \/ WakeByNudge \/ WakeByTicker \/ Return \/ FailsCancelled

Next ==
  \/ \E u \in Ids : CreateUpload(u)
  \/ MarkForReprocess \/ Notify
  \/ Start \/ Shutdown \/ Exit
  \/ WorkerStep \/ FailsByFault

\* The worker goroutine and the handlers run whenever they can, a cancelled
\* process ends, and one that ended is started again (restart: unless-stopped).
Fairness ==
  /\ WF_vars(WorkerStep)
  /\ WF_vars(Notify)
  /\ WF_vars(ExitAfterShutdown)
  /\ WF_vars(Start)

Spec == Init /\ [][Next]_vars /\ Fairness

-----------------------------------------------------------------------------

\* The nudge alone loses no work, and the ticker only makes up for failures:
\* whenever the worker sleeps, no nudge is in the channel and no handler is
\* about to send one, there is nothing to do, so long as no statement failed.
\* (An upload whose failure could not be recorded stays "processing" and is not
\* work anybody would find.)
NoLostWakeup ==
  (worker = "idle" /\ ~cancelled /\ ~nudge /\ owed = 0 /\ faults = 0)
    => Pending = {} /\ rereads = <<>>

\* Every reread asked for is taken off the queue, although new uploads always
\* go first.
EveryRereadTaken ==
  \A u \in Ids : u \in Range(rereads) ~> u \notin Range(rereads)

\* A cancelled worker comes to rest by itself, wherever it was interrupted.
ShutdownReturns == cancelled ~> worker \in {"returned", "down"}

\* While a process runs, nothing stays queued for ever.
DrainsWhileRunning ==
  \A u \in Ids : status[u] = "pending" ~> status[u] # "pending" \/ worker = "down"

\* What the queue promises, seen through the worker's claims.
Queue ==
  INSTANCE UploadQueue WITH
    outcome <- [u \in Ids |-> IF status[u] \in {"pending", "processing"}
                                THEN "queued" ELSE status[u]]

ImplementsQueue == Queue!Spec
=============================================================================
