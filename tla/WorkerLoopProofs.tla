-------------------------- MODULE WorkerLoopProofs --------------------------
(***************************************************************************)
(* Proofs about WorkerLoop, for any number of uploads, handlers, failures  *)
(* and stops: no upload is queued twice for a reread, no nudge is lost, and *)
(* every step of the worker is a step of the queue it implements, or none. *)
(***************************************************************************)
EXTENDS WorkerLoop, FiniteSetTheorems, WellFoundedInduction, TLAPS

Statuses == {"absent", "pending", "processing", "completed", "failed"}

\* TypeOK without the rereads and the bounds.
Typed ==
  /\ status \in [Ids -> Statuses]
  /\ nudge \in BOOLEAN /\ owed \in Nat /\ faults \in Nat
  /\ worker \in Steps
  /\ cancelled \in BOOLEAN

\* The upload the worker decides about is claimed: no handler and no failed
\* statement takes it away.
Claimed ==
  worker \in {"process", "fail"} => cur \in Ids /\ status[cur] = "processing"

\* Nobody is about to wake the worker.
Undisturbed == ~cancelled /\ ~nudge /\ owed = 0 /\ faults = 0

\* Looking for rereads, the worker has found no upload; and what it found in
\* neither queue is still not there.
Looked ==
  Undisturbed =>
    /\ worker = "reread" => Pending = {}
    /\ worker = "idle"   => Pending = {} /\ rereads = <<>>

IInv == Typed /\ Claimed /\ Looked

-----------------------------------------------------------------------------

\* A set of numbers has a least one, so the claim finds the oldest upload.
LEMMA OldestClaimed ==
  ASSUME Pending # {}
  PROVE  (CHOOSE u \in Pending : \A v \in Pending : u <= v) \in Pending
<1>1. Pending \subseteq Nat
  BY DEF Ids, Pending
<1> DEFINE less == {pair \in Nat \X Nat : pair[1] < pair[2]}
<1>2. IsWellFoundedOn(less, Nat)
  BY NatLessThanWellFounded, Zenon DEF OpToRel
<1>3. PICK u \in Pending : \A v \in Pending : <<v, u>> \notin less
  <2> HIDE DEF less
  <2> QED BY <1>1, <1>2, WFMin
<1>4. ASSUME NEW v \in Pending PROVE u <= v
  <2>1. u \in Nat /\ v \in Nat
    BY <1>1
  <2>2. <<v, u>> \notin less
    BY <1>3
  <2> QED BY <2>1, <2>2
<1> QED BY <1>4

LEMMA InitKeeps == Init => IInv
<1> SUFFICES ASSUME Init PROVE IInv
  OBVIOUS
<1>1. Typed
  BY DEF Init, Typed, Steps, Statuses
<1>2. Claimed /\ Looked
  BY DEF Init, Claimed, Looked
<1> QED BY <1>1, <1>2 DEF IInv

\* What a step does that is no failure and writes no status but by name: one
\* case for each action, and under it one for each part of the invariant.
LEMMA NextKeeps == IInv /\ [Next]_vars => IInv'
<1> SUFFICES ASSUME IInv, [Next]_vars PROVE IInv'
  OBVIOUS
<1>1. Typed /\ Claimed /\ Looked
  BY DEF IInv
<1> USE DEF stored, process, counts, Succeeds, Go, Existing, Pending, Completed
<1>2. ASSUME NEW u \in Ids, CreateUpload(u) PROVE IInv'
  <2>1. status[u] = "absent"
    BY <1>2 DEF CreateUpload, Ids
  <2>2. Typed' /\ Looked'
    BY <1>1, <1>2 DEF CreateUpload, Typed, Looked, Undisturbed, Statuses
  <2>3. Claimed'
    BY <1>1, <1>2, <2>1 DEF CreateUpload, Typed, Claimed
  <2> QED BY <2>2, <2>3 DEF IInv
<1>3. CASE MarkForReprocess
  <2>1. UNCHANGED <<status, nudge, worker, cur, cancelled, counts>> /\ owed' = owed + 1
    BY <1>3, Zenon DEF MarkForReprocess
  <2>2. Typed' /\ Claimed' /\ Looked'
    BY <1>1, <2>1 DEF Typed, Claimed, Looked, Undisturbed
  <2> QED BY <2>2 DEF IInv
<1>4. CASE Notify
  <2>1. Typed'
    BY <1>1, <1>4 DEF Notify, Typed, Steps, Statuses
  <2>2. Claimed'
    BY <1>1, <1>4 DEF Notify, Typed, Claimed
  <2>3. Looked'
    BY <1>1, <1>4 DEF Notify, Typed, Looked, Undisturbed
  <2> QED BY <2>1, <2>2, <2>3 DEF IInv
<1>5. CASE Start
  <2>1. Typed'
    BY <1>1, <1>5 DEF Start, Typed, Steps, Statuses
  <2>2. Claimed'
    BY <1>1, <1>5 DEF Start, Typed, Claimed
  <2>3. Looked'
    BY <1>1, <1>5 DEF Start, Typed, Looked, Undisturbed
  <2> QED BY <2>1, <2>2, <2>3 DEF IInv
<1>6. CASE Shutdown
  <2>1. Typed'
    BY <1>1, <1>6 DEF Shutdown, Typed, Steps, Statuses
  <2>2. Claimed'
    BY <1>1, <1>6 DEF Shutdown, Typed, Claimed
  <2>3. Looked'
    BY <1>1, <1>6 DEF Shutdown, Typed, Looked, Undisturbed
  <2> QED BY <2>1, <2>2, <2>3 DEF IInv
<1>7. CASE Exit
  <2>1. Typed'
    BY <1>1, <1>7 DEF Exit, Typed, Steps, Statuses
  <2>2. Claimed'
    BY <1>1, <1>7 DEF Exit, Typed, Claimed
  <2>3. Looked'
    BY <1>1, <1>7 DEF Exit, Typed, Looked, Undisturbed
  <2> QED BY <2>1, <2>2, <2>3 DEF IInv
<1>8. CASE RequeueProcessing
  <2>1. Typed'
    BY <1>1, <1>8 DEF RequeueProcessing, Typed, Steps, Statuses
  <2>2. Claimed'
    BY <1>1, <1>8 DEF RequeueProcessing, Typed, Claimed
  <2>3. Looked'
    BY <1>1, <1>8 DEF RequeueProcessing, Typed, Looked, Undisturbed
  <2> QED BY <2>1, <2>2, <2>3 DEF IInv
<1>9. CASE NothingPending
  <2>1. Typed'
    BY <1>1, <1>9 DEF NothingPending, Typed, Steps, Statuses
  <2>2. Claimed'
    BY <1>1, <1>9 DEF NothingPending, Typed, Claimed
  <2>3. Looked'
    BY <1>1, <1>9 DEF NothingPending, Typed, Looked, Undisturbed
  <2> QED BY <2>1, <2>2, <2>3 DEF IInv
<1>10. CASE Refuse
  <2>1. Typed'
    BY <1>1, <1>10 DEF Refuse, Typed, Steps, Statuses
  <2>2. Claimed'
    BY <1>1, <1>10 DEF Refuse, Typed, Claimed
  <2>3. Looked'
    BY <1>1, <1>10 DEF Refuse, Typed, Looked, Undisturbed
  <2> QED BY <2>1, <2>2, <2>3 DEF IInv
<1>11. CASE ClaimNextReprocess
  <2>1. Typed'
    BY <1>1, <1>11 DEF ClaimNextReprocess, Typed, Steps, Statuses
  <2>2. Claimed'
    BY <1>1, <1>11 DEF ClaimNextReprocess, Typed, Claimed
  <2>3. Looked'
    BY <1>1, <1>11 DEF ClaimNextReprocess, Typed, Looked, Undisturbed
  <2> QED BY <2>1, <2>2, <2>3 DEF IInv
<1>12. CASE NothingFlagged
  <2>1. Typed'
    BY <1>1, <1>12 DEF NothingFlagged, Typed, Steps, Statuses
  <2>2. Claimed'
    BY <1>1, <1>12 DEF NothingFlagged, Typed, Claimed
  <2>3. Looked'
    BY <1>1, <1>12 DEF NothingFlagged, Typed, Looked, Undisturbed
  <2> QED BY <2>1, <2>2, <2>3 DEF IInv
<1>13. CASE Reread
  <2>1. Typed'
    BY <1>1, <1>13 DEF Reread, Typed, Steps, Statuses
  <2>2. Claimed'
    BY <1>1, <1>13 DEF Reread, Typed, Claimed
  <2>3. Looked'
    BY <1>1, <1>13 DEF Reread, Typed, Looked, Undisturbed
  <2> QED BY <2>1, <2>2, <2>3 DEF IInv
<1>14. CASE FinishReprocess
  <2>1. Typed'
    BY <1>1, <1>14 DEF FinishReprocess, Typed, Steps, Statuses
  <2>2. Claimed'
    BY <1>1, <1>14 DEF FinishReprocess, Typed, Claimed
  <2>3. Looked'
    BY <1>1, <1>14 DEF FinishReprocess, Typed, Looked, Undisturbed
  <2> QED BY <2>1, <2>2, <2>3 DEF IInv
<1>15. CASE WakeByNudge
  <2>1. Typed'
    BY <1>1, <1>15 DEF WakeByNudge, Typed, Steps, Statuses
  <2>2. Claimed'
    BY <1>1, <1>15 DEF WakeByNudge, Typed, Claimed
  <2>3. Looked'
    BY <1>1, <1>15 DEF WakeByNudge, Typed, Looked, Undisturbed
  <2> QED BY <2>1, <2>2, <2>3 DEF IInv
<1>16. CASE WakeByTicker
  <2>1. Typed'
    BY <1>1, <1>16 DEF WakeByTicker, Typed, Steps, Statuses
  <2>2. Claimed'
    BY <1>1, <1>16 DEF WakeByTicker, Typed, Claimed
  <2>3. Looked'
    BY <1>1, <1>16 DEF WakeByTicker, Typed, Looked, Undisturbed
  <2> QED BY <2>1, <2>2, <2>3 DEF IInv
<1>17. CASE Return
  <2>1. Typed'
    BY <1>1, <1>17 DEF Return, Typed, Steps, Statuses
  <2>2. Claimed'
    BY <1>1, <1>17 DEF Return, Typed, Claimed
  <2>3. Looked'
    BY <1>1, <1>17 DEF Return, Typed, Looked, Undisturbed
  <2> QED BY <2>1, <2>2, <2>3 DEF IInv
<1>18. CASE Complete
  <2>1. Typed'
    BY <1>1, <1>18 DEF Complete, Typed, Claimed, Steps, Statuses
  <2>2. Claimed' /\ Looked'
    BY <1>18 DEF Complete, Claimed, Looked
  <2> QED BY <2>1, <2>2 DEF IInv
<1>19. CASE FailUpload
  <2>1. Typed'
    BY <1>1, <1>19 DEF FailUpload, Typed, Claimed, Steps, Statuses
  <2>2. Claimed' /\ Looked'
    BY <1>19 DEF FailUpload, Claimed, Looked
  <2> QED BY <2>1, <2>2 DEF IInv
<1>20. CASE ClaimNextPending
  <2>1. cur' \in Pending
    BY <1>20, OldestClaimed DEF ClaimNextPending
  <2>2. Typed' /\ Claimed'
    BY <1>1, <1>20, <2>1 DEF ClaimNextPending, Typed, Claimed, Steps, Statuses
  <2>3. Looked'
    BY <1>20 DEF ClaimNextPending, Looked
  <2> QED BY <2>2, <2>3 DEF IInv
<1>21. ASSUME NEW step \in DOMAIN AfterError, Fails(step),
             \/ cancelled /\ UNCHANGED counts
             \/ faults' = faults + 1
      PROVE  IInv'
  <2>1. Typed'
    BY <1>1, <1>21 DEF Fails, AfterError, Typed, Steps
  <2>2. Claimed'
    BY <1>1, <1>21 DEF Fails, AfterError, Claimed
  <2>3. Looked'
    BY <1>1, <1>21 DEF Fails, Typed, Looked, Undisturbed
  <2> QED BY <2>1, <2>2, <2>3 DEF IInv
<1>22. CASE FailsCancelled \/ FailsByFault
  BY <1>21, <1>22, FaultyAssumption DEF FailsCancelled, FailsByFault
<1>23. CASE UNCHANGED vars
  BY <1>1, <1>23 DEF IInv, vars, Typed, Claimed, Looked, Undisturbed
<1> QED
  BY <1>2, <1>3, <1>4, <1>5, <1>6, <1>7, <1>8, <1>9, <1>10, <1>11, <1>12, <1>13, <1>14, <1>15, <1>16, <1>17, <1>18, <1>19, <1>20, <1>22, <1>23
     DEF Next, WorkerStep

LEMMA Invariant == Spec => []IInv
<1> QED BY InitKeeps, NextKeeps, PTL DEF Spec

-----------------------------------------------------------------------------
(* The rereads, and the bounds *)

Queued  == rereads \in Seq(Ids) /\ IsInjective(rereads)
Bounded ==
  /\ cur \in Ids \cup {NoId}
  /\ owed \in 0..MaxHandlers
  /\ faults \in 0..MaxFaults
  /\ stops \in 0..MaxStops

\* Uploads that wait for nothing are put at the end of the queue, each once.
LEMMA FlagQueuesOnce ==
  ASSUME Queued, NEW uploads \in SUBSET Ids, uploads \cap Range(rereads) = {},
         Flag(uploads)
  PROVE  Queued'
<1>1. PICK new \in SetToSeqs(uploads) : rereads' = rereads \o new
  BY DEF Flag
<1>2. Cardinality(uploads) \in Nat
  <2>1. IsFiniteSet(Ids)
    BY BoundsAssumption, FS_Interval DEF Ids
  <2>2. IsFiniteSet(uploads)
    BY <2>1, FS_Subset
  <2> QED BY <2>2, FS_CardinalityType
<1>3. /\ new \in [1..Cardinality(uploads) -> uploads]
      /\ \A i, j \in 1..Cardinality(uploads) : i # j => new[i] # new[j]
  BY <1>1 DEF SetToSeqs
<1>4. /\ new \in Seq(Ids) /\ Len(new) = Cardinality(uploads)
      /\ \A i \in DOMAIN new : new[i] \in uploads
  BY <1>2, <1>3
<1>5. /\ rereads \in Seq(Ids)
      /\ \A i, j \in 1..Len(rereads) : rereads[i] = rereads[j] => i = j
  BY DEF Queued, IsInjective
<1>6. \A i \in 1..Len(rereads) : rereads[i] \notin uploads
  BY <1>5 DEF Range
<1>7. /\ rereads' \in Seq(Ids) /\ Len(rereads') = Len(rereads) + Len(new)
      /\ \A i \in 1..Len(rereads') :
           rereads'[i] = IF i <= Len(rereads) THEN rereads[i] ELSE new[i - Len(rereads)]
  <2>1. rereads \in Seq(Ids) /\ new \in Seq(Ids)
    BY <1>4, <1>5
  <2> QED BY <1>1, <2>1
<1>8. ASSUME NEW i \in 1..Len(rereads'), NEW j \in 1..Len(rereads'),
             rereads'[i] = rereads'[j]
      PROVE  i = j
  <2>1. CASE i <= Len(rereads) /\ j <= Len(rereads)
    BY <1>5, <1>7, <1>8, <2>1
  <2>2. CASE i > Len(rereads) /\ j > Len(rereads)
    <3>1. i - Len(rereads) \in 1..Len(new) /\ j - Len(rereads) \in 1..Len(new)
      BY <1>4, <1>5, <1>7, <2>2
    <3>2. new[i - Len(rereads)] = new[j - Len(rereads)]
      BY <1>5, <1>7, <1>8, <2>2
    <3>3. i - Len(rereads) = j - Len(rereads)
      BY <1>3, <1>4, <3>1, <3>2
    <3> QED BY <1>5, <1>7, <3>3
  <2>3. ASSUME NEW k \in 1..Len(rereads'), k > Len(rereads) PROVE rereads'[k] \in uploads
    <3>1. k - Len(rereads) \in 1..Len(new)
      BY <1>4, <1>5, <1>7, <2>3
    <3>2. new[k - Len(rereads)] \in uploads
      BY <1>4, <3>1
    <3> QED BY <1>5, <1>7, <2>3, <3>2
  <2>4. ASSUME NEW k \in 1..Len(rereads'), k <= Len(rereads) PROVE rereads'[k] \notin uploads
    BY <1>5, <1>6, <1>7, <2>4
  <2> QED BY <1>5, <1>7, <1>8, <2>1, <2>2, <2>3, <2>4
<1> QED BY <1>7, <1>8 DEF Queued, IsInjective

\* Taking an upload off the queue leaves the others where they are, and leaves
\* none of it behind.
LEMMA RemovalLeavesTheRest ==
  ASSUME NEW s \in Seq(Ids), IsInjective(s), NEW u
  PROVE  /\ RemoveFirst(s, u) \in Seq(Ids) /\ IsInjective(RemoveFirst(s, u))
         /\ \A i \in 1..Len(RemoveFirst(s, u)) : RemoveFirst(s, u)[i] # u
<1>1. CASE ~\E i \in 1..Len(s) : s[i] = u
  BY <1>1 DEF RemoveFirst
<1>2. CASE \E i \in 1..Len(s) : s[i] = u
  <2>1. PICK k \in 1..Len(s) : s[k] = u
    BY <1>2
  <2>2. \A i, j \in 1..Len(s) : s[i] = s[j] => i = j
    BY DEF IsInjective
  <2>3. {i \in 1..Len(s) : s[i] = u} = {k}
    BY <2>1, <2>2
  <2>4. Min({k}) = k
    BY DEF Min
  <2>5. SelectInSeq(s, LAMBDA v : v = u) = k
    BY <2>3, <2>4 DEF SelectInSeq
  <2>6. RemoveFirst(s, u) = SubSeq(s, 1, k - 1) \o SubSeq(s, k + 1, Len(s))
    BY <1>2, <2>5 DEF RemoveFirst, RemoveAt
  <2> DEFINE rest == RemoveFirst(s, u)
             from(i) == IF i < k THEN i ELSE i + 1
  <2>7. /\ rest \in Seq(Ids) /\ Len(rest) = Len(s) - 1
        /\ \A i \in 1..Len(rest) : rest[i] = s[from(i)]
    <3>1. /\ SubSeq(s, 1, k - 1) \in Seq(Ids) /\ Len(SubSeq(s, 1, k - 1)) = k - 1
          /\ \A i \in 1..(k - 1) : SubSeq(s, 1, k - 1)[i] = s[i]
      BY <2>1
    <3>2. /\ SubSeq(s, k + 1, Len(s)) \in Seq(Ids)
          /\ Len(SubSeq(s, k + 1, Len(s))) = Len(s) - k
          /\ \A i \in 1..(Len(s) - k) : SubSeq(s, k + 1, Len(s))[i] = s[i + k]
      BY <2>1
    <3>3. PICK a \in Seq(Ids), b \in Seq(Ids) :
            /\ a = SubSeq(s, 1, k - 1) /\ b = SubSeq(s, k + 1, Len(s))
            /\ rest = a \o b
      BY <2>6, <3>1, <3>2
    <3> HIDE DEF rest
    <3>4. /\ rest \in Seq(Ids) /\ Len(rest) = Len(a) + Len(b)
          /\ \A i \in 1..Len(rest) :
               rest[i] = IF i <= Len(a) THEN a[i] ELSE b[i - Len(a)]
      <4>1. a \in Seq(Ids) /\ b \in Seq(Ids)
        OBVIOUS
      <4>2. rest = a \o b
        BY <3>3
      <4> QED BY <4>1, <4>2
    <3>5. /\ Len(a) = k - 1 /\ Len(b) = Len(s) - k
          /\ \A i \in 1..(k - 1) : a[i] = s[i]
          /\ \A i \in 1..(Len(s) - k) : b[i] = s[i + k]
      BY <3>1, <3>2, <3>3
    <3>6. Len(rest) = Len(s) - 1
      BY <2>1, <3>4, <3>5
    <3>7. ASSUME NEW i \in 1..Len(rest) PROVE rest[i] = s[from(i)]
      <4>1. CASE i < k
        <5>1. i \in 1..(k - 1) /\ i <= Len(a)
          BY <2>1, <3>5, <3>6, <4>1
        <5>2. rest[i] = a[i]
          BY <3>4, <5>1
        <5> QED BY <3>5, <4>1, <5>1, <5>2
      <4>2. CASE i >= k
        <5>1. /\ i - Len(a) = i - (k - 1) /\ i - (k - 1) \in 1..(Len(s) - k)
              /\ (i - (k - 1)) + k = i + 1 /\ ~(i <= Len(a))
          BY <2>1, <3>4, <3>5, <3>6, <4>2
        <5>2. rest[i] = b[i - (k - 1)]
          BY <3>4, <5>1
        <5> QED BY <2>1, <3>5, <4>2, <5>1, <5>2
      <4> QED BY <2>1, <4>1, <4>2
    <3> QED BY <3>4, <3>6, <3>7
  <2>8. \A i \in 1..Len(rest) : from(i) \in 1..Len(s) /\ from(i) # k
    BY <2>1, <2>7
  <2>9. \A i, j \in 1..Len(rest) : from(i) = from(j) => i = j
    BY <2>1, <2>7
  <2> HIDE DEF rest, from
  <2>10. \A i, j \in 1..Len(rest) : rest[i] = rest[j] => i = j
    BY <2>2, <2>7, <2>8, <2>9
  <2>11. \A i \in 1..Len(rest) : rest[i] # u
    BY <2>1, <2>2, <2>7, <2>8
  <2>12. IsInjective(rest)
    BY <2>7, <2>10 DEF IsInjective
  <2> QED BY <2>7, <2>11, <2>12 DEF rest
<1> QED BY <1>1, <1>2

LEMMA QueueKeeps == IInv /\ Queued /\ [Next]_vars => Queued'
<1> SUFFICES ASSUME IInv, Queued, [Next]_vars PROVE Queued'
  OBVIOUS
<1> USE DEF stored, process, counts, Succeeds, Go
<1>1. CASE MarkForReprocess
  <2>1. Flag(Completed \ Range(rereads))
    BY <1>1, Zenon DEF MarkForReprocess
  <2>2. Completed \ Range(rereads) \in SUBSET Ids
    BY DEF Completed
  <2> QED BY <2>1, <2>2, FlagQueuesOnce
<1>2. CASE FinishReprocess
  <2>1. rereads' = RemoveFirst(rereads, cur)
    BY <1>2, Zenon DEF FinishReprocess
  <2> QED BY <2>1, RemovalLeavesTheRest DEF Queued
<1>3. CASE UNCHANGED rereads
  BY <1>3 DEF Queued
<1>4. FailsCancelled \/ FailsByFault => UNCHANGED rereads
  BY DEF FailsCancelled, FailsByFault, Fails
<1>5. ASSUME NEW u \in Ids, CreateUpload(u) PROVE UNCHANGED rereads
  BY <1>5 DEF CreateUpload
<1>6. \/ Notify \/ Start \/ Shutdown \/ Exit \/ RequeueProcessing
      \/ ClaimNextPending \/ NothingPending \/ Complete \/ Refuse \/ FailUpload
      \/ ClaimNextReprocess \/ NothingFlagged \/ Reread
      \/ WakeByNudge \/ WakeByTicker \/ Return \/ UNCHANGED vars
      => UNCHANGED rereads
  BY DEF Notify, Start, Shutdown, Exit, RequeueProcessing, ClaimNextPending,
         NothingPending, Complete, Refuse, FailUpload, ClaimNextReprocess,
         NothingFlagged, Reread, WakeByNudge, WakeByTicker, Return, vars
<1> QED BY <1>1, <1>2, <1>3, <1>4, <1>5, <1>6 DEF Next, WorkerStep

LEMMA BoundsKeep == IInv /\ Queued /\ Bounded /\ [Next]_vars => Bounded'
<1> SUFFICES ASSUME IInv, Queued, Bounded, [Next]_vars PROVE Bounded'
  OBVIOUS
<1> USE DEF stored, process, counts, Succeeds, Go
<1>1. {MaxHandlers, MaxFaults, MaxStops} \subseteq Nat
  BY BoundsAssumption
<1>2. ASSUME NEW u \in Ids, CreateUpload(u) PROVE Bounded'
  BY <1>1, <1>2 DEF CreateUpload, Bounded
<1>3. CASE MarkForReprocess
  <2>1. owed < MaxHandlers /\ owed' = owed + 1 /\ UNCHANGED <<cur, faults, stops>>
    BY <1>3, Zenon DEF MarkForReprocess
  <2> QED BY <1>1, <2>1 DEF Bounded
<1>4. CASE Notify \/ Exit
  BY <1>1, <1>4 DEF Notify, Exit, Bounded
<1>5. CASE ClaimNextPending
  <2>1. cur' \in Ids
    BY <1>5, OldestClaimed DEF ClaimNextPending, Pending
  <2> QED BY <1>5, <2>1 DEF ClaimNextPending, Bounded
<1>6. CASE ClaimNextReprocess
  <2>1. cur' \in Ids
    BY <1>6 DEF ClaimNextReprocess, Queued
  <2> QED BY <1>6, <2>1 DEF ClaimNextReprocess, Bounded
<1>7. ASSUME NEW step \in DOMAIN AfterError, Fails(step),
             \/ UNCHANGED counts
             \/ faults < MaxFaults /\ faults' = faults + 1 /\ UNCHANGED stops
      PROVE  Bounded'
  BY <1>1, <1>7 DEF Fails, Bounded
<1>8. CASE FailsCancelled \/ FailsByFault
  BY <1>7, <1>8, FaultyAssumption DEF FailsCancelled, FailsByFault
<1>9. CASE Complete \/ FailUpload \/ FinishReprocess
  <2>1. cur' = NoId /\ UNCHANGED <<owed, faults, stops>>
    BY <1>9, Zenon DEF Complete, FailUpload, FinishReprocess
  <2> QED BY <2>1 DEF Bounded
<1>10. CASE \/ Start \/ Shutdown \/ RequeueProcessing \/ NothingPending \/ Refuse
            \/ NothingFlagged \/ Reread \/ WakeByNudge \/ WakeByTicker
            \/ Return \/ UNCHANGED vars
  BY <1>10 DEF Start, Shutdown, RequeueProcessing, NothingPending, Refuse,
               NothingFlagged, Reread, WakeByNudge, WakeByTicker, Return, vars, Bounded
<1> QED
  BY <1>2, <1>3, <1>4, <1>5, <1>6, <1>8, <1>9, <1>10 DEF Next, WorkerStep

\* The worker's state is what its types say; in it, that an upload waits for at
\* most one reread, however many requests flagged it, while rereads are taken
\* off the queue and statements fail.
THEOREM WorkerIsTyped == Spec => []TypeOK
<1>1. Init => Queued /\ Bounded
  <2>1. ASSUME Init PROVE Queued
    BY <2>1 DEF Init, Queued, IsInjective
  <2>2. ASSUME Init PROVE Bounded
    BY <2>2, BoundsAssumption DEF Init, Bounded
  <2> QED BY <2>1, <2>2
<1>2. Spec => [](Queued /\ Bounded)
  BY <1>1, Invariant, QueueKeeps, BoundsKeep, PTL DEF Spec
<1>3. IInv /\ Queued /\ Bounded => TypeOK
  BY DEF IInv, Typed, Statuses, Queued, Bounded, TypeOK
<1> QED BY <1>2, <1>3, Invariant, PTL

-----------------------------------------------------------------------------

\* Notify's one-slot channel is enough: whenever the select waits undisturbed,
\* drain has left neither an upload nor a reread behind, whatever handlers
\* wrote while it ran.
THEOREM WakeupsAreKept == Spec => []NoLostWakeup
<1>1. IInv => NoLostWakeup
  BY DEF IInv, Looked, Undisturbed, NoLostWakeup
<1> QED BY <1>1, Invariant, PTL

-----------------------------------------------------------------------------
(* The queue *)

Outcome == [u \in Ids |-> IF status[u] \in {"pending", "processing"}
                            THEN "queued" ELSE status[u]]

\* Where a status changes for good, it goes from queued to decided, and for one
\* upload at a time; claiming and requeueing change nothing anybody waits for.
LEMMA StepRefines == IInv /\ [Next]_vars => [Queue!Next]_Outcome
<1> SUFFICES ASSUME IInv, [Next]_vars
             PROVE  Queue!Next \/ Outcome' = Outcome
  OBVIOUS
<1>1. Typed /\ Claimed
  BY DEF IInv
<1> USE DEF stored, process, counts, Succeeds, Go, Existing, Pending, Completed
<1>2. ASSUME NEW u \in Ids, CreateUpload(u) PROVE Queue!Accept(u)
  <2>1. status[u] = "absent"
    BY <1>2 DEF CreateUpload, Ids
  <2>2. Outcome[u] = "absent" /\ Outcome' = [Outcome EXCEPT ![u] = "queued"]
    BY <1>1, <1>2, <2>1 DEF CreateUpload, Outcome, Typed
  <2> QED BY <2>2 DEF Queue!Accept, Outcome
<1>3. ASSUME NEW u \in Ids, status[u] = "processing",
             NEW how \in {"completed", "failed"},
             status' = [status EXCEPT ![u] = how]
      PROVE  Queue!Next
  <2>1. Outcome[u] = "queued" /\ Outcome' = [Outcome EXCEPT ![u] = how]
    BY <1>1, <1>3 DEF Outcome, Typed
  <2>2. Queue!Decide(u)
    BY <2>1 DEF Queue!Decide, Outcome
  <2> QED BY <2>2 DEF Queue!Next
<1>4. ASSUME NEW u \in Ids, CreateUpload(u) PROVE Queue!Next
  BY <1>2, <1>4 DEF Queue!Next
<1>5. CASE Complete \/ FailUpload
  <2>1. PICK u \in Ids, how \in {"completed", "failed"} :
          status[u] = "processing" /\ status' = [status EXCEPT ![u] = how]
    BY <1>1, <1>5 DEF Complete, FailUpload, Claimed
  <2> QED BY <1>3, <2>1
<1>6. CASE RequeueProcessing
  BY <1>1, <1>6 DEF RequeueProcessing, Outcome, Typed
<1>7. CASE ClaimNextPending
  <2>1. cur' \in Pending /\ status' = [status EXCEPT ![cur'] = "processing"]
    BY <1>7, OldestClaimed DEF ClaimNextPending
  <2> QED BY <1>1, <2>1 DEF Outcome, Typed
<1>8. CASE UNCHANGED status
  BY <1>8 DEF Outcome
<1>9. MarkForReprocess => UNCHANGED status
  BY Zenon DEF MarkForReprocess
<1>10. FailsCancelled \/ FailsByFault => UNCHANGED status
  BY DEF FailsCancelled, FailsByFault, Fails
<1>11. \/ Notify \/ Start \/ Shutdown \/ Exit \/ NothingPending \/ Refuse
       \/ ClaimNextReprocess \/ NothingFlagged \/ Reread \/ FinishReprocess
       \/ WakeByNudge \/ WakeByTicker \/ Return \/ UNCHANGED vars
       => UNCHANGED status
  BY DEF Notify, Start, Shutdown, Exit, NothingPending, Refuse, ClaimNextReprocess,
         NothingFlagged, Reread, FinishReprocess, WakeByNudge, WakeByTicker,
         Return, vars
<1> QED BY <1>2, <1>4, <1>5, <1>6, <1>7, <1>8, <1>9, <1>10, <1>11 DEF Next, WorkerStep

\* Whatever fails or is interrupted and however often it is restarted, the
\* service is a queue: an upload is accepted once, decided once and for good,
\* and nothing else ever becomes of it.  (That it is decided before long is
\* ImplementsQueue, which is model-checked.)
THEOREM WorkerIsAQueue == Spec => Queue!Safety
<1>1. Init => Queue!Init
  BY DEF Init, Queue!Init
<1>2. Spec => [][Queue!Next]_Outcome
  BY StepRefines, Invariant, PTL DEF Spec
<1> QED BY <1>1, <1>2, PTL DEF Spec, Queue!Safety, Outcome
=============================================================================
