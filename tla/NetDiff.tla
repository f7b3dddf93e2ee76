------------------------------ MODULE NetDiff ------------------------------
(***************************************************************************)
(* GET /api/accounts/{handle}/diff: two executions of one account compared *)
(* over six statements, none of them in a transaction with another, while  *)
(* the worker goes on rebuilding the history: it records executions, reads *)
(* recorded ones again, and corrects their dates.                          *)
(*                                                                         *)
(* The database is the history T alone: sequence numbers and change rows   *)
(* are SequenceNo(T) and Changes(T), which Tracker shows them to be after  *)
(* every transaction (HistoryInDateOrder, ChangesReplay).                  *)
(***************************************************************************)
EXTENDS Executions

CONSTANTS
  Users,
  Kinds,
  MaxExecutions,   \* bound: executions there are when a request arrives, and
                   \* transactions of the worker after that, together
  MaxWrites,       \* bound: different histories the worker makes after that
  Possible         \* the executions that may be recorded

\* What the worker records: two dates, and lists of known kinds and people, the
\* follower list among them.
IsExecution(e) ==
  /\ {e.takenAt, e.uploadedAt} \subseteq Int
  /\ Carries(e.lists, "followers")
  /\ \A k \in DOMAIN e.lists : k \in Kinds /\ DOMAIN e.lists[k] \subseteq Users

ASSUME PossibleAssumption ==
  /\ {MaxExecutions, MaxWrites} \subseteq Nat
  /\ \A e \in Possible : IsExecution(e)

VARIABLES
  T,                                 \* the account's completed executions
  pc,                                \* the statement the request runs next, if any
  kind,                              \* the list compared
  from, to,                          \* the executions compared: id and number
  lost, gained, returned, transient, \* the buckets filled so far
  asked,                             \* T when the request arrived
  past                               \* every T there has been since then

buckets == <<lost, gained, returned, transient>>
history == <<T, asked, past>>
vars    == <<history, pc, kind, from, to, buckets>>

Ids        == 1..MaxExecutions
Unresolved == [id |-> 0, seq |-> 0]

TypeOK ==
  /\ DOMAIN T \subseteq Ids
  /\ \A u \in DOMAIN T : IsExecution(T[u])
  /\ pc \in {"idle", "from", "to", "lost", "gained", "returned", "transient", "done"}
  /\ kind \in Kinds
  /\ {from, to} \subseteq [id : Ids, seq : Ids] \cup {Unresolved}
  /\ \A b \in {lost, gained, returned, transient} : b \subseteq Users
  /\ {asked, T} \subseteq past

\* No execution yet, and nothing read.
Blank ==
  /\ T = [u \in {} |-> {}]
  /\ kind \in Kinds
  /\ from = Unresolved /\ to = Unresolved
  /\ lost = {} /\ gained = {} /\ returned = {} /\ transient = {}
  /\ asked = T /\ past = {T}

Init == Blank /\ pc = "from"

-----------------------------------------------------------------------------
(* The worker's transactions, each of which rebuilds the history *)

Became(u, e) == [v \in DOMAIN T \cup {u} |-> IF v = u THEN e ELSE T[v]]

\* ApplySnapshot of an upload, which lands anywhere in the history.
Insert(e) ==
  LET u == Cardinality(DOMAIN T) + 1 IN u \in Ids /\ T' = Became(u, e)

\* ApplySnapshot of an execution read again: its members, lists and date are
\* replaced by what the file says to a program that may have learned to read more.
Reread(u, e) ==
  T' = Became(u, [takenAt |-> e.takenAt, uploadedAt |-> T[u].uploadedAt, lists |-> e.lists])

SetSnapshotDate(u, at) ==
  T' = Became(u, [takenAt |-> at, uploadedAt |-> T[u].uploadedAt, lists |-> T[u].lists])

Commit(E) ==
  /\ Cardinality(DOMAIN asked) + Cardinality(past) <= MaxExecutions
  /\ \/ \E e \in E : Insert(e)
     \/ \E u \in DOMAIN T, e \in E : Reread(u, e) \/ SetSnapshotDate(u, e.takenAt)

\* What the request has seen go by: nothing before it arrives.
Seen(arrived) ==
  /\ asked' = IF arrived THEN asked ELSE T'
  /\ past' = IF arrived THEN past \cup {T'} ELSE {T'}

\* The worker commits before the request or between any two of its statements.
Worker ==
  /\ pc \notin {"idle", "done"} /\ Cardinality(past) <= MaxWrites
  /\ Commit(Possible)
  /\ Seen(pc # "from")
  /\ UNCHANGED <<pc, kind, from, to, buckets>>

-----------------------------------------------------------------------------
(* The statements of the request *)

\* CompletedUpload, or BoundaryUpload for one end of the history: the row as it
\* is in the history H, sequence number included.
Resolved(H, u) == [id |-> u, seq |-> SequenceNo(H)[u]]

ResolveFrom(u) ==
  /\ pc = "from"
  /\ from' = Resolved(T, u)
  /\ pc' = "to"
  /\ UNCHANGED <<history, kind, to, buckets>>

\* The two are put in order by the numbers they were read with.
ResolveTo(u) ==
  /\ pc = "to"
  /\ IF from.seq > Resolved(T, u).seq
       THEN from' = Resolved(T, u) /\ to' = from
       ELSE to' = Resolved(T, u) /\ from' = from
  /\ pc' = "lost"
  /\ UNCHANGED <<history, kind, buckets>>

From(H) == Members(H[from.id].lists, kind)
To(H)   == Members(H[to.id].lists, kind)

Lost ==
  /\ pc = "lost" /\ pc' = "gained"
  /\ lost' = From(T) \ To(T)
  /\ UNCHANGED <<history, kind, from, to, gained, returned, transient>>

Gained ==
  /\ pc = "gained" /\ pc' = "returned"
  /\ gained' = To(T) \ From(T)
  /\ UNCHANGED <<history, kind, from, to, lost, returned, transient>>

\* Mutant: a departure from any list counts.
Unfollowed_AnyList(H, u) ==
  \E c \in Changes(H) :
    /\ c.user = u /\ c.type = "unfollowed"
    /\ SequenceNo(H)[c.upload] \in (from.seq + 1)..to.seq

\* Recorded as unfollowing after from and no later than to.
Unfollowed(H, u) ==
  \E c \in Changes(H) :
    /\ c.user = u /\ c.type = "unfollowed" /\ c.list = kind
    /\ SequenceNo(H)[c.upload] \in (from.seq + 1)..to.seq

Returned ==
  /\ pc = "returned" /\ pc' = "transient"
  /\ returned' = {u \in From(T) \cap To(T) : Unfollowed(T, u)}
  /\ UNCHANGED <<history, kind, from, to, lost, gained, transient>>

\* On the list of an execution numbered between the two, and at neither end.
Passing(H) ==
  (UNION {Members(H[m].lists, kind) :
            m \in {v \in DOMAIN H : SequenceNo(H)[v] \in (from.seq + 1)..(to.seq - 1)}})
  \ (From(H) \cup To(H))

Transient ==
  /\ pc = "transient" /\ pc' = "done"
  /\ transient' = Passing(T)
  /\ UNCHANGED <<history, kind, from, to, lost, gained, returned>>

Next ==
  \/ Worker
  \/ \E u \in DOMAIN T : ResolveFrom(u) \/ ResolveTo(u)
  \/ Lost \/ Gained \/ Returned \/ Transient

Spec == Init /\ [][Next]_vars

-----------------------------------------------------------------------------
(* What the buckets mean, told from the lists alone *)

Middle == {m \in DOMAIN T : Precedes(T, from.id, m) /\ Precedes(T, m, to.id)}

CarriedThroughout ==
  \A m \in Middle \cup {from.id, to.id} : Carries(T[m].lists, kind)

SometimeAbsent  == {u \in Users : \E m \in Middle : Carries(T[m].lists, kind) /\
                                                     u \notin Members(T[m].lists, kind)}
SometimePresent == {u \in Users : \E m \in Middle : u \in Members(T[m].lists, kind)}

\* The n oldest executions, as they are in H.
Oldest(H, n) == [u \in {v \in DOMAIN H : SequenceNo(H)[v] <= n} |-> H[u]]

\* The worker has left the n oldest executions as they were.
Settled(n) == \A H \in past : Oldest(H, n) = Oldest(T, n)

\* Whatever was recorded, reread or dated again meanwhile, if it left the history
\* alone up to the newer of the two executions, and every execution from one end
\* to the other carried the list, the older is compared with the newer and the
\* four buckets say what the lists of all executions in between say.
ExactWhenCarried ==
  pc = "done" /\ Settled(to.seq) /\ CarriedThroughout =>
    /\ from = to \/ Precedes(T, from.id, to.id)
    /\ lost = From(T) \ To(T)
    /\ gained = To(T) \ From(T)
    /\ returned = From(T) \cap To(T) \cap SometimeAbsent
    /\ transient = SometimePresent \ (From(T) \cup To(T))

\* "An export that did not carry, say, the following list says nothing about
\* it, and is skipped rather than recorded as everybody having left."
AbsentListLosesNobody ==
  pc = "done" /\ ~Carries(T[to.id].lists, kind) => lost = {}

\* "Seen only in the middle: absent at both ends", at the moment the statement
\* runs.
TransientIsTheMiddle ==
  [][Transient => transient' = SometimePresent \ (From(T) \cup To(T))]_vars
=============================================================================
