----------------------------- MODULE ReadProofs -----------------------------
(***************************************************************************)
(* Proofs about the two reads of several statements, a comparison          *)
(* (NetDiff) and the trends page (Trends), while executions are recorded,  *)
(* read again and dated again between the statements: for any number of    *)
(* them, any people and any lists.  What they rest on is in Facts.         *)
(***************************************************************************)
EXTENDS Trends, Facts

-----------------------------------------------------------------------------
(* The database *)

\* A history as the worker leaves it: uploads numbered as they came, with lists
\* of executions that may be recorded.
IsStored(H, E) ==
  /\ \E n \in 0..MaxExecutions : DOMAIN H = 1..n
  /\ H = [u \in DOMAIN H |-> H[u]]
  /\ \A u \in DOMAIN H : IsExecution(H[u]) /\ \E e \in E : H[u].lists = e.lists

\* Of the histories a request has seen, none had less than the first one, or more
\* than the last.
Kept(E) ==
  /\ {asked, T} \subseteq past
  /\ \A H \in past : /\ IsStored(H, E)
                     /\ DOMAIN asked \subseteq DOMAIN H /\ DOMAIN H \subseteq DOMAIN T

LEMMA StoredIsDated ==
  ASSUME NEW H, NEW E, IsStored(H, E)
  PROVE  IsDated(H)
<1>1. PICK n \in 0..MaxExecutions : DOMAIN H = 1..n
  BY DEF IsStored
<1>2. n \in Nat
  BY PossibleAssumption
<1>3. IsFiniteSet(DOMAIN H)
  BY <1>1, <1>2, FS_Interval
<1>4. \A u \in DOMAIN H : H[u].takenAt \in Int /\ H[u].uploadedAt \in Int
  BY DEF IsStored, IsExecution
<1> QED BY <1>1, <1>3, <1>4 DEF IsDated

LEMMA StoredTypes ==
  ASSUME NEW H, NEW E, IsStored(H, E)
  PROVE  /\ DOMAIN H \subseteq Ids
         /\ \A u \in DOMAIN H : Resolved(H, u) \in [id : Ids, seq : Ids]
         /\ \A u \in DOMAIN H : Members(H[u].lists, kind) \subseteq Users
<1>1. PICK n \in 0..MaxExecutions : DOMAIN H = 1..n
  BY DEF IsStored
<1>2. n \in Nat /\ MaxExecutions \in Nat /\ Cardinality(1..n) = n
  BY PossibleAssumption, FS_Interval
<1>3. DOMAIN H \subseteq Ids
  BY <1>1, <1>2 DEF Ids
<1>4. ASSUME NEW u \in DOMAIN H PROVE Resolved(H, u) \in [id : Ids, seq : Ids]
  <2>1. SequenceNo(H)[u] \in 1..n
    BY <1>1, <1>2, StoredIsDated, Ranking
  <2>2. SequenceNo(H)[u] \in Ids
    BY <1>2, <2>1 DEF Ids
  <2> QED BY <1>3, <2>2 DEF Resolved
<1>5. \A u \in DOMAIN H : Members(H[u].lists, kind) \subseteq Users
  BY DEF IsStored, IsExecution, Members, Carries
<1> QED BY <1>3, <1>4, <1>5

\* One execution put in, or changed.
LEMMA BecameStores ==
  ASSUME NEW E, IsStored(T, E), NEW u, NEW e, T' = Became(u, e),
         \E n \in 0..MaxExecutions : DOMAIN T \cup {u} = 1..n,
         IsExecution(e), \E d \in E : e.lists = d.lists
  PROVE  IsStored(T', E) /\ DOMAIN T \subseteq DOMAIN T'
<1>1. /\ DOMAIN T' = DOMAIN T \cup {u} /\ T' = [v \in DOMAIN T' |-> T'[v]]
      /\ \A v \in DOMAIN T' : T'[v] = IF v = u THEN e ELSE T[v]
  BY DEF Became
<1>2. \A v \in DOMAIN T' : IsExecution(T'[v]) /\ \E d \in E : T'[v].lists = d.lists
  BY <1>1 DEF IsStored
<1> QED BY <1>1, <1>2 DEF IsStored

LEMMA CommitStores ==
  ASSUME NEW E, IsStored(T, E), \A e \in E : IsExecution(e), Commit(E)
  PROVE  IsStored(T', E) /\ DOMAIN T \subseteq DOMAIN T'
<1>1. PICK n \in 0..MaxExecutions : DOMAIN T = 1..n
  BY DEF IsStored
<1>2. n \in Nat /\ MaxExecutions \in Nat
  BY PossibleAssumption
<1>3. CASE \E e \in E : Insert(e)
  <2>1. PICK e \in E : Insert(e)
    BY <1>3
  <2>2. Cardinality(DOMAIN T) = n
    BY <1>1, <1>2, FS_Interval
  <2>3. n + 1 \in 1..MaxExecutions /\ T' = Became(n + 1, e)
    BY <2>1, <2>2 DEF Insert, Ids
  <2>4. DOMAIN T \cup {n + 1} = 1..(n + 1) /\ n + 1 \in 0..MaxExecutions
    BY <1>1, <1>2, <2>3
  <2>5. IsExecution(e)
    OBVIOUS
  <2>6. \E m \in 0..MaxExecutions : DOMAIN T \cup {n + 1} = 1..m
    BY <2>4
  <2> QED BY <2>3, <2>5, <2>6, BecameStores
<1>4. CASE \E u \in DOMAIN T, e \in E : Reread(u, e) \/ SetSnapshotDate(u, e.takenAt)
  <2>1. PICK u \in DOMAIN T, e \in E : Reread(u, e) \/ SetSnapshotDate(u, e.takenAt)
    BY <1>4
  <2>2. PICK d : /\ T' = Became(u, d)
                 /\ d = [takenAt |-> e.takenAt, uploadedAt |-> T[u].uploadedAt,
                         lists |-> d.lists]
                 /\ d.lists = e.lists \/ d.lists = T[u].lists
    BY <2>1 DEF Reread, SetSnapshotDate
  <2>3. IsExecution(e) /\ IsExecution(T[u]) /\ \E c \in E : T[u].lists = c.lists
    BY DEF IsStored
  <2>4. d.takenAt = e.takenAt /\ d.uploadedAt = T[u].uploadedAt
    BY <2>2
  <2>5. IsExecution(d)
    BY <2>2, <2>3, <2>4 DEF IsExecution
  <2>6. \E c \in E : d.lists = c.lists
    BY <2>2, <2>3
  <2>7. \E m \in 0..MaxExecutions : DOMAIN T \cup {u} = 1..m
    BY <1>1
  <2> QED BY <2>2, <2>5, <2>6, <2>7, BecameStores
<1> QED BY <1>3, <1>4 DEF Commit

\* Whatever the worker commits is one more history that was seen, or the first.
LEMMA SeenKeeps ==
  ASSUME NEW E, Kept(E), \A e \in E : IsExecution(e), Commit(E),
         NEW arrived \in BOOLEAN, Seen(arrived)
  PROVE  /\ Kept(E)' /\ past' \subseteq past \cup {T'}
         /\ DOMAIN T' \subseteq Ids /\ \A u \in DOMAIN T' : IsExecution(T'[u])
         /\ IF arrived THEN asked' = asked /\ past \subseteq past' ELSE past' = {T'}
<1>1. /\ asked' = IF arrived THEN asked ELSE T'
      /\ past' = IF arrived THEN past \cup {T'} ELSE {T'}
  BY DEF Seen
<1>2. IsStored(T', E) /\ DOMAIN T \subseteq DOMAIN T'
  BY CommitStores DEF Kept
<1>3. DOMAIN T' \subseteq Ids /\ \A u \in DOMAIN T' : IsExecution(T'[u])
  <2>1. PICK n \in 0..MaxExecutions : DOMAIN T' = 1..n
    BY <1>2 DEF IsStored
  <2>2. \A u \in DOMAIN T' : IsExecution(T'[u])
    BY <1>2 DEF IsStored
  <2> QED BY <2>1, <2>2, PossibleAssumption DEF Ids
<1>4. \A H \in past : IsStored(H, E)' <=> IsStored(H, E)
  BY DEF IsStored
<1>5. IsStored(T', E) <=> IsStored(T, E)'
  BY DEF IsStored
<1>6. CASE arrived
  <2>1. asked' = asked /\ past' = past \cup {T'}
    BY <1>1, <1>6
  <2>2. DOMAIN asked \subseteq DOMAIN T'
    BY <1>2 DEF Kept
  <2>3. ASSUME NEW H \in past'
        PROVE  /\ IsStored(H, E)
               /\ DOMAIN asked' \subseteq DOMAIN H /\ DOMAIN H \subseteq DOMAIN T'
    BY <1>2, <2>1, <2>2 DEF Kept
  <2>4. {asked', T'} \subseteq past'
    BY <2>1 DEF Kept
  <2> QED BY <1>3, <1>6, <2>1, <2>3, <2>4 DEF Kept, IsStored
<1>7. CASE ~arrived
  <2>1. asked' = T' /\ past' = {T'}
    BY <1>1, <1>7
  <2> QED BY <1>2, <1>3, <1>7, <2>1 DEF Kept, IsStored
<1> QED BY <1>6, <1>7

\* What is left alone is numbered as it was, whatever happens after it.
LEMMA SameNumbers ==
  ASSUME NEW G, IsDated(G), NEW H, IsDated(H), NEW n \in Int, Oldest(G, n) = Oldest(H, n),
         NEW u \in DOMAIN G, SequenceNo(G)[u] <= n
  PROVE  u \in DOMAIN H /\ H[u] = G[u] /\ SequenceNo(H)[u] = SequenceNo(G)[u]
<1>1. PICK g, h : g = SequenceNo(G) /\ h = SequenceNo(H)
  OBVIOUS
<1>2. PICK P : /\ P = {v \in DOMAIN G : g[v] <= n}
               /\ P = {v \in DOMAIN H : h[v] <= n}
               /\ \A v \in P : G[v] = H[v]
  <2>1. PICK P, Q : P = {v \in DOMAIN G : g[v] <= n} /\ Q = {v \in DOMAIN H : h[v] <= n}
    OBVIOUS
  <2>2. PICK old : old = [v \in P |-> G[v]] /\ old = [v \in Q |-> H[v]]
    BY <1>1, <2>1 DEF Oldest
  <2>3. P = Q
    BY <2>2
  <2>4. \A v \in P : old[v] = G[v] /\ old[v] = H[v]
    BY <2>2
  <2> QED BY <2>1, <2>3, <2>4
<1>3. u \in P /\ u \in DOMAIN H
  BY <1>1, <1>2
<1>4. \A v, w \in P : Precedes(G, v, w) <=> Precedes(H, v, w)
  BY <1>2 DEF Precedes
<1>5. \A v \in DOMAIN G : Precedes(G, v, u) => v \in P
  <2> SUFFICES ASSUME NEW v \in DOMAIN G, Precedes(G, v, u) PROVE g[v] <= n
    BY <1>2
  <2>1. g[v] \in Nat /\ g[u] \in Nat /\ g[v] < g[u]
    BY <1>1, NumbersCompare
  <2> QED BY <1>1, <2>1
<1>6. \A v \in DOMAIN H : Precedes(H, v, u) => v \in P
  <2> SUFFICES ASSUME NEW v \in DOMAIN H, Precedes(H, v, u) PROVE h[v] <= n
    BY <1>2
  <2>1. h[v] \in Nat /\ h[u] \in Nat /\ h[v] < h[u]
    BY <1>1, <1>3, NumbersCompare
  <2>2. h[u] <= n
    BY <1>2, <1>3
  <2> QED BY <2>1, <2>2
<1>7. {v \in DOMAIN G : v = u \/ Precedes(G, v, u)}
        = {v \in DOMAIN H : v = u \/ Precedes(H, v, u)}
  BY <1>2, <1>3, <1>4, <1>5, <1>6
<1>8. SequenceNo(H)[u] = SequenceNo(G)[u]
  BY <1>3, <1>7 DEF SequenceNo
<1> QED BY <1>2, <1>3, <1>8

\* So is what the change log says of it.
LEMMA SameRows ==
  ASSUME NEW G, IsDated(G), NEW H, IsDated(H), NEW n \in Int, Oldest(G, n) = Oldest(H, n),
         NEW c \in Changes(G), SequenceNo(G)[c.upload] <= n
  PROVE  /\ c \in Changes(H)
         /\ SequenceNo(H)[c.upload] = SequenceNo(G)[c.upload]
<1> DEFINE log(R, pair) ==
             ChangesBetween(pair[1], pair[2], R[pair[1]].lists, R[pair[2]].lists)
<1>1. PICK pair \in Neighbours(G) : c \in log(G, pair)
  BY DEF Changes
<1>2. PICK p, u : pair = <<p, u>> /\ p \in DOMAIN G /\ u \in DOMAIN G
                  /\ SequenceNo(G)[u] = SequenceNo(G)[p] + 1
  BY DEF Neighbours
<1>3. c \in ChangesBetween(p, u, G[p].lists, G[u].lists)
  BY <1>1, <1>2
<1>4. c.upload = u
  <2>1. PICK prev, last : prev = G[p].lists /\ last = G[u].lists
    OBVIOUS
  <2>2. c \in ChangesBetween(p, u, prev, last)
    BY <1>3, <2>1
  <2>3. \A d \in ChangesBetween(p, u, prev, last) :
          d.prev = p /\ d.upload = u /\ IsTrue(d, prev, last)
    BY RowsBetween
  <2> QED BY <2>2, <2>3
<1>5. u \in DOMAIN H /\ H[u] = G[u] /\ SequenceNo(H)[u] = SequenceNo(G)[u]
  BY <1>2, <1>4, SameNumbers
<1>6. SequenceNo(G)[p] \in Nat /\ SequenceNo(G)[p] <= n
  <2>1. SequenceNo(G)[p] \in Nat
    BY <1>2, NumbersCompare
  <2> QED BY <1>2, <1>4, <2>1
<1>7. p \in DOMAIN H /\ H[p] = G[p] /\ SequenceNo(H)[p] = SequenceNo(G)[p]
  BY <1>2, <1>6, SameNumbers
<1>8. <<p, u>> \in Neighbours(H)
  BY <1>2, <1>5, <1>7 DEF Neighbours
<1>9. c \in log(H, <<p, u>>)
  BY <1>3, <1>5, <1>7
<1>10. c \in Changes(H)
  BY <1>8, <1>9 DEF Changes
<1> QED BY <1>4, <1>5, <1>10

\* An execution that was left alone has the neighbours it had.
LEMMA SameNeighbours ==
  ASSUME NEW G, IsDated(G), NEW H, IsDated(H), NEW n \in Int, Oldest(G, n) = Oldest(H, n),
         NEW u \in DOMAIN G, NEW v \in DOMAIN G, SequenceNo(G)[v] <= n,
         SequenceNo(G)[v] = SequenceNo(G)[u] + 1
  PROVE  /\ <<u, v>> \in Neighbours(H)
         /\ H[u] = G[u] /\ H[v] = G[v]
<1>1. SequenceNo(G)[u] \in Nat
  BY NumbersCompare
<1>2. SequenceNo(G)[u] <= n
  BY <1>1
<1>3. /\ u \in DOMAIN H /\ H[u] = G[u] /\ SequenceNo(H)[u] = SequenceNo(G)[u]
      /\ v \in DOMAIN H /\ H[v] = G[v] /\ SequenceNo(H)[v] = SequenceNo(G)[v]
  BY <1>2, SameNumbers
<1> QED BY <1>3 DEF Neighbours

-----------------------------------------------------------------------------
(* A comparison *)

\* Each end was read from a history that was seen.
IsEnd(end) == \E H \in past : end.id \in DOMAIN H /\ end = Resolved(H, end.id)

\* So was every bucket, though each may be of another one.
Filled ==
  /\ pc \in {"gained", "returned", "transient", "done"} =>
       \E H \in past : lost = From(H) \ To(H)
  /\ pc \in {"returned", "transient", "done"} =>
       \E H \in past : gained = To(H) \ From(H)
  /\ pc \in {"transient", "done"} =>
       \E H \in past : returned = {u \in From(H) \cap To(H) : Unfollowed(H, u)}
  /\ pc = "done" => \E H \in past : transient = Passing(H)

Comparing ==
  /\ Kept(Possible)
  /\ pc \in {"from", "to", "lost", "gained", "returned", "transient", "done"}
  /\ pc = "from" => past = {T}
  /\ pc # "from" => IsEnd(from)
  /\ pc \notin {"from", "to"} => IsEnd(to) /\ from.seq <= to.seq
  /\ Filled

DiffInv == TypeOK /\ (pc # "idle" => Comparing)

\* The executions compared are still there, with numbers.
LEMMA EndsAreStored ==
  ASSUME Kept(Possible), NEW end, IsEnd(end)
  PROVE  end.id \in DOMAIN T /\ end \in [id : Ids, seq : Ids]
<1>1. PICK H \in past : end.id \in DOMAIN H /\ end = Resolved(H, end.id)
  BY DEF IsEnd
<1>2. IsStored(H, Possible) /\ DOMAIN H \subseteq DOMAIN T
  BY DEF Kept
<1>3. \A u \in DOMAIN H : Resolved(H, u) \in [id : Ids, seq : Ids]
  BY <1>2, StoredTypes
<1>4. PICK u : u = end.id
  OBVIOUS
<1> QED BY <1>1, <1>2, <1>3, <1>4

LEMMA WorkerReads == DiffInv /\ Worker => DiffInv'
<1> SUFFICES ASSUME DiffInv, Worker PROVE DiffInv'
  OBVIOUS
<1>1. /\ pc \notin {"idle", "done"} /\ Commit(Possible) /\ Seen(pc # "from")
      /\ UNCHANGED <<pc, kind, from, to, lost, gained, returned, transient>>
  BY DEF Worker, buckets
<1>2. TypeOK /\ Comparing
  BY <1>1 DEF DiffInv
<1>3. PICK arrived \in BOOLEAN : arrived = (pc # "from") /\ Seen(arrived)
  BY <1>1
<1>4. /\ Kept(Possible)'
      /\ DOMAIN T' \subseteq Ids /\ \A u \in DOMAIN T' : IsExecution(T'[u])
      /\ IF arrived THEN asked' = asked /\ past \subseteq past' ELSE past' = {T'}
  <2>1. Kept(Possible) /\ \A e \in Possible : IsExecution(e)
    BY <1>2, PossibleAssumption DEF Comparing
  <2> QED BY <1>1, <1>3, <2>1, SeenKeeps
<1>5. TypeOK'
  BY <1>1, <1>2, <1>4 DEF TypeOK, Kept
<1>6. CASE pc = "from"
  <2>1. past' = {T'}
    BY <1>3, <1>4, <1>6
  <2>2. Filled'
    BY <1>1, <1>6 DEF Filled
  <2> QED BY <1>1, <1>4, <1>5, <1>6, <2>1, <2>2 DEF DiffInv, Comparing
<1>7. CASE pc # "from"
  <2>1. past \subseteq past'
    BY <1>3, <1>4, <1>7
  <2>2. \A H : From(H)' = From(H) /\ To(H)' = To(H)
    BY <1>1 DEF From, To
  <2>3. \A end : IsEnd(end) => \E H \in past' : end.id \in DOMAIN H /\ end = Resolved(H, end.id)
    BY <2>1 DEF IsEnd
  <2>4. IsEnd(from) => IsEnd(from)'
    BY <1>1, <2>3 DEF IsEnd, Resolved
  <2>5. IsEnd(to) => IsEnd(to)'
    BY <1>1, <2>3 DEF IsEnd, Resolved
  <2>6. Filled'
    BY <1>1, <1>2, <2>1 DEF Comparing, Filled, From, To, Unfollowed, Passing
  <2> QED BY <1>1, <1>2, <1>4, <1>5, <1>7, <2>4, <2>5, <2>6 DEF DiffInv, Comparing
<1> QED BY <1>6, <1>7

LEMMA StatementReads ==
  ASSUME DiffInv, NEW u \in DOMAIN T, ResolveFrom(u) \/ ResolveTo(u)
  PROVE  DiffInv'
<1>1. /\ pc \in {"from", "to"} /\ UNCHANGED <<T, kind, asked, past>>
      /\ UNCHANGED <<lost, gained, returned, transient>>
  BY DEF ResolveFrom, ResolveTo, buckets, history
<1>2. TypeOK /\ Comparing /\ Kept(Possible)
  BY <1>1 DEF DiffInv, Comparing
<1>3. Kept(Possible)'
  BY <1>1, <1>2 DEF Kept, IsStored
<1>4. PICK r : r = Resolved(T, u)
  OBVIOUS
<1>5. r.id = u /\ IsEnd(r) /\ r \in [id : Ids, seq : Ids]
  <2>1. r.id = u /\ IsEnd(r)
    BY <1>2, <1>4 DEF Kept, IsEnd, Resolved
  <2> QED BY <1>2, <2>1, EndsAreStored
<1>6. CASE ResolveFrom(u)
  <2>1. /\ pc = "from" /\ pc' = "to" /\ from' = r /\ to' = to
    BY <1>4, <1>6 DEF ResolveFrom
  <2>2. IsEnd(from)'
    BY <1>1, <1>5, <2>1 DEF IsEnd, Resolved
  <2>3. TypeOK'
    BY <1>1, <1>2, <1>5, <2>1 DEF TypeOK
  <2>4. Filled'
    BY <2>1 DEF Filled
  <2> QED BY <1>3, <2>1, <2>2, <2>3, <2>4 DEF DiffInv, Comparing
<1>7. CASE ResolveTo(u)
  <2>1. /\ pc = "to" /\ pc' = "lost"
        /\ IF from.seq > r.seq THEN from' = r /\ to' = from
                               ELSE to' = r /\ from' = from
    BY <1>4, <1>7 DEF ResolveTo
  <2>2. IsEnd(from) /\ from \in [id : Ids, seq : Ids]
    BY <1>2, <2>1, EndsAreStored DEF Comparing
  <2>3. from.seq \in Nat /\ r.seq \in Nat
    BY <1>5, <2>2, PossibleAssumption DEF Ids
  <2>4. {from', to'} = {from, r} /\ from'.seq <= to'.seq
    BY <2>1, <2>3
  <2>5. \A end : IsEnd(end) => \E H \in past' : end.id \in DOMAIN H /\ end = Resolved(H, end.id)
    BY <1>1 DEF IsEnd
  <2>6. IsEnd(from)' /\ IsEnd(to)'
    BY <1>5, <2>2, <2>4, <2>5 DEF IsEnd, Resolved
  <2>7. TypeOK'
    BY <1>1, <1>2, <1>5, <2>1, <2>2, <2>4 DEF TypeOK
  <2>8. Filled'
    BY <2>1 DEF Filled
  <2> QED BY <1>3, <2>1, <2>4, <2>6, <2>7, <2>8 DEF DiffInv, Comparing
<1> QED BY <1>6, <1>7

\* The four sets are read in turn, each from the history as it is then.
LEMMA BucketReads ==
  ASSUME DiffInv, Lost \/ Gained \/ Returned \/ Transient
  PROVE  DiffInv'
<1>1. /\ pc \in {"lost", "gained", "returned", "transient"}
      /\ UNCHANGED <<T, kind, from, to, asked, past>>
  BY DEF Lost, Gained, Returned, Transient, history
<1>2. TypeOK /\ Comparing /\ Kept(Possible) /\ IsEnd(from) /\ IsEnd(to)
  BY <1>1 DEF DiffInv, Comparing
<1>3. Kept(Possible)' /\ IsEnd(from)' /\ IsEnd(to)'
  BY <1>1, <1>2 DEF Kept, IsStored, IsEnd, Resolved
<1>4. from.id \in DOMAIN T /\ to.id \in DOMAIN T /\ T \in past
  BY <1>2, EndsAreStored DEF Kept
<1>5. \A m \in DOMAIN T : Members(T[m].lists, kind) \subseteq Users
  BY <1>2, StoredTypes DEF Kept
<1>6. From(T) \subseteq Users /\ To(T) \subseteq Users /\ Passing(T) \subseteq Users
  BY <1>4, <1>5 DEF From, To, Passing
<1>7. \A H : From(H)' = From(H) /\ To(H)' = To(H) /\ Passing(H)' = Passing(H)
  BY <1>1 DEF From, To, Passing
<1>8. \A H, u : Unfollowed(H, u)' <=> Unfollowed(H, u)
  BY <1>1 DEF Unfollowed
<1>9. CASE Lost
  <2>1. /\ pc = "lost" /\ pc' = "gained" /\ lost' = From(T) \ To(T)
        /\ UNCHANGED <<gained, returned, transient>>
    BY <1>9 DEF Lost
  <2>2. TypeOK'
    BY <1>1, <1>2, <1>6, <2>1 DEF TypeOK
  <2>3. Filled'
    BY <1>1, <1>4, <1>7, <2>1 DEF Filled
  <2> QED BY <1>1, <1>2, <1>3, <2>1, <2>2, <2>3 DEF DiffInv, Comparing
<1>10. CASE Gained
  <2>1. /\ pc = "gained" /\ pc' = "returned" /\ gained' = To(T) \ From(T)
        /\ UNCHANGED <<lost, returned, transient>>
    BY <1>10 DEF Gained
  <2>2. TypeOK'
    BY <1>1, <1>2, <1>6, <2>1 DEF TypeOK
  <2>3. Filled'
    BY <1>1, <1>2, <1>4, <1>7, <2>1 DEF Filled, Comparing
  <2> QED BY <1>1, <1>2, <1>3, <2>1, <2>2, <2>3 DEF DiffInv, Comparing
<1>11. CASE Returned
  <2>1. /\ pc = "returned" /\ pc' = "transient"
        /\ returned' = {u \in From(T) \cap To(T) : Unfollowed(T, u)}
        /\ UNCHANGED <<lost, gained, transient>>
    BY <1>11 DEF Returned
  <2>2. TypeOK'
    BY <1>1, <1>2, <1>6, <2>1 DEF TypeOK
  <2>3. Filled'
    BY <1>1, <1>2, <1>4, <1>7, <1>8, <2>1 DEF Filled, Comparing
  <2> QED BY <1>1, <1>2, <1>3, <2>1, <2>2, <2>3 DEF DiffInv, Comparing
<1>12. CASE Transient
  <2>1. /\ pc = "transient" /\ pc' = "done" /\ transient' = Passing(T)
        /\ UNCHANGED <<lost, gained, returned>>
    BY <1>12 DEF Transient
  <2>2. TypeOK'
    BY <1>1, <1>2, <1>6, <2>1 DEF TypeOK
  <2>3. Filled'
    BY <1>1, <1>2, <1>4, <1>7, <1>8, <2>1 DEF Filled, Comparing
  <2> QED BY <1>1, <1>2, <1>3, <2>1, <2>2, <2>3 DEF DiffInv, Comparing
<1> QED BY <1>9, <1>10, <1>11, <1>12

LEMMA NextReads == DiffInv /\ [Next]_vars => DiffInv'
<1> SUFFICES ASSUME DiffInv, [Next]_vars PROVE DiffInv'
  OBVIOUS
<1>1. CASE Worker
  BY <1>1, WorkerReads
<1>2. CASE \E u \in DOMAIN T : ResolveFrom(u) \/ ResolveTo(u)
  BY <1>2, StatementReads
<1>3. CASE Lost \/ Gained \/ Returned \/ Transient
  BY <1>3, BucketReads
<1>4. CASE UNCHANGED vars
  <2>1. UNCHANGED <<T, asked, past, pc, kind, from, to, lost, gained, returned, transient>>
    BY <1>4 DEF vars, history, buckets
  <2>2. TypeOK' /\ (Kept(Possible) => Kept(Possible)')
    BY <2>1 DEF DiffInv, TypeOK, Kept, IsStored
  <2>3. /\ IsEnd(from) <=> IsEnd(from)'
        /\ IsEnd(to) <=> IsEnd(to)'
    BY <2>1 DEF IsEnd, Resolved
  <2>4. Filled' <=> Filled
    BY <2>1 DEF Filled, From, To, Passing, Unfollowed
  <2> QED BY <2>1, <2>2, <2>3, <2>4 DEF DiffInv, Comparing
<1> QED BY <1>1, <1>2, <1>3, <1>4 DEF Next

\* The empty history, seen by a request that has not arrived.
LEMMA BlankIsKept == Blank => \A E : Kept(E)
<1> SUFFICES ASSUME Blank, NEW E PROVE Kept(E)
  OBVIOUS
<1>1. DOMAIN T = {} /\ T = [u \in DOMAIN T |-> T[u]] /\ asked = T /\ past = {T}
  BY DEF Blank
<1>2. DOMAIN T = 1..0 /\ 0 \in 0..MaxExecutions
  BY <1>1, PossibleAssumption
<1>3. IsStored(T, E)
  BY <1>1, <1>2 DEF IsStored
<1> QED BY <1>1, <1>3 DEF Kept

LEMMA BlankReads == Blank /\ pc \in {"from", "idle"} => DiffInv
<1> SUFFICES ASSUME Blank, pc \in {"from", "idle"} PROVE DiffInv
  OBVIOUS
<1>1. DOMAIN T = {} /\ asked = T /\ past = {T}
  BY DEF Blank
<1>2. TypeOK
  BY <1>1 DEF Blank, TypeOK
<1>3. pc # "idle" => Comparing
  BY <1>1, BlankIsKept DEF Comparing, Filled
<1> QED BY <1>2, <1>3 DEF DiffInv

\* If the worker left the history alone up to the newer end, the two ends and the
\* four sets read one after another are those of the history there is.
LEMMA ReadsAreOfNow ==
  ASSUME DiffInv, pc = "done", Settled(to.seq)
  PROVE  /\ from.id \in DOMAIN T /\ from = Resolved(T, from.id)
         /\ to.id \in DOMAIN T /\ to = Resolved(T, to.id)
         /\ from.seq <= to.seq
         /\ lost = From(T) \ To(T)
         /\ gained = To(T) \ From(T)
         /\ returned = {x \in From(T) \cap To(T) : Unfollowed(T, x)}
         /\ transient = Passing(T)
<1>1. Comparing /\ Kept(Possible) /\ IsEnd(from) /\ IsEnd(to) /\ from.seq <= to.seq
  BY DEF DiffInv, Comparing
<1>2. PICK n, low : n = to.seq /\ low = from.seq
  OBVIOUS
<1>3. n \in Int /\ low \in Int /\ low <= n
  <2>1. to \in [id : Ids, seq : Ids] /\ from \in [id : Ids, seq : Ids]
    BY <1>1, EndsAreStored
  <2> QED BY <1>1, <1>2, <2>1, PossibleAssumption DEF Ids
<1>4. T \in past /\ \A H \in past : IsDated(H) /\ Oldest(H, n) = Oldest(T, n)
  BY <1>1, <1>2, StoredIsDated DEF Kept, Settled
<1>5. ASSUME NEW end, IsEnd(end), end.seq <= n
      PROVE  end.id \in DOMAIN T /\ end = Resolved(T, end.id)
  <2> PICK u : u = end.id
    OBVIOUS
  <2>1. PICK H \in past : u \in DOMAIN H /\ end = Resolved(H, u)
    BY <1>5 DEF IsEnd
  <2>2. end = [id |-> u, seq |-> SequenceNo(H)[u]] /\ SequenceNo(H)[u] <= n
    BY <1>5, <2>1 DEF Resolved
  <2>3. u \in DOMAIN T /\ SequenceNo(T)[u] = SequenceNo(H)[u]
    BY <1>3, <1>4, <2>1, <2>2, SameNumbers
  <2> QED BY <2>1, <2>2, <2>3 DEF Resolved
<1>6. /\ from.id \in DOMAIN T /\ from = Resolved(T, from.id)
      /\ to.id \in DOMAIN T /\ to = Resolved(T, to.id)
  BY <1>1, <1>2, <1>3, <1>5
<1>7. SequenceNo(T)[from.id] = low /\ SequenceNo(T)[to.id] = n
  <2>1. PICK u, v : u = from.id /\ v = to.id
    OBVIOUS
  <2>2. /\ from = [id |-> u, seq |-> SequenceNo(T)[u]]
        /\ to = [id |-> v, seq |-> SequenceNo(T)[v]]
    BY <1>6, <2>1 DEF Resolved
  <2> QED BY <1>2, <2>1, <2>2
<1>8. ASSUME NEW H \in past
      PROVE  /\ From(H) = From(T) /\ To(H) = To(T) /\ Passing(H) = Passing(T)
             /\ \A x : Unfollowed(H, x) <=> Unfollowed(T, x)
  <2>1. IsDated(H) /\ IsDated(T) /\ Oldest(H, n) = Oldest(T, n)
    BY <1>4
  <2>2. H[from.id] = T[from.id] /\ H[to.id] = T[to.id]
    BY <1>3, <1>6, <1>7, <2>1, SameNumbers
  <2>3. From(H) = From(T) /\ To(H) = To(T)
    BY <2>2 DEF From, To
  <2>4. ASSUME NEW m \in (low + 1)..(n - 1)
        PROVE  \A v : /\ v \in DOMAIN H /\ SequenceNo(H)[v] = m
                           => v \in DOMAIN T /\ T[v] = H[v] /\ SequenceNo(T)[v] = m
                      /\ v \in DOMAIN T /\ SequenceNo(T)[v] = m
                           => v \in DOMAIN H /\ H[v] = T[v] /\ SequenceNo(H)[v] = m
    <3>1. m <= n
      BY <1>3
    <3> QED BY <1>3, <2>1, <3>1, SameNumbers
  <2>5. Passing(H) = Passing(T)
    <3>1. PICK h, t : h = SequenceNo(H) /\ t = SequenceNo(T)
      OBVIOUS
    <3>2. \A v : \A m \in (low + 1)..(n - 1) :
            v \in DOMAIN H /\ h[v] = m <=> v \in DOMAIN T /\ t[v] = m
      BY <2>4, <3>1
    <3>3. {v \in DOMAIN H : h[v] \in (low + 1)..(n - 1)}
            = {v \in DOMAIN T : t[v] \in (low + 1)..(n - 1)}
      BY <3>2
    <3>4. \A v \in {w \in DOMAIN H : h[w] \in (low + 1)..(n - 1)} : H[v] = T[v]
      BY <2>4, <3>1
    <3>5. {Members(H[v].lists, kind) : v \in {w \in DOMAIN H : h[w] \in (low + 1)..(n - 1)}}
            = {Members(T[v].lists, kind) : v \in {w \in DOMAIN T : t[w] \in (low + 1)..(n - 1)}}
      BY <3>3, <3>4
    <3> QED BY <1>2, <2>3, <3>1, <3>5 DEF Passing
  <2>6. ASSUME NEW G \in {H, T}, NEW R \in {H, T}, NEW x, Unfollowed(G, x)
        PROVE  Unfollowed(R, x)
    <3>1. PICK c \in Changes(G) :
            /\ c.user = x /\ c.type = "unfollowed" /\ c.list = kind
            /\ SequenceNo(G)[c.upload] \in (low + 1)..n
      BY <1>2, <2>6 DEF Unfollowed
    <3>2. /\ IsDated(G) /\ IsDated(R) /\ Oldest(G, n) = Oldest(R, n)
          /\ SequenceNo(G)[c.upload] <= n
      BY <1>3, <2>1, <3>1
    <3>3. c \in Changes(R) /\ SequenceNo(R)[c.upload] = SequenceNo(G)[c.upload]
      BY <1>3, <3>2, SameRows
    <3> QED BY <1>2, <3>1, <3>3 DEF Unfollowed
  <2> QED BY <2>3, <2>5, <2>6
<1>9. /\ \E H \in past : lost = From(H) \ To(H)
      /\ \E H \in past : gained = To(H) \ From(H)
      /\ \E H \in past : returned = {x \in From(H) \cap To(H) : Unfollowed(H, x)}
      /\ \E H \in past : transient = Passing(H)
  BY <1>1 DEF Comparing, Filled
<1> QED BY <1>1, <1>6, <1>8, <1>9

\* What its statements computed of a comparison that was left alone is what the
\* lists say.
LEMMA ReadsAreExact == DiffInv => ExactWhenCarried
<1> SUFFICES ASSUME DiffInv, pc = "done", Settled(to.seq), CarriedThroughout
             PROVE  /\ from = to \/ Precedes(T, from.id, to.id)
                    /\ lost = From(T) \ To(T)
                    /\ gained = To(T) \ From(T)
                    /\ returned = From(T) \cap To(T) \cap SometimeAbsent
                    /\ transient = SometimePresent \ (From(T) \cup To(T))
  BY DEF ExactWhenCarried
<1>1. /\ from.id \in DOMAIN T /\ from = Resolved(T, from.id)
      /\ to.id \in DOMAIN T /\ to = Resolved(T, to.id)
      /\ from.seq <= to.seq
      /\ lost = From(T) \ To(T) /\ gained = To(T) \ From(T)
      /\ returned = {x \in From(T) \cap To(T) : Unfollowed(T, x)}
      /\ transient = Passing(T)
  BY ReadsAreOfNow
<1>2. PICK u \in DOMAIN T, v \in DOMAIN T : u = from.id /\ v = to.id
  BY <1>1
<1>3. PICK n : n = SequenceNo(T)
  OBVIOUS
<1>4. /\ from = [id |-> u, seq |-> n[u]] /\ to = [id |-> v, seq |-> n[v]]
      /\ from.seq = n[u] /\ to.seq = n[v] /\ n[u] <= n[v]
  <2>1. from = Resolved(T, u) /\ to = Resolved(T, v) /\ from.seq <= to.seq
    BY <1>1, <1>2
  <2> QED BY <1>3, <2>1 DEF Resolved
<1>5. /\ IsDated(T)
      /\ \A m \in DOMAIN T : Members(T[m].lists, kind) \subseteq Users
  <2>1. IsStored(T, Possible)
    BY DEF DiffInv, Comparing, Kept
  <2> QED BY <2>1, StoredIsDated, StoredTypes
<1>6. \A m \in DOMAIN T :
        /\ n[m] \in Nat
        /\ n[u] < n[m] <=> Precedes(T, u, m)
        /\ n[m] < n[v] <=> Precedes(T, m, v)
        /\ n[m] = n[u] <=> m = u
        /\ n[m] = n[v] <=> m = v
  BY <1>3, <1>5, NumbersCompare
<1>7. from = to \/ Precedes(T, from.id, to.id)
  BY <1>2, <1>4, <1>6
<1>8. Middle = {m \in DOMAIN T : n[m] \in (n[u] + 1)..(n[v] - 1)}
  BY <1>2, <1>6 DEF Middle
<1>9. \A m \in DOMAIN T : n[m] \in n[u]..n[v] => Carries(T[m].lists, kind)
  <2> SUFFICES ASSUME NEW m \in DOMAIN T, n[m] \in n[u]..n[v]
               PROVE  Carries(T[m].lists, kind)
    OBVIOUS
  <2>1. m \in Middle \cup {u, v}
    BY <1>6, <1>8
  <2> QED BY <1>2, <2>1 DEF CarriedThroughout
<1>10. returned = From(T) \cap To(T) \cap SometimeAbsent
  <2>1. ASSUME NEW x \in From(T) \cap To(T)
        PROVE  Unfollowed(T, x) <=> x \in SometimeAbsent
    <3>1. x \in Members(T[u].lists, kind) /\ x \in Members(T[v].lists, kind)
      BY <1>2 DEF From, To
    <3>2. Unfollowed(T, x) <=>
            \E c \in Changes(T) :
              /\ c.user = x /\ c.type = "unfollowed" /\ c.list = kind
              /\ n[c.upload] \in (n[u] + 1)..n[v]
      BY <1>3, <1>4 DEF Unfollowed
    <3>3. Unfollowed(T, x) <=>
            \E m \in DOMAIN T : /\ Precedes(T, u, m) /\ Precedes(T, m, v)
                                /\ x \notin Members(T[m].lists, kind)
      BY <1>3, <1>5, <1>9, <3>1, <3>2, LeftOnTheWay
    <3>4. x \in Users
      BY <1>5, <3>1
    <3>5. \A m \in Middle : Carries(T[m].lists, kind)
      BY DEF CarriedThroughout
    <3>6. x \in SometimeAbsent <=>
            \E m \in Middle : x \notin Members(T[m].lists, kind)
      BY <3>4, <3>5 DEF SometimeAbsent
    <3> QED BY <1>2, <3>3, <3>6 DEF Middle
  <2> QED BY <1>1, <2>1
<1>11. transient = SometimePresent \ (From(T) \cup To(T))
  <2>1. SometimePresent = UNION {Members(T[m].lists, kind) : m \in Middle}
    <3>1. Middle \subseteq DOMAIN T
      BY DEF Middle
    <3> QED BY <1>5, <3>1 DEF SometimePresent
  <2>2. Middle = {m \in DOMAIN T : SequenceNo(T)[m] \in (from.seq + 1)..(to.seq - 1)}
    BY <1>3, <1>4, <1>8
  <2> QED BY <1>1, <2>1, <2>2 DEF Passing
<1> QED BY <1>1, <1>7, <1>10, <1>11

-----------------------------------------------------------------------------
(* People *)

\* A number of people is the total of what each name stands for.
LEMMA PeopleIsTotal ==
  ASSUME NEW S, IsFiniteSet(S)
  PROVE  People(S) = Total(Weight, S)
<1>1. PICK run : /\ run = CHOOSE r : IsRunning(r, Weight, S)
                 /\ run[S] = People(S)
  BY DEF People, MapThenSumSet, MapThenFoldSet, IsRunning, Some
<1> QED BY <1>1 DEF Total

LEMMA PeopleCounted ==
  ASSUME NEW S, S \subseteq Users
  PROVE  People(S) \in Nat
<1>1. IsFiniteSet(S)
  BY WeightAssumption, FS_Subset
<1>2. \A u \in S : Weight[u] \in Nat
  BY WeightAssumption
<1> QED BY <1>1, <1>2, PeopleIsTotal, TotalTyped

LEMMA NobodyIsZero == People({}) = 0
  BY PeopleIsTotal, TotalUnfolds, FS_EmptySet

\* What came is what is there less what was there, plus what went.
LEMMA PeopleMove ==
  ASSUME NEW A, NEW B, A \subseteq Users, B \subseteq Users
  PROVE  People(B) - People(A) = People(B \ A) - People(A \ B)
<1>1. /\ IsFiniteSet(A \cap B) /\ IsFiniteSet(A \ B) /\ IsFiniteSet(B \ A)
      /\ IsFiniteSet(A) /\ IsFiniteSet(B)
  BY WeightAssumption, FS_Subset
<1>2. \A u \in A \cup B : Weight[u] \in Int
  BY WeightAssumption
<1>3. /\ Total(Weight, (A \cap B) \cup (A \ B)) = Total(Weight, A \cap B) + Total(Weight, A \ B)
      /\ Total(Weight, (A \cap B) \cup (B \ A)) = Total(Weight, A \cap B) + Total(Weight, B \ A)
  BY <1>1, <1>2, TotalOfUnion
<1>4. (A \cap B) \cup (A \ B) = A /\ (A \cap B) \cup (B \ A) = B
  OBVIOUS
<1>5. /\ People(A) = Total(Weight, A \cap B) + People(A \ B)
      /\ People(B) = Total(Weight, A \cap B) + People(B \ A)
  BY <1>1, <1>3, <1>4, PeopleIsTotal
<1>6. Total(Weight, A \cap B) \in Int
  BY <1>1, <1>2, TotalTyped
<1>7. People(A \ B) \in Nat /\ People(B \ A) \in Nat
  BY PeopleCounted
<1> QED BY <1>5, <1>6, <1>7

-----------------------------------------------------------------------------
(* The page *)

Rows    == [id : Ids, takenAt : Int]
Upto    == 0..MaxPeople
Figures == [members : Upto, added : Upto, removed : Upto]
Counts  == UNION {[K -> Figures] : K \in SUBSET Kinds}

\* The rows read are the history there was when the page was asked for, in order.
Listed ==
  /\ {rows[i].id : i \in DOMAIN rows} = DOMAIN asked
  /\ \A i \in DOMAIN rows :
       /\ SequenceNo(asked)[rows[i].id] = i
       /\ rows[i].takenAt = asked[rows[i].id].takenAt

\* The totals of a row are of a history that was seen, though each may be of
\* another one.
Totalled == \A i \in DOMAIN totals : \E H \in past : totals[i] = TotalsOf(H, rows[i].id)

Paging ==
  /\ Kept(Plotted)
  /\ at \in {"uploads", "totals", "done"}
  /\ rows \in Seq(Rows) /\ totals \in Seq(Counts)
  /\ IF at = "uploads" THEN past = {T} /\ asked = T /\ rows = <<>> /\ totals = <<>>
                       ELSE Listed
  /\ at = "totals" => Len(totals) < Len(rows)
  /\ at = "done" => Len(totals) = Len(rows)
  /\ Totalled

NoPage == at = "done" /\ rows = <<>> /\ totals = <<>>

IInv == DiffInv /\ IF pc = "idle" THEN Paging ELSE NoPage

\* The rows are of executions that were always there.
LEMMA RowsAreStored ==
  ASSUME Paging, Listed, NEW H \in past
  PROVE  /\ IsDated(H) /\ IsStored(H, Plotted)
         /\ \A i \in DOMAIN rows : i \in 1..Len(rows) /\ rows[i].id \in DOMAIN H
<1>1. IsStored(H, Plotted) /\ DOMAIN asked \subseteq DOMAIN H
  BY DEF Paging, Kept
<1>2. \A i \in DOMAIN rows : rows[i].id \in DOMAIN asked
  BY DEF Listed
<1>3. DOMAIN rows = 1..Len(rows)
  BY DEF Paging
<1> QED BY <1>1, <1>2, <1>3, StoredIsDated

LEMMA WorkerMeanwhileReads == IInv /\ WorkerMeanwhile => IInv'
<1> SUFFICES ASSUME IInv, WorkerMeanwhile PROVE IInv'
  OBVIOUS
<1>1. /\ at # "done" /\ Commit(Plotted) /\ Seen(at # "uploads")
      /\ UNCHANGED <<pc, kind, from, to, lost, gained, returned, transient, at, rows, totals>>
  BY DEF WorkerMeanwhile, page, buckets
<1>2. pc = "idle" /\ DiffInv /\ TypeOK /\ Paging
  BY <1>1 DEF IInv, NoPage, DiffInv
<1>3. PICK arrived \in BOOLEAN : arrived = (at # "uploads") /\ Seen(arrived)
  BY <1>1
<1>4. /\ Kept(Plotted)'
      /\ DOMAIN T' \subseteq Ids /\ \A u \in DOMAIN T' : IsExecution(T'[u])
      /\ IF arrived THEN asked' = asked /\ past \subseteq past' ELSE past' = {T'}
  <2>1. Kept(Plotted) /\ \A e \in Plotted : IsExecution(e)
    BY <1>2, PlottedAssumption DEF Paging
  <2> QED BY <1>1, <1>3, <2>1, SeenKeeps
<1>5. DiffInv'
  BY <1>1, <1>2, <1>4 DEF DiffInv, TypeOK, Kept
<1>6. CASE at = "uploads"
  <2>1. past' = {T'} /\ asked' = T' /\ totals' = <<>>
    BY <1>1, <1>2, <1>3, <1>4, <1>6 DEF Paging, Kept
  <2> QED BY <1>1, <1>2, <1>4, <1>5, <1>6, <2>1 DEF IInv, Paging, Totalled
<1>7. CASE at # "uploads"
  <2>1. asked' = asked /\ past \subseteq past' /\ Listed /\ Totalled
    BY <1>2, <1>3, <1>4, <1>7 DEF Paging
  <2>2. Listed'
    BY <1>1, <2>1 DEF Listed
  <2>3. \A H, v : TotalsOf(H, v)' = TotalsOf(H, v)
    BY DEF TotalsOf, Counted
  <2>4. Totalled'
    BY <1>1, <2>1, <2>3 DEF Totalled
  <2> QED BY <1>1, <1>2, <1>4, <1>5, <1>7, <2>2, <2>4 DEF IInv, Paging
<1> QED BY <1>6, <1>7

LEMMA ListUploadsReads ==
  ASSUME IInv, ListUploads
  PROVE  IInv'
<1>1. /\ at = "uploads"
      /\ UNCHANGED <<T, asked, past, pc, kind, from, to, lost, gained, returned, transient,
                     totals>>
  BY DEF ListUploads, vars, history, buckets
<1>2. pc = "idle" /\ DiffInv /\ Paging
  BY <1>1 DEF IInv, NoPage
<1>3. IsStored(T, Plotted) /\ asked = T /\ totals = <<>> /\ IsDated(T)
  BY <1>1, <1>2, StoredIsDated DEF Paging, Kept
<1>4. PICK s, n : s = SequenceNo(T) /\ n = Cardinality(DOMAIN T)
  OBVIOUS
<1>5. n \in Nat /\ {s[u] : u \in DOMAIN T} = 1..n /\ (DOMAIN T = {} <=> n = 0)
  BY <1>3, <1>4, Ranking, FS_CardinalityType, FS_EmptySet DEF IsDated
<1> DEFINE nth(i) == CHOOSE v \in DOMAIN T : s[v] = i
<1>6. \A i \in 1..n : nth(i) \in DOMAIN T /\ s[nth(i)] = i
  <2> SUFFICES ASSUME NEW i \in 1..n PROVE nth(i) \in DOMAIN T /\ s[nth(i)] = i
    OBVIOUS
  <2>1. \E v \in DOMAIN T : s[v] = i
    BY <1>5
  <2> QED BY <2>1
<1>7. rows' = [i \in 1..n |-> [id |-> nth(i), takenAt |-> T[nth(i)].takenAt]]
  BY <1>4 DEF ListUploads
<1> HIDE DEF nth
<1>8. \A i \in 1..n : /\ rows'[i].id = nth(i)
                      /\ rows'[i].takenAt = T[nth(i)].takenAt
                      /\ rows'[i] \in Rows
  <2>1. DOMAIN T \subseteq Ids
    BY <1>3, StoredTypes
  <2>2. \A i \in 1..n : nth(i) \in Ids /\ T[nth(i)].takenAt \in Int
    BY <1>3, <1>6, <2>1 DEF IsDated
  <2> QED BY <1>7, <2>2 DEF Rows
<1>9. rows' \in Seq(Rows) /\ Len(rows') = n /\ DOMAIN rows' = 1..n
  <2>1. rows' \in [1..n -> Rows]
    BY <1>7, <1>8
  <2> QED BY <1>5, <2>1
<1>10. Listed'
  <2>1. \A u \in DOMAIN T : s[u] \in 1..n /\ nth(s[u]) = u
    <3> SUFFICES ASSUME NEW u \in DOMAIN T PROVE s[u] \in 1..n /\ nth(s[u]) = u
      OBVIOUS
    <3>1. s[u] \in 1..n
      BY <1>5
    <3>2. nth(s[u]) \in DOMAIN T /\ s[nth(s[u])] = s[u]
      BY <1>6, <3>1
    <3>3. nth(s[u]) = u
      BY <1>3, <1>4, <3>2, NumbersCompare
    <3> QED BY <3>1, <3>3
  <2>2. {rows'[i].id : i \in DOMAIN rows'} = DOMAIN T
    <3>1. \A i \in DOMAIN rows' : rows'[i].id \in DOMAIN T
      BY <1>6, <1>8, <1>9
    <3>2. \A u \in DOMAIN T : s[u] \in DOMAIN rows' /\ rows'[s[u]].id = u
      BY <1>8, <1>9, <2>1
    <3> QED BY <3>1, <3>2
  <2>3. asked' = T
    BY <1>1, <1>3
  <2> QED BY <1>4, <1>6, <1>8, <1>9, <2>2, <2>3 DEF Listed
<1>11. /\ at' \in {"totals", "done"}
       /\ at' = "done" <=> n = 0
  <2>1. T = [u \in {} |-> {}] <=> DOMAIN T = {}
    BY <1>3 DEF IsStored
  <2> QED BY <1>5, <2>1 DEF ListUploads
<1>12. Paging'
  <2>1. Kept(Plotted)'
    BY <1>1, <1>2 DEF Paging, Kept, IsStored
  <2> QED BY <1>1, <1>2, <1>3, <1>5, <1>9, <1>10, <1>11, <2>1 DEF Paging, Totalled
<1>13. DiffInv'
  BY <1>1, <1>2 DEF DiffInv, TypeOK
<1> QED BY <1>1, <1>2, <1>12, <1>13 DEF IInv

LEMMA FiguresAreNumbers == 0 \in Upto /\ Upto \subseteq Nat
<1>1. MaxPeople \in Nat
  BY DEF MaxPeople
<1> QED BY <1>1 DEF Upto

\* Those on a list, and any part of them, are no more than a list may have.
LEMMA PeopleFit ==
  ASSUME NEW H, IsStored(H, Plotted), NEW u \in DOMAIN H, NEW k,
         NEW S, S \subseteq Members(H[u].lists, k)
  PROVE  People(S) \in Upto
<1> PICK lists : lists = H[u].lists
  OBVIOUS
<1>1. PICK R : R = Members(lists, k)
  OBVIOUS
<1>2. PICK e \in Plotted : lists = e.lists
  BY DEF IsStored
<1>3. \A l \in DOMAIN lists : DOMAIN lists[l] \subseteq Users
  BY <1>2, PlottedAssumption DEF IsExecution
<1>4. \A l \in DOMAIN lists : People(DOMAIN lists[l]) <= MaxPeople
  BY <1>2, PlottedAssumption
<1>5. R \subseteq Users /\ (R = {} \/ \E l \in DOMAIN lists : R = DOMAIN lists[l])
  BY <1>1, <1>3 DEF Members, Carries
<1>6. People({}) <= MaxPeople
  BY NobodyIsZero DEF MaxPeople
<1>7. People(R) <= MaxPeople
  BY <1>4, <1>5, <1>6
<1>8. IsFiniteSet(R) /\ IsFiniteSet(S) /\ \A x \in R : Weight[x] \in Nat
  BY <1>1, <1>5, WeightAssumption, FS_Subset
<1>9. S \in SUBSET R
  BY <1>1
<1>10. /\ Total(Weight, S) \in Nat
       /\ Total(Weight, R) \in Nat
       /\ Total(Weight, S) <= Total(Weight, R)
  BY <1>8, <1>9, TotalGrows
<1>11. People(S) = Total(Weight, S) /\ People(R) = Total(Weight, R)
  BY <1>8, PeopleIsTotal
<1>12. MaxPeople \in Nat
  BY DEF MaxPeople
<1> QED BY <1>7, <1>10, <1>11, <1>12 DEF Upto

\* What an execution changed on a list was on it then, or is now.
LEMMA RecordedIsListed ==
  ASSUME NEW H, IsDated(H), NEW u \in DOMAIN H, NEW k, NEW type \in {"followed", "unfollowed"}
  PROVE  \E v \in DOMAIN H : Recorded(H, u, k, type) \subseteq Members(H[v].lists, k)
<1>1. CASE Recorded(H, u, k, type) = {}
  BY <1>1
<1>2. CASE Recorded(H, u, k, type) # {}
  <2>1. PICK c \in Changes(H) : c.upload = u
    BY <1>2 DEF Recorded
  <2>2. PICK p : p = c.prev
    OBVIOUS
  <2>3. IsLogOf(Changes(H), H)
    BY ChangesAreLog
  <2>4. <<p, u>> \in Neighbours(H)
    BY <2>1, <2>2, <2>3 DEF IsLogOf
  <2>5. p \in DOMAIN H
    BY <2>4 DEF Neighbours
  <2>6. /\ Recorded(H, u, k, "followed") \subseteq Arrived(H[p].lists, H[u].lists, k)
        /\ Recorded(H, u, k, "unfollowed") \subseteq Departed(H[p].lists, H[u].lists, k)
    BY <2>4, <2>5, RecordedIsDifference
  <2> QED BY <2>5, <2>6 DEF Arrived, Departed
<1> QED BY <1>1, <1>2

\* The totals of an execution, in the terms of the page's invariant.
LEMMA TotalsTyped ==
  ASSUME NEW H, IsStored(H, Plotted), NEW u \in DOMAIN H
  PROVE  /\ TotalsOf(H, u) \in Counts
         /\ DOMAIN TotalsOf(H, u) = DOMAIN H[u].lists
         /\ \A k \in DOMAIN H[u].lists :
              /\ TotalsOf(H, u)[k].members = People(Members(H[u].lists, k))
              /\ TotalsOf(H, u)[k].added = People(Recorded(H, u, k, "followed"))
              /\ TotalsOf(H, u)[k].removed = People(Recorded(H, u, k, "unfollowed"))
<1>1. PICK K : K = DOMAIN H[u].lists /\ K \subseteq Kinds
  BY DEF IsStored, IsExecution
<1>2. \A k : /\ Counted(H, u, k, "followed") = People(Recorded(H, u, k, "followed"))
             /\ Counted(H, u, k, "unfollowed") = People(Recorded(H, u, k, "unfollowed"))
  BY DEF Counted, Recorded
<1>3. IsDated(H)
  BY StoredIsDated
<1>4. \A k : \A type \in {"followed", "unfollowed"} : People(Recorded(H, u, k, type)) \in Upto
  <2> SUFFICES ASSUME NEW k, NEW type \in {"followed", "unfollowed"}
               PROVE  People(Recorded(H, u, k, type)) \in Upto
    OBVIOUS
  <2>1. PICK v \in DOMAIN H : Recorded(H, u, k, type) \subseteq Members(H[v].lists, k)
    BY <1>3, RecordedIsListed
  <2> QED BY <2>1, PeopleFit
<1>5. \A k : /\ People(Recorded(H, u, k, "followed")) \in Upto
             /\ People(Recorded(H, u, k, "unfollowed")) \in Upto
  BY <1>4
<1>6. \A k : People(Members(H[u].lists, k)) \in Upto
  BY PeopleFit
<1> DEFINE figures(k) == [members |-> People(Members(H[u].lists, k)),
                          added   |-> Counted(H, u, k, "followed"),
                          removed |-> Counted(H, u, k, "unfollowed")]
<1>7. TotalsOf(H, u) = [k \in K |-> figures(k)]
  BY <1>1 DEF TotalsOf
<1>8. \A k : /\ figures(k) \in Figures
             /\ figures(k).members = People(Members(H[u].lists, k))
             /\ figures(k).added = People(Recorded(H, u, k, "followed"))
             /\ figures(k).removed = People(Recorded(H, u, k, "unfollowed"))
  BY <1>2, <1>5, <1>6 DEF Figures
<1> HIDE DEF figures
<1>9. TotalsOf(H, u) \in [K -> Figures]
  BY <1>7, <1>8
<1> QED BY <1>1, <1>7, <1>8, <1>9 DEF Counts

\* The same, of its sizes alone.
LEMMA TotalsAreListed ==
  ASSUME NEW H, IsStored(H, Plotted), NEW u \in DOMAIN H,
         NEW lists, lists = H[u].lists, NEW new, new = TotalsOf(H, u)
  PROVE  /\ DOMAIN new = DOMAIN lists
         /\ \A k \in DOMAIN lists : new[k].members = People(Members(lists, k))
<1>1. /\ DOMAIN TotalsOf(H, u) = DOMAIN H[u].lists
      /\ \A k \in DOMAIN H[u].lists :
           TotalsOf(H, u)[k].members = People(Members(H[u].lists, k))
  BY TotalsTyped
<1> QED BY <1>1

LEMMA ListTotalsReads ==
  ASSUME IInv, ListTotalsForUpload
  PROVE  IInv'
<1>1. /\ at = "totals"
      /\ UNCHANGED <<T, asked, past, pc, kind, from, to, lost, gained, returned, transient,
                     rows>>
  BY DEF ListTotalsForUpload, vars, history, buckets
<1>2. pc = "idle" /\ DiffInv /\ Paging /\ Listed /\ T \in past
  BY <1>1 DEF IInv, NoPage, Paging, Kept
<1>3. PICK i, u, new : i = Len(totals) + 1 /\ u = rows[i].id /\ new = TotalsOf(T, u)
  OBVIOUS
<1>4. /\ rows \in Seq(Rows) /\ totals \in Seq(Counts) /\ Len(totals) < Len(rows)
      /\ i \in DOMAIN rows
  BY <1>1, <1>2, <1>3 DEF Paging
<1>5. u \in DOMAIN T /\ IsStored(T, Plotted)
  BY <1>2, <1>3, <1>4, RowsAreStored
<1>6. new \in Counts
  BY <1>3, <1>5, TotalsTyped
<1>7. /\ totals' = Append(totals, new)
      /\ at' = IF i = Len(rows) THEN "done" ELSE "totals"
  BY <1>3 DEF ListTotalsForUpload
<1>8. /\ totals' \in Seq(Counts) /\ Len(totals') = i
      /\ \A j \in DOMAIN totals : totals'[j] = totals[j]
      /\ totals'[i] = new /\ DOMAIN totals' = DOMAIN totals \cup {i}
  BY <1>3, <1>4, <1>6, <1>7
<1>9. Totalled'
  <2>1. \A H, v : TotalsOf(H, v)' = TotalsOf(H, v)
    BY DEF TotalsOf, Counted
  <2>2. \A j \in DOMAIN totals : \E H \in past : totals'[j] = TotalsOf(H, rows[j].id)
    BY <1>2, <1>8 DEF Paging, Totalled
  <2>3. \E H \in past : totals'[i] = TotalsOf(H, rows[i].id)
    BY <1>2, <1>3, <1>8
  <2> QED BY <1>1, <1>8, <2>1, <2>2, <2>3 DEF Totalled
<1>10. /\ at' \in {"totals", "done"}
       /\ at' = "totals" => Len(totals') < Len(rows')
       /\ at' = "done" => Len(totals') = Len(rows')
  BY <1>1, <1>3, <1>4, <1>7, <1>8
<1>11. Listed' /\ Kept(Plotted)'
  BY <1>1, <1>2 DEF Paging, Listed, Kept, IsStored
<1>12. Paging'
  BY <1>1, <1>2, <1>8, <1>9, <1>10, <1>11 DEF Paging
<1>13. DiffInv'
  BY <1>1, <1>2 DEF DiffInv, TypeOK
<1> QED BY <1>1, <1>2, <1>12, <1>13 DEF IInv

LEMMA TrendsNextReads == IInv /\ [TrendsNext]_allVars => IInv'
<1> SUFFICES ASSUME IInv, [TrendsNext]_allVars PROVE IInv'
  OBVIOUS
<1>1. CASE Compare
  <2>1. Next /\ UNCHANGED <<at, rows, totals>>
    BY <1>1 DEF Compare, page
  <2>2. pc # "idle" /\ pc' # "idle"
    BY <2>1 DEF Next, Worker, ResolveFrom, ResolveTo, Lost, Gained, Returned, Transient
  <2> QED BY <2>1, <2>2, NextReads DEF IInv, NoPage
<1>2. CASE WorkerMeanwhile
  BY <1>2, WorkerMeanwhileReads
<1>3. CASE ListUploads
  BY <1>3, ListUploadsReads
<1>4. CASE ListTotalsForUpload
  BY <1>4, ListTotalsReads
<1>5. CASE UNCHANGED allVars
  <2>1. UNCHANGED vars /\ UNCHANGED <<at, rows, totals>>
    BY <1>5 DEF allVars, page
  <2>2. DiffInv'
    BY <2>1, NextReads DEF IInv
  <2>3. UNCHANGED <<T, asked, past, pc, kind>>
    BY <2>1 DEF vars, history
  <2>4. Totalled <=> Totalled'
    BY <2>1, <2>3 DEF Totalled, TotalsOf, Counted
  <2>5. Kept(Plotted) <=> Kept(Plotted)'
    BY <2>3 DEF Kept, IsStored
  <2>6. Paging <=> Paging'
    BY <2>1, <2>3, <2>4, <2>5 DEF Paging, Listed
  <2> QED BY <2>1, <2>2, <2>3, <2>6 DEF IInv, NoPage
<1> QED BY <1>1, <1>2, <1>3, <1>4, <1>5 DEF TrendsNext

LEMMA TrendsInitReads == TrendsInit => IInv
<1> SUFFICES ASSUME TrendsInit PROVE IInv
  OBVIOUS
<1>1. /\ Blank /\ rows = <<>> /\ totals = <<>>
      /\ (pc = "from" /\ at = "done") \/ (pc = "idle" /\ at = "uploads")
  BY DEF TrendsInit
<1>2. DiffInv
  BY <1>1, BlankReads
<1>3. CASE pc = "idle" /\ at = "uploads"
  <2>1. asked = T /\ past = {T}
    BY <1>1 DEF Blank
  <2>2. Kept(Plotted)
    BY <1>1, BlankIsKept
  <2> QED BY <1>1, <1>2, <1>3, <2>1, <2>2 DEF IInv, Paging, Totalled
<1>4. CASE pc = "from" /\ at = "done"
  BY <1>1, <1>2, <1>4 DEF IInv, NoPage
<1> QED BY <1>1, <1>3, <1>4

LEMMA ReadInvariant == TrendsSpec => []IInv
<1> QED BY TrendsInitReads, TrendsNextReads, PTL DEF TrendsSpec

-----------------------------------------------------------------------------
(* What the invariant says *)

\* The types of both requests.
THEOREM TypesOfReads == TrendsSpec => []PageTypeOK
<1>1. IInv => PageTypeOK
  <2> SUFFICES ASSUME IInv PROVE PageTypeOK
    OBVIOUS
  <2>1. TypeOK
    BY DEF IInv, DiffInv
  <2>2. CASE pc # "idle"
    BY <2>1, <2>2 DEF IInv, NoPage, PageTypeOK
  <2>3. CASE pc = "idle" /\ at = "uploads"
    BY <2>1, <2>3 DEF IInv, Paging, PageTypeOK
  <2>4. CASE pc = "idle" /\ at # "uploads"
    <3>1. Paging /\ Listed
      BY <2>4 DEF IInv, Paging
    <3>2. \A i \in DOMAIN rows : rows[i].id \in DOMAIN T /\ rows[i].takenAt \in Int
      <4>1. \A i \in DOMAIN rows : rows[i].id \in DOMAIN T
        BY <3>1, RowsAreStored DEF Paging, Kept
      <4>2. \A i \in DOMAIN rows : rows[i] \in Rows
        BY <3>1 DEF Paging
      <4> QED BY <4>1, <4>2 DEF Rows
    <3>3. Len(totals) <= Len(rows)
      BY <3>1 DEF Paging
    <3>4. ASSUME NEW i \in DOMAIN totals, NEW k \in DOMAIN totals[i]
          PROVE  k \in Kinds /\ totals[i][k] \in [members : Nat, added : Nat, removed : Nat]
      <4>1. k \in Kinds /\ totals[i][k] \in Figures
        BY <3>1 DEF Paging, Counts
      <4>2. Upto \subseteq Nat
        BY DEF Upto
      <4> QED BY <4>1, <4>2 DEF Figures
    <3> QED BY <2>1, <3>1, <3>2, <3>3, <3>4 DEF Paging, PageTypeOK
  <2> QED BY <2>2, <2>3, <2>4
<1> QED BY <1>1, ReadInvariant, PTL

\* A comparison of executions between which every one carried the list says what
\* their lists say, for any history and whatever the worker did meanwhile after
\* the newer of the two.
THEOREM ComparisonIsExact == TrendsSpec => []ExactWhenCarried
<1>1. IInv => ExactWhenCarried
  BY ReadsAreExact DEF IInv
<1> QED BY <1>1, ReadInvariant, PTL

\* What a page that is served has read.
LEMMA ServedIsRead ==
  ASSUME IInv, Served
  PROVE  /\ DiffInv /\ Paging /\ Listed
         /\ Len(rows) \in Nat /\ DOMAIN rows = 1..Len(rows)
         /\ DOMAIN totals = DOMAIN rows /\ Len(totals) = Len(rows)
         /\ DOMAIN Executed = DOMAIN totals
         /\ \A i \in DOMAIN totals :
              Executed[i] =
                [takenAt |-> rows[i].takenAt,
                 totals  |-> [k \in DOMAIN totals[i] |-> totals[i][k].members],
                 added   |-> [k \in DOMAIN totals[i] |-> totals[i][k].added],
                 removed |-> [k \in DOMAIN totals[i] |-> totals[i][k].removed]]
<1>1. DiffInv /\ Paging /\ Listed /\ Len(totals) = Len(rows)
  BY DEF IInv, NoPage, Served, Paging
<1>2. rows \in Seq(Rows) /\ totals \in Seq(Counts)
  BY <1>1 DEF Paging
<1> QED BY <1>1, <1>2 DEF Executed

\* The lines of the page are those of the history there was when it was asked
\* for, each with the lists it had at some moment since then, whatever was
\* recorded, read again or dated again meanwhile.
THEOREM PageIsAsAsked == TrendsSpec => []TrendIsAsAsked
<1>1. IInv => TrendIsAsAsked
  <2> SUFFICES ASSUME IInv, Served
               PROVE  /\ {rows[i].id : i \in DOMAIN rows} = DOMAIN asked
                      /\ \A i, j \in DOMAIN rows :
                           i < j => Precedes(asked, rows[i].id, rows[j].id)
                      /\ \A i \in DOMAIN rows :
                           /\ Executed[i].takenAt = asked[rows[i].id].takenAt
                           /\ \E H \in past :
                                Executed[i].totals =
                                  [k \in DOMAIN H[rows[i].id].lists |->
                                     People(Members(H[rows[i].id].lists, k))]
    BY DEF TrendIsAsAsked
  <2>1. /\ Paging /\ Listed /\ asked \in past
        /\ DOMAIN totals = DOMAIN rows
    BY ServedIsRead DEF Paging, Kept
  <2>2. IsDated(asked) /\ \A i \in DOMAIN rows : rows[i].id \in DOMAIN asked
    BY <2>1, RowsAreStored
  <2>3. ASSUME NEW i \in DOMAIN rows, NEW j \in DOMAIN rows, i < j
        PROVE  Precedes(asked, rows[i].id, rows[j].id)
    <3>1. /\ SequenceNo(asked)[rows[i].id] = i /\ rows[i].id \in DOMAIN asked
          /\ SequenceNo(asked)[rows[j].id] = j /\ rows[j].id \in DOMAIN asked
      BY <2>1, <2>2 DEF Listed
    <3> QED BY <2>2, <2>3, <3>1, NumbersCompare
  <2>4. ASSUME NEW i \in DOMAIN rows
        PROVE  /\ Executed[i].takenAt = asked[rows[i].id].takenAt
               /\ \E H \in past :
                    Executed[i].totals = [k \in DOMAIN H[rows[i].id].lists |->
                                            People(Members(H[rows[i].id].lists, k))]
    <3>1. PICK H \in past : totals[i] = TotalsOf(H, rows[i].id)
      BY <2>1 DEF Paging, Totalled
    <3>2. IsStored(H, Plotted) /\ rows[i].id \in DOMAIN H
      BY <2>1, RowsAreStored
    <3>3. PICK lists, u : u = rows[i].id /\ lists = H[u].lists
      OBVIOUS
    <3>4. /\ DOMAIN totals[i] = DOMAIN lists
          /\ \A k \in DOMAIN lists : totals[i][k].members = People(Members(lists, k))
      <4>1. PICK new : new = TotalsOf(H, u)
        OBVIOUS
      <4>2. /\ DOMAIN new = DOMAIN lists
            /\ \A k \in DOMAIN lists : new[k].members = People(Members(lists, k))
        BY <3>2, <3>3, <4>1, TotalsAreListed
      <4>3. new = totals[i]
        BY <3>1, <3>3, <4>1
      <4> QED BY <4>2, <4>3, Zenon
    <3>5. PICK new, e : new = totals[i] /\ e = Executed[i]
      OBVIOUS
    <3>6. e.takenAt = rows[i].takenAt /\ e.totals = [k \in DOMAIN new |-> new[k].members]
      <4>1. e = [takenAt |-> rows[i].takenAt,
                 totals  |-> [k \in DOMAIN new |-> new[k].members],
                 added   |-> [k \in DOMAIN new |-> new[k].added],
                 removed |-> [k \in DOMAIN new |-> new[k].removed]]
        BY <2>1, <3>5, ServedIsRead
      <4> QED BY <4>1
    <3>7. /\ DOMAIN new = DOMAIN lists
          /\ \A k \in DOMAIN lists : new[k].members = People(Members(lists, k))
      BY <3>4, <3>5, Zenon
    <3>8. e.totals = [k \in DOMAIN lists |-> People(Members(lists, k))]
      BY <3>6, <3>7
    <3>9. rows[i].takenAt = asked[rows[i].id].takenAt
      BY <2>1 DEF Listed
    <3> QED BY <3>3, <3>5, <3>6, <3>8, <3>9
  <2> QED BY <2>1, <2>3, <2>4 DEF Listed
<1> QED BY <1>1, ReadInvariant, PTL

\* A bar between two rows that were neighbours when it was read.
LEMMA BarIsDifference ==
  ASSUME IInv, Served, NEW i \in 2..Len(rows), NEW k,
         NEW H \in past, totals[i] = TotalsOf(H, rows[i].id),
         <<rows[i - 1].id, rows[i].id>> \in Neighbours(H),
         NEW prev, prev = H[rows[i - 1].id].lists, NEW cur, cur = H[rows[i].id].lists
  PROVE  /\ Bar(Executed, i, k).gained
              = IF k \in Shared(prev, cur) THEN People(Arrived(prev, cur, k)) ELSE 0
         /\ Bar(Executed, i, k).lost
              = IF k \in Shared(prev, cur) THEN People(Departed(prev, cur, k)) ELSE 0
<1>1. /\ Paging /\ Listed
      /\ Len(rows) \in Nat /\ DOMAIN rows = 1..Len(rows) /\ DOMAIN totals = DOMAIN rows
  BY ServedIsRead
<1>2. i \in DOMAIN totals /\ i > 1
  BY <1>1
<1>3. /\ Executed[i].added = [l \in DOMAIN totals[i] |-> totals[i][l].added]
      /\ Executed[i].removed = [l \in DOMAIN totals[i] |-> totals[i][l].removed]
  BY <1>2, ServedIsRead
<1>4. /\ Bar(Executed, i, k).gained = Count(Executed[i].added, k)
      /\ Bar(Executed, i, k).lost = Count(Executed[i].removed, k)
  BY DEF Bar
<1>5. PICK p, u : p = rows[i - 1].id /\ u = rows[i].id
  OBVIOUS
<1>6. IsDated(H) /\ IsStored(H, Plotted) /\ u \in DOMAIN H
  BY <1>1, <1>2, <1>5, RowsAreStored
<1>7. /\ Recorded(H, u, k, "followed")
           = IF k \in Shared(prev, cur) THEN Arrived(prev, cur, k) ELSE {}
      /\ Recorded(H, u, k, "unfollowed")
           = IF k \in Shared(prev, cur) THEN Departed(prev, cur, k) ELSE {}
  BY <1>5, <1>6, RecordedIsDifference
<1>8. /\ DOMAIN totals[i] = DOMAIN cur
      /\ k \in DOMAIN totals[i] =>
           /\ totals[i][k].added = People(Recorded(H, u, k, "followed"))
           /\ totals[i][k].removed = People(Recorded(H, u, k, "unfollowed"))
  BY <1>5, <1>6, TotalsTyped
<1>9. k \in Shared(prev, cur) => k \in DOMAIN totals[i]
  BY <1>8 DEF Shared
<1>10. CASE k \in DOMAIN totals[i]
  <2>1. /\ Count(Executed[i].added, k) = totals[i][k].added
        /\ Count(Executed[i].removed, k) = totals[i][k].removed
    BY <1>3, <1>10 DEF Count
  <2> QED BY <1>4, <1>7, <1>8, <1>10, <2>1, NobodyIsZero
<1>11. CASE k \notin DOMAIN totals[i]
  <2>1. Count(Executed[i].added, k) = 0 /\ Count(Executed[i].removed, k) = 0
    BY <1>3, <1>11 DEF Count
  <2> QED BY <1>4, <1>9, <1>11, <2>1
<1> QED BY <1>10, <1>11

\* The bar between two executions shows how they differ, as long as the worker left
\* these two next to each other and as they were, whatever else it did.
THEOREM BarsCompare == TrendsSpec => []BarsAreTheComparison
<1>1. IInv => BarsAreTheComparison
  <2> SUFFICES ASSUME IInv, Served, NEW i \in 1..(Len(rows) - 1),
                      Together(rows[i].id, rows[i + 1].id),
                      NEW prev, prev = T[rows[i].id].lists,
                      NEW cur, cur = T[rows[i + 1].id].lists,
                      NEW bar, bar = Bar(Executed, i + 1, ListKind)
               PROVE  IF ListKind \in Shared(prev, cur)
                        THEN /\ bar.gained = People(Arrived(prev, cur, ListKind))
                             /\ bar.lost = People(Departed(prev, cur, ListKind))
                        ELSE bar.gained = 0 /\ bar.lost = 0
    BY DEF BarsAreTheComparison
  <2>1. PICK k, j : k = ListKind /\ j = i + 1
    OBVIOUS
  <2>2. j \in 2..Len(rows) /\ rows[j - 1] = rows[i]
    BY <2>1, ServedIsRead
  <2>3. PICK H \in past : totals[j] = TotalsOf(H, rows[j].id)
    <3>1. Paging /\ Len(rows) \in Nat /\ DOMAIN totals = 1..Len(rows)
      BY ServedIsRead
    <3> QED BY <2>2, <3>1 DEF Paging, Totalled
  <2>4. /\ <<rows[j - 1].id, rows[j].id>> \in Neighbours(H)
        /\ prev = H[rows[j - 1].id].lists /\ cur = H[rows[j].id].lists
    BY <2>1, <2>2 DEF Together
  <2>5. /\ bar.gained = IF k \in Shared(prev, cur) THEN People(Arrived(prev, cur, k)) ELSE 0
        /\ bar.lost = IF k \in Shared(prev, cur) THEN People(Departed(prev, cur, k)) ELSE 0
    BY <2>1, <2>2, <2>3, <2>4, BarIsDifference
  <2> QED BY <2>1, <2>5
<1> QED BY <1>1, ReadInvariant, PTL

\* What the sum of the bars folds.
LEMMA BarsAreSummed ==
  ASSUME NEW n \in Nat, NEW g,
         \A i \in 2..n : g[i] = Bar(Executed, i, ListKind).gained
                                - Bar(Executed, i, ListKind).lost
  PROVE  MapThenSumSet(LAMBDA i : Bar(Executed, i, ListKind).gained
                                  - Bar(Executed, i, ListKind).lost, 2..n)
           = Total(g, 2..n)
<1> DEFINE d(i) == Bar(Executed, i, ListKind).gained - Bar(Executed, i, ListKind).lost
<1>1. PICK run :
        /\ run = CHOOSE r :
             r = [s \in SUBSET (2..n) |-> IF s = {} THEN 0
                                          ELSE d(Some(s)) + r[s \ {Some(s)}]]
        /\ run[2..n] =
             MapThenSumSet(LAMBDA i : Bar(Executed, i, ListKind).gained
                                      - Bar(Executed, i, ListKind).lost, 2..n)
  BY DEF MapThenSumSet, MapThenFoldSet, Some
<1>2. \A i \in 2..n : g[i] = d(i)
  OBVIOUS
<1> HIDE DEF d
<1>3. IsFiniteSet(2..n)
  BY FS_Interval
<1>4. \A s \in SUBSET (2..n) : s # {} => Some(s) \in 2..n
  BY DEF Some
<1>5. \A r : IsRunning(r, g, 2..n) <=>
               r = [s \in SUBSET (2..n) |-> IF s = {} THEN 0
                                            ELSE d(Some(s)) + r[s \ {Some(s)}]]
  BY <1>2, <1>4 DEF IsRunning
<1>6. \E r : IsRunning(r, g, 2..n)
  BY <1>3, RunningExists
<1>7. IsRunning(run, g, 2..n)
  BY <1>1, <1>5, <1>6
<1> QED BY <1>1, <1>3, <1>7, RunningIsTotal

\* The headline and the bars of a page whose executions the worker left alone are
\* two derivations of one movement, for any history that carried the list
\* throughout.
THEOREM TilesAndBars == TrendsSpec => []TilesAgreeWithBars
<1>1. IInv => TilesAgreeWithBars
  <2> SUFFICES ASSUME IInv, Served, Settled(Len(rows)), NEW k, k = ListKind, HasDelta(k),
                      \A i \in DOMAIN totals : k \in DOMAIN totals[i],
                      NEW n, n = Len(totals)
               PROVE  Delta(k) =
                        MapThenSumSet(LAMBDA i : Bar(Executed, i, ListKind).gained
                                                 - Bar(Executed, i, ListKind).lost, 2..n)
    BY DEF TilesAgreeWithBars
  <2>1. /\ Paging /\ Listed /\ Totalled /\ asked \in past
        /\ n \in Nat /\ n > 1 /\ DOMAIN rows = 1..n /\ DOMAIN totals = 1..n /\ Len(rows) = n
    BY ServedIsRead DEF HasDelta, Paging, Kept
  <2>2. /\ IsDated(asked)
        /\ \A i \in 1..n : /\ rows[i].id \in DOMAIN asked
                            /\ SequenceNo(asked)[rows[i].id] = i
    BY <2>1, RowsAreStored DEF Listed
  <2>3. \A H \in past : IsDated(H) /\ Oldest(asked, n) = Oldest(H, n)
    BY <2>1, RowsAreStored DEF Settled
  <2>4. ASSUME NEW H \in past, NEW i \in 1..n
        PROVE  H[rows[i].id] = asked[rows[i].id]
    BY <2>1, <2>2, <2>3, SameNumbers
  <2>5. ASSUME NEW H \in past, NEW i \in 2..n
        PROVE  <<rows[i - 1].id, rows[i].id>> \in Neighbours(H)
    <3>1. i \in 1..n /\ i - 1 \in 1..n /\ i <= n /\ n \in Int
      BY <2>1
    <3> QED BY <2>2, <2>3, <3>1, SameNeighbours
  <2> DEFINE list(i) == Members(asked[rows[i].id].lists, k)
             size    == [i \in 1..n |-> People(list(i))]
             step    == [i \in 2..n |-> Bar(Executed, i, ListKind).gained
                                        - Bar(Executed, i, ListKind).lost]
  <2>6. \A i \in 1..n : /\ list(i) \subseteq Users
                        /\ totals[i][k].members = People(list(i))
                        /\ Carries(asked[rows[i].id].lists, k)
    <3> SUFFICES ASSUME NEW i \in 1..n
                 PROVE  /\ list(i) \subseteq Users
                        /\ totals[i][k].members = People(list(i))
                        /\ Carries(asked[rows[i].id].lists, k)
      OBVIOUS
    <3>1. PICK H \in past : totals[i] = TotalsOf(H, rows[i].id)
      BY <2>1 DEF Totalled
    <3>2. IsStored(H, Plotted) /\ rows[i].id \in DOMAIN H
      BY <2>1, RowsAreStored
    <3>3. PICK lists, u : u = rows[i].id /\ lists = H[u].lists
      OBVIOUS
    <3>4. k \in DOMAIN lists /\ totals[i][k].members = People(Members(lists, k))
      <4>1. k \in DOMAIN totals[i]
        BY <2>1
      <4>2. PICK new : new = TotalsOf(H, u)
        OBVIOUS
      <4>3. /\ DOMAIN new = DOMAIN lists
            /\ \A l \in DOMAIN lists : new[l].members = People(Members(lists, l))
        BY <3>2, <3>3, <4>2, TotalsAreListed
      <4>4. new = totals[i]
        BY <3>1, <3>3, <4>2
      <4> QED BY <4>1, <4>3, <4>4, Zenon
    <3>5. lists = asked[rows[i].id].lists
      BY <2>4, <3>3
    <3>6. Members(lists, k) \subseteq Users
      BY <3>2, <3>3 DEF IsStored, IsExecution, Carries, Members
    <3> QED BY <3>4, <3>5, <3>6 DEF Carries
  <2>7. ASSUME NEW i \in 2..n PROVE step[i] = size[i] - size[i - 1]
    <3>1. i \in 1..n /\ i - 1 \in 1..n
      OBVIOUS
    <3>2. PICK prev, cur : /\ prev = asked[rows[i - 1].id].lists
                           /\ cur = asked[rows[i].id].lists
      OBVIOUS
    <3>3. PICK H \in past : totals[i] = TotalsOf(H, rows[i].id)
      BY <2>1, <3>1 DEF Totalled
    <3>4. k \in Shared(prev, cur)
      BY <2>6, <3>1, <3>2 DEF Shared, Carries
    <3>5. /\ Bar(Executed, i, k).gained = People(Arrived(prev, cur, k))
          /\ Bar(Executed, i, k).lost = People(Departed(prev, cur, k))
      <4>1. /\ <<rows[i - 1].id, rows[i].id>> \in Neighbours(H)
            /\ prev = H[rows[i - 1].id].lists /\ cur = H[rows[i].id].lists
        BY <2>4, <2>5, <3>1, <3>2
      <4> QED BY <2>1, <3>3, <3>4, <4>1, BarIsDifference
    <3>6. PICK A, B : /\ A = list(i - 1) /\ B = list(i)
                      /\ A \subseteq Users /\ B \subseteq Users
      BY <2>6, <3>1
    <3>7. Arrived(prev, cur, k) = B \ A /\ Departed(prev, cur, k) = A \ B
      BY <3>2, <3>6 DEF Arrived, Departed
    <3>8. People(B) - People(A) = People(B \ A) - People(A \ B)
      BY <3>6, PeopleMove
    <3>9. size[i] = People(B) /\ size[i - 1] = People(A)
      BY <3>1, <3>6
    <3>10. step[i] = Bar(Executed, i, k).gained - Bar(Executed, i, k).lost
      OBVIOUS
    <3> HIDE DEF step, size, list
    <3> QED BY <3>5, <3>7, <3>8, <3>9, <3>10
  <2>8. \A i \in 1..n : size[i] \in Int
    <3>1. \A i \in 1..n : People(list(i)) \in Nat
      BY <2>6, PeopleCounted
    <3> HIDE DEF list
    <3> QED BY <3>1
  <2>9. Total(step, 2..n) = size[n] - size[1]
    <3>1. n \in Nat \ {0}
      BY <2>1
    <3> HIDE DEF step, size
    <3> QED BY <2>7, <2>8, <3>1, TotalTelescopes
  <2>10. MapThenSumSet(LAMBDA i : Bar(Executed, i, ListKind).gained
                                 - Bar(Executed, i, ListKind).lost, 2..n)
          = Total(step, 2..n)
    <3>1. \A i \in 2..n : step[i] = Bar(Executed, i, ListKind).gained
                                    - Bar(Executed, i, ListKind).lost
      OBVIOUS
    <3> HIDE DEF step
    <3> QED BY <2>1, <3>1, BarsAreSummed
  <2>11. Delta(k) = size[n] - size[1]
    <3>1. \A i \in 1..n : Executed[i].totals[k] = totals[i][k].members
      BY <2>1, ServedIsRead
    <3>2. 1 \in 1..n /\ n \in 1..n
      BY <2>1
    <3>3. size[n] = totals[n][k].members /\ size[1] = totals[1][k].members
      BY <2>6, <3>2
    <3> QED BY <3>1, <3>2, <3>3 DEF Delta
  <2> HIDE DEF step, size, list
  <2> QED BY <2>9, <2>10, <2>11
<1> QED BY <1>1, ReadInvariant, PTL

-----------------------------------------------------------------------------
(* The lines *)

Commands == [verb : {"gap", "M", "L"}, i : Nat]

\* A move or a line goes where the round says; a line only from the round before.
IsLine(path, n) ==
  /\ path \in Seq(Commands)
  /\ \A j \in DOMAIN path : path[j].verb = "L" => /\ j - 1 \in DOMAIN path
                                                 /\ path[j].i = path[j - 1].i + 1
  /\ path # <<>> /\ ~EndsInGap(path) => path[Len(path)].i = n

LEMMA Appended ==
  ASSUME NEW S, NEW s \in Seq(S), NEW x \in S
  PROVE  /\ Append(s, x) \in Seq(S) /\ Len(Append(s, x)) = Len(s) + 1
         /\ Append(s, x) # <<>> /\ Append(s, x)[Len(s) + 1] = x
         /\ \A j \in DOMAIN s : Append(s, x)[j] = s[j]
         /\ DOMAIN Append(s, x) = DOMAIN s \cup {Len(s) + 1}
         /\ DOMAIN s = 1..Len(s) /\ Len(s) \in Nat
<1>0. PICK t : t = Append(s, x)
  OBVIOUS
<1> USE <1>0
<1>1. t \in Seq(S) /\ Len(t) = Len(s) + 1 /\ Len(s) \in Nat
  OBVIOUS
<1>2. DOMAIN s = 1..Len(s) /\ DOMAIN t = 1..Len(t)
  BY <1>1
<1>3. \A j \in 1..Len(s) : t[j] = s[j]
  OBVIOUS
<1>4. t[Len(s) + 1] = x
  OBVIOUS
<1>5. 1..Len(t) = 1..Len(s) \cup {Len(t)}
  BY <1>1
<1>6. t # <<>>
  BY <1>1
<1> QED BY <1>1, <1>2, <1>3, <1>4, <1>5, <1>6

LEMMA GapIsCommand == Gap \in Commands /\ Gap.verb = "gap"
  BY DEF Gap, Commands

\* Taking the gap off a path takes off its last command, which is no line.
LEMMA GapTakenOff ==
  ASSUME NEW path \in Seq(Commands)
  PROVE  /\ WithoutGap(path) \in Seq(Commands)
         /\ Len(WithoutGap(path)) = IF EndsInGap(path) THEN Len(path) - 1 ELSE Len(path)
         /\ \A j \in DOMAIN WithoutGap(path) :
              j \in DOMAIN path /\ WithoutGap(path)[j] = path[j]
<1>1. CASE ~EndsInGap(path)
  BY <1>1 DEF WithoutGap
<1>2. CASE EndsInGap(path)
  <2>1. Len(path) \in Nat \ {0} /\ WithoutGap(path) = SubSeq(path, 1, Len(path) - 1)
    BY <1>2 DEF EndsInGap, WithoutGap, Front
  <2>2. /\ SubSeq(path, 1, Len(path) - 1) \in Seq(Commands)
        /\ Len(SubSeq(path, 1, Len(path) - 1)) = Len(path) - 1
        /\ \A j \in 1..(Len(path) - 1) : SubSeq(path, 1, Len(path) - 1)[j] = path[j]
    <3>1. PICK n \in Nat : n = Len(path) - 1
      BY <2>1
    <3>2. \A j \in 1..n : path[j] \in Commands
      BY <3>1
    <3>3. SubSeq(path, 1, n) \in Seq(Commands) /\ Len(SubSeq(path, 1, n)) = n
      BY <3>1, <3>2
    <3>4. \A j \in 1..n : SubSeq(path, 1, n)[j] = path[j]
      BY <3>1
    <3> QED BY <3>1, <3>3, <3>4
  <2> QED BY <1>2, <2>1, <2>2
<1> QED BY <1>1, <1>2

LEMMA PenDraws ==
  ASSUME NEW path \in Seq(Commands), NEW e, NEW n \in Nat, NEW k
  PROVE  /\ Pen(path, e, n + 1, k) \in Seq(Commands)
         /\ IsLine(path, n) => IsLine(Pen(path, e, n + 1, k), n + 1)
<1>1. CASE k \notin DOMAIN e.totals
  <2>1. PICK new : new = Pen(path, e, n + 1, k) /\ new = Append(path, Gap)
    BY <1>1 DEF Pen
  <2>2. /\ new \in Seq(Commands) /\ Len(new) = Len(path) + 1 /\ new[Len(new)] = Gap
        /\ \A j \in DOMAIN path : new[j] = path[j]
        /\ DOMAIN new = DOMAIN path \cup {Len(new)} /\ DOMAIN path \subseteq DOMAIN new
    <3>1. path \in Seq(Commands) /\ Gap \in Commands /\ new = Append(path, Gap)
      BY <2>1, GapIsCommand
    <3> QED BY <3>1, Appended
  <2>3. EndsInGap(new)
    BY <2>2 DEF EndsInGap, Last
  <2>4. ASSUME IsLine(path, n), NEW j \in DOMAIN new, new[j].verb = "L"
        PROVE  j - 1 \in DOMAIN new /\ new[j].i = new[j - 1].i + 1
    <3>1. j \in DOMAIN path
      BY <2>2, <2>4, GapIsCommand
    <3>2. j - 1 \in DOMAIN path /\ path[j].i = path[j - 1].i + 1
      BY <2>2, <2>4, <3>1 DEF IsLine
    <3> QED BY <2>2, <3>1, <3>2
  <2> QED BY <2>1, <2>2, <2>3, <2>4 DEF IsLine
<1>2. CASE k \in DOMAIN e.totals
  <2>1. PICK base, new, last :
          /\ base = WithoutGap(path)
          /\ last = [verb |-> IF path = <<>> \/ EndsInGap(path) THEN "M" ELSE "L",
                     i |-> n + 1]
          /\ new = Pen(path, e, n + 1, k) /\ new = Append(base, last)
    BY <1>2 DEF Pen
  <2>2. /\ base \in Seq(Commands)
        /\ \A j \in DOMAIN base : j \in DOMAIN path /\ base[j] = path[j]
        /\ ~EndsInGap(path) => base = path
    BY <2>1, GapTakenOff DEF WithoutGap
  <2>3. /\ last \in Commands /\ last.i = n + 1
        /\ last.verb = "L" => path # <<>> /\ ~EndsInGap(path)
        /\ last # Gap
    <3>1. last.verb \in {"M", "L"} /\ last.i = n + 1
      BY <2>1
    <3>2. last \in Commands
      BY <2>1 DEF Commands
    <3>3. last # Gap
      BY <3>1, GapIsCommand
    <3>4. last.verb = "L" => path # <<>> /\ ~EndsInGap(path)
      BY <2>1
    <3> QED BY <3>1, <3>2, <3>3, <3>4
  <2>4. /\ new \in Seq(Commands) /\ Len(new) = Len(base) + 1 /\ new[Len(new)] = last
        /\ \A j \in DOMAIN base : new[j] = base[j]
        /\ DOMAIN new = DOMAIN base \cup {Len(new)} /\ DOMAIN base = 1..Len(base)
        /\ Len(base) \in Nat /\ new # <<>>
    <3>1. base \in Seq(Commands) /\ last \in Commands /\ new = Append(base, last)
      BY <2>1, <2>2, <2>3
    <3> QED BY <3>1, Appended
  <2>5. ASSUME IsLine(path, n), NEW j \in DOMAIN base, new[j].verb = "L"
        PROVE  j - 1 \in DOMAIN new /\ new[j].i = new[j - 1].i + 1
    <3>1. j - 1 \in DOMAIN path /\ path[j].i = path[j - 1].i + 1
      BY <2>2, <2>4, <2>5 DEF IsLine
    <3>2. j - 1 \in DOMAIN base
      BY <2>4, <3>1
    <3> QED BY <2>2, <2>4, <3>1, <3>2
  <2>6. ASSUME IsLine(path, n), last.verb = "L"
        PROVE  Len(new) - 1 \in DOMAIN new /\ last.i = new[Len(new) - 1].i + 1
    <3>1. path # <<>> /\ ~EndsInGap(path) /\ base = path
      BY <2>2, <2>3, <2>6
    <3>2. path[Len(path)].i = n /\ Len(path) \in DOMAIN path
      BY <2>6, <3>1 DEF IsLine
    <3>3. Len(new) - 1 = Len(path) /\ new[Len(path)] = path[Len(path)]
      BY <2>4, <3>1, <3>2
    <3> QED BY <2>3, <2>4, <3>1, <3>2, <3>3
  <2>7. IsLine(path, n) => IsLine(new, n + 1)
    BY <2>3, <2>4, <2>5, <2>6 DEF IsLine
  <2> QED BY <2>1, <2>4, <2>7
<1> QED BY <1>1, <1>2

\* A path is what is left after the round of the last execution.
LEMMA PathIsFolded ==
  ASSUME NEW executions, NEW N \in Nat, DOMAIN executions = 1..N, NEW k
  PROVE  \E path : /\ path[0] = <<>>
                   /\ \A n \in 1..N : path[n] = Pen(path[n - 1], executions[n], n, k)
                   /\ Path(executions, k) = WithoutGap(path[N])
<1> DEFINE
  op(i, path) == Pen(path, executions[i], i, k)
  Is(r) == r = [s \in SUBSET (1..N) |-> IF s = {} THEN <<>>
                                        ELSE op(Max(s), r[s \ {Max(s)}])]
<1>1. PICK step : step = [x \in (1..N) \X Seq(Commands) |-> op(x[1], x[2])]
  OBVIOUS
<1>2. \A i \in 1..N, path \in Seq(Commands) :
        step[<<i, path>>] = op(i, path) /\ op(i, path) \in Seq(Commands)
  <2> SUFFICES ASSUME NEW i \in 1..N, NEW path \in Seq(Commands)
               PROVE  step[<<i, path>>] = op(i, path) /\ op(i, path) \in Seq(Commands)
    OBVIOUS
  <2>1. PICK n \in Nat : i = n + 1
    <3>1. i - 1 \in Nat /\ i = (i - 1) + 1
      OBVIOUS
    <3> QED BY <3>1
  <2>2. Pen(path, executions[i], n + 1, k) \in Seq(Commands)
    BY PenDraws
  <2>3. op(i, path) \in Seq(Commands)
    BY <2>1, <2>2
  <2> HIDE DEF op
  <2> QED BY <1>1, <2>3
<1> HIDE DEF op
<1>3. \E r : Is(r)
  <2>1. <<>> \in Seq(Commands) /\ \A i \in 1..N, path \in Seq(Commands) :
                                   step[<<i, path>>] \in Seq(Commands)
    BY <1>2
  <2>2. PICK run :
          /\ run = [s \in SUBSET (1..N) |-> run[s]]
          /\ \A s \in SUBSET (1..N) :
               /\ run[s] \in Seq(Commands)
               /\ run[s] = IF s = {} THEN <<>> ELSE step[<<Max(s), run[s \ {Max(s)}]>>]
    <3>1. PICK A : A = Seq(Commands)
      OBVIOUS
    <3>2. <<>> \in A /\ \A i \in 1..N, path \in A : step[<<i, path>>] \in A
      BY <2>1, <3>1
    <3>3. PICK base : base = <<>>
      OBVIOUS
    <3>4. \E run : IsCounting(run, N, A, base, step)
      BY <3>2, <3>3, CountingExists
    <3> QED BY <3>1, <3>3, <3>4 DEF IsCounting
  <2>3. ASSUME NEW s \in SUBSET (1..N), s # {}
        PROVE  run[s] = op(Max(s), run[s \ {Max(s)}])
    <3>2. Max(s) \in s
      BY <2>3, MaxOfNumbers
    <3>3. PICK m, t : m = Max(s) /\ t = s \ {m}
      OBVIOUS
    <3>4. m \in 1..N /\ t \in SUBSET (1..N)
      BY <3>2, <3>3
    <3> QED BY <1>2, <2>2, <2>3, <3>3, <3>4
  <2>4. \A s \in SUBSET (1..N) :
          run[s] = IF s = {} THEN <<>> ELSE op(Max(s), run[s \ {Max(s)}])
    BY <2>2, <2>3
  <2>5. Is(run)
    BY <2>2, <2>4
  <2> QED BY <2>5
<1> DEFINE
  index  == [i \in DOMAIN executions |-> i]
  Raw(r) == r = [s \in SUBSET DOMAIN index |->
                   IF s = {} THEN <<>> ELSE op(index[Max(s)], r[s \ {Max(s)}])]
<1>4. PICK r : r = (CHOOSE q : Raw(q)) /\ Path(executions, k) = WithoutGap(r[DOMAIN index])
  BY DEF Path, FoldLeftDomain, FoldLeft, MapThenFoldSet, op
<1>5. DOMAIN index = 1..N
  OBVIOUS
<1>6. Is(r) /\ Path(executions, k) = WithoutGap(r[1..N])
  <2>1. \A s \in SUBSET (1..N) : s # {} => index[Max(s)] = Max(s)
    <3> SUFFICES ASSUME NEW s \in SUBSET (1..N), s # {} PROVE index[Max(s)] = Max(s)
      OBVIOUS
    <3>1. Max(s) \in s
      BY MaxOfNumbers
    <3> QED BY <3>1
  <2> HIDE DEF index
  <2>2. ASSUME NEW q PROVE Raw(q) <=> Is(q)
    <3>1. \A s \in SUBSET (1..N) :
            (IF s = {} THEN <<>> ELSE op(index[Max(s)], q[s \ {Max(s)}]))
              = (IF s = {} THEN <<>> ELSE op(Max(s), q[s \ {Max(s)}]))
      BY <2>1
    <3>2. [s \in SUBSET DOMAIN index |->
             IF s = {} THEN <<>> ELSE op(index[Max(s)], q[s \ {Max(s)}])]
            = [s \in SUBSET (1..N) |->
                 IF s = {} THEN <<>> ELSE op(Max(s), q[s \ {Max(s)}])]
      BY <1>5, <3>1
    <3> QED BY <3>2
  <2>3. \E q : Raw(q)
    BY <1>3, <2>2
  <2>4. Raw(r)
    <3> HIDE DEF Raw
    <3> QED BY <1>4, <2>3
  <2>5. Is(r)
    <3> HIDE DEF Raw, Is
    <3> QED BY <2>2, <2>4
  <2>6. Path(executions, k) = WithoutGap(r[1..N])
    BY <1>4, <1>5
  <2> QED BY <2>5, <2>6
<1> DEFINE path == [n \in 0..N |-> r[1..n]]
<1>7. path[0] = <<>> /\ \A n \in 1..N : path[n] = op(n, path[n - 1])
  <2>1. /\ 1..0 = {}
        /\ \A m \in 1..N : /\ 1..m \in SUBSET (1..N) /\ 1..m # {}
                           /\ Max(1..m) = m /\ (1..m) \ {m} = 1..(m - 1)
    BY InitialSegments
  <2>2. \A s \in SUBSET (1..N) :
          r[s] = IF s = {} THEN <<>> ELSE op(Max(s), r[s \ {Max(s)}])
    BY <1>6
  <2>3. path[0] = <<>>
    <3>1. r[{}] = <<>>
      BY <2>2
    <3> QED BY <2>1, <3>1
  <2>4. ASSUME NEW n \in 1..N PROVE path[n] = op(n, path[n - 1])
    <3>1. PICK s : s = 1..n /\ s \in SUBSET (1..N) /\ s # {} /\ Max(s) = n
                   /\ s \ {n} = 1..(n - 1)
      BY <2>1
    <3>2. r[s] = op(n, r[1..(n - 1)])
      BY <2>2, <3>1
    <3>3. n \in 0..N /\ n - 1 \in 0..N
      OBVIOUS
    <3> QED BY <3>1, <3>2, <3>3
  <2> QED BY <2>3, <2>4
<1>8. path[N] = r[1..N]
  OBVIOUS
<1> HIDE DEF path
<1> QED BY <1>6, <1>7, <1>8 DEF op

LEMMA LinesJoinNeighbours ==
  ASSUME NEW executions, NEW N \in Nat, DOMAIN executions = 1..N, NEW k
  PROVE  /\ Path(executions, k) \in Seq(Commands)
         /\ \A j \in DOMAIN Path(executions, k) :
              Path(executions, k)[j].verb = "L" =>
                Path(executions, k)[j].i = Path(executions, k)[j - 1].i + 1
<1>1. PICK path : /\ path[0] = <<>>
                  /\ \A n \in 1..N : path[n] = Pen(path[n - 1], executions[n], n, k)
                  /\ Path(executions, k) = WithoutGap(path[N])
  BY PathIsFolded
<1> DEFINE G == {n \in Nat : n <= N => IsLine(path[n], n)}
<1>2. ASSUME NEW n \in Nat, \A m \in Nat : m < n => m \in G PROVE n \in G
  <2> SUFFICES ASSUME n <= N PROVE IsLine(path[n], n)
    OBVIOUS
  <2>1. CASE n = 0
    <3>1. <<>> \in Seq(Commands) /\ DOMAIN <<>> = {}
      OBVIOUS
    <3>2. path[n] = <<>>
      BY <1>1, <2>1
    <3> QED BY <3>1, <3>2 DEF IsLine
  <2>2. CASE n # 0
    <3>1. PICK m \in Nat : n = m + 1 /\ n \in 1..N
      <4>1. n - 1 \in Nat /\ n = (n - 1) + 1 /\ n \in 1..N
        BY <2>2
      <4> QED BY <4>1
    <3>2. IsLine(path[m], m)
      BY <1>2, <3>1
    <3>3. path[n] = Pen(path[m], executions[n], n, k)
      BY <1>1, <3>1
    <3>4. path[m] \in Seq(Commands)
      BY <3>2 DEF IsLine
    <3>5. IsLine(Pen(path[m], executions[n], m + 1, k), m + 1)
      BY <3>2, <3>4, PenDraws
    <3> QED BY <3>1, <3>3, <3>5
  <2> QED BY <2>1, <2>2
<1>3. IsLine(path[N], N)
  <2>1. Nat \subseteq G
    <3> HIDE DEF G
    <3> QED BY <1>2, StrongInduction
  <2> QED BY <2>1
<1>4. PICK last, drawn : last = path[N] /\ drawn = WithoutGap(last)
  OBVIOUS
<1>5. /\ drawn \in Seq(Commands)
      /\ \A j \in DOMAIN drawn : j \in DOMAIN last /\ drawn[j] = last[j]
  BY <1>3, <1>4, GapTakenOff DEF IsLine
<1>6. ASSUME NEW j \in DOMAIN drawn, drawn[j].verb = "L"
      PROVE  drawn[j].i = drawn[j - 1].i + 1
  <2>1. /\ j - 1 \in DOMAIN last /\ last[j].i = last[j - 1].i + 1 /\ drawn[j] = last[j]
        /\ last \in Seq(Commands)
    BY <1>3, <1>4, <1>5, <1>6 DEF IsLine
  <2>2. j - 1 \in DOMAIN drawn
    BY <1>5, <2>1
  <2> QED BY <1>5, <2>1, <2>2
<1> QED BY <1>1, <1>4, <1>5, <1>6

\* The maximum of all totals shown.
Highest(executions, kinds) ==
  Max({0} \cup UNION {{executions[i].totals[k] :
                          k \in kinds \cap DOMAIN executions[i].totals}
                         : i \in DOMAIN executions})

\* A chart that is not empty.
IsDrawn(trend, executions, kinds) ==
  /\ ~(Len(executions) < 2) /\ Highest(executions, kinds) # 0
  /\ trend.top = NiceCeiling(Highest(executions, kinds))
  /\ trend.kinds = {k \in kinds : \E i \in DOMAIN executions :
                                   k \in DOMAIN executions[i].totals}
  /\ trend.paths = [k \in trend.kinds |-> Path(executions, k)]
  /\ trend.ends = [k \in trend.kinds |->
                     YOf(executions[LastCarrying(executions, k)].totals[k],
                         trend.top) + 4 * trend.top]
  /\ trend.labels = SeparateLabels(trend.ends, LabelGap * trend.top)

LEMMA ChartShows ==
  ASSUME NEW executions, NEW kinds, NEW trend, trend = BuildTrend(executions, kinds),
         ~trend.empty
  PROVE  IsDrawn(trend, executions, kinds)
<1> DEFINE
  shown == {k \in kinds : \E i \in DOMAIN executions : k \in DOMAIN executions[i].totals}
  maxV  == Highest(executions, kinds)
  top   == NiceCeiling(maxV)
  ends  == [k \in shown |->
              YOf(executions[LastCarrying(executions, k)].totals[k], top) + 4 * top]
  paths == [k \in shown |-> Path(executions, k)]
  drawn == [empty |-> FALSE, top |-> top, kinds |-> shown, paths |-> paths,
            ends |-> ends, labels |-> SeparateLabels(ends, LabelGap * top)]
  none  == Len(executions) < 2 \/ shown = {} \/ maxV = 0
<1>1. trend = IF none THEN Empty ELSE drawn
  BY DEF BuildTrend, Highest
<1>2. drawn.empty = FALSE /\ drawn.top = top /\ drawn.kinds = shown /\ drawn.paths = paths
      /\ drawn.ends = ends /\ drawn.labels = SeparateLabels(ends, LabelGap * top)
  <2> HIDE DEF top, shown, paths, ends
  <2> QED OBVIOUS
<1>3. Empty.empty = TRUE
  BY DEF Empty
<1> HIDE DEF drawn
<1>4. ~none /\ trend = drawn
  <2> HIDE DEF none
  <2> QED BY <1>1, <1>3
<1>5. ~(Len(executions) < 2) /\ maxV # 0
  BY <1>4
<1>6. trend.top = top /\ trend.kinds = shown /\ trend.paths = paths /\ trend.ends = ends
      /\ trend.labels = SeparateLabels(ends, LabelGap * top)
  <2> HIDE DEF top, shown, paths, ends, none
  <2> QED BY <1>2, <1>4
<1>7. /\ trend.kinds = shown /\ trend.top = NiceCeiling(Highest(executions, kinds))
      /\ trend.paths = [k \in trend.kinds |-> Path(executions, k)]
      /\ trend.ends = [k \in trend.kinds |->
                         YOf(executions[LastCarrying(executions, k)].totals[k],
                             trend.top) + 4 * trend.top]
      /\ trend.labels = SeparateLabels(trend.ends, LabelGap * trend.top)
  BY <1>6
<1> QED BY <1>5, <1>7 DEF IsDrawn

\* The line of a list is broken where executions did not carry it: every two
\* points that are joined are of executions with none between them.
THEOREM LinesBreak == TrendsSpec => []LinesBreakAtGaps
<1>1. IInv => LinesBreakAtGaps
  <2> SUFFICES ASSUME IInv, Served, NEW trend, trend = Trend, ~trend.empty,
                      NEW k \in trend.kinds, NEW j \in Drawn(trend.paths[k]),
                      trend.paths[k][j].verb = "L"
               PROVE  trend.paths[k][j].i = trend.paths[k][j - 1].i + 1
    BY DEF LinesBreakAtGaps
  <2>1. PICK executions, N : /\ executions = Executed /\ N = Len(rows) /\ N \in Nat
                             /\ DOMAIN executions = 1..N
    BY ServedIsRead
  <2>2. trend.paths[k] = Path(executions, k)
    <3>1. trend = BuildTrend(executions, Kinds)
      BY <2>1 DEF Trend
    <3>2. PICK kinds : kinds = Kinds
      OBVIOUS
    <3>3. IsDrawn(trend, executions, kinds)
      BY <3>1, <3>2, ChartShows
    <3>4. trend.paths = [l \in trend.kinds |-> Path(executions, l)]
      BY <3>3 DEF IsDrawn
    <3> QED BY <3>4
  <2>3. j \in DOMAIN Path(executions, k)
    BY <2>2 DEF Drawn
  <2> QED BY <2>1, <2>2, <2>3, LinesJoinNeighbours
<1> QED BY <1>1, ReadInvariant, PTL

-----------------------------------------------------------------------------
(* The axes *)

\* A round maximum is 1 or divisible by two or five.
IsRound(top) == top \in Nat \ {0} /\ (top = 1 \/ top % 2 = 0 \/ top % 5 = 0)

LEMMA NiceCeilingHolds ==
  ASSUME NEW v \in Upto
  PROVE  IsRound(NiceCeiling(v)) /\ v <= NiceCeiling(v)
<1>1. CASE v <= 0
  <2>1. v \in Int
    BY DEF Upto
  <2> QED BY <1>1, <2>1 DEF NiceCeiling, IsRound
<1>2. CASE ~(v <= 0)
  <2>1. v \in 1..MaxPeople /\ v < 10000000000
    <3>1. MaxPeople \in Nat /\ MaxPeople < 10000000000
      BY SMT DEF MaxPeople
    <3> QED BY <1>2, <3>1, SMT DEF Upto
  <2>2. \E q \in PowersOfTen : q <= v /\ v < 10 * q
    BY <2>1, SMT DEF PowersOfTen
  <2>3. PICK p : p = (CHOOSE q \in PowersOfTen : q <= v /\ v < 10 * q)
    OBVIOUS
  <2>4. p \in PowersOfTen /\ p <= v /\ v < 10 * p
    BY <2>2, <2>3
  <2>5. p \in Nat \ {0} /\ (p = 1 \/ \E q \in Nat : p = 10 * q)
    BY <2>4, SMT DEF PowersOfTen
  <2>6. PICK S : S = {s \in {p, 2 * p, (5 * p) \div 2, 5 * p, 10 * p} : s >= v}
    OBVIOUS
  <2>7. NiceCeiling(v) = Min(S)
    BY <1>2, <2>3, <2>6 DEF NiceCeiling
  <2>8. S \subseteq 0..(10 * p) /\ 10 * p \in S
    BY <2>1, <2>4, <2>5, <2>6
  <2>9. IsFiniteSet(0..(10 * p))
    BY <2>5, FS_Interval
  <2>10. IsFiniteSet(S) /\ S # {} /\ S \subseteq Int
    <3>1. IsFiniteSet(S)
      BY <2>8, <2>9, FS_Subset
    <3>2. 0..(10 * p) \subseteq Int
      OBVIOUS
    <3> QED BY <2>8, <3>1, <3>2
  <2>11. Min(S) \in S
    BY <2>10, MinIsIn
  <2>12. \A s \in S : s >= v /\ IsRound(s)
    <3> SUFFICES ASSUME NEW s \in S PROVE s >= v /\ IsRound(s)
      OBVIOUS
    <3>1. s >= v /\ s \in {p, 2 * p, (5 * p) \div 2, 5 * p, 10 * p}
      BY <2>6
    <3>2. CASE p = 1
      BY <3>1, <3>2 DEF IsRound
    <3>3. CASE p # 1
      <4>1. PICK q \in Nat : p = 10 * q
        BY <2>5, <3>3
      <4>2. s \in {10 * q, 20 * q, 25 * q, 50 * q, 100 * q} /\ q # 0
        BY <2>5, <3>1, <4>1
      <4> QED BY <3>1, <4>2 DEF IsRound
    <3> QED BY <3>2, <3>3
  <2> QED BY <2>7, <2>11, <2>12
<1> QED BY <1>1, <1>2

\* Marks at every n-th part of the axis.
IsScale(ticks, top, n) == ticks = [i \in 0..n |-> (top * i) \div n]

\* The marks of a maximum that can be divided into n whole steps.
LEMMA MarksAreEven ==
  ASSUME NEW n \in {4, 5, 2, 3}, NEW top \in Nat \ {0}, top % n = 0,
         NEW ticks, IsScale(ticks, top, n)
  PROVE  /\ ticks[0] = 0 /\ ticks[n] = top
         /\ \A i \in 1..n : ticks[i] > ticks[i - 1] /\ n * ticks[i] = i * top
<1>1. PICK q \in Nat \ {0} : top = n * q
  <2>1. top = n * (top \div n) /\ top \div n \in Nat \ {0}
    OBVIOUS
  <2> QED BY <2>1
<1>2. \A j \in 0..n : top * j = n * (q * j) /\ q * j \in Nat
  BY <1>1
<1>3. ASSUME NEW j \in 0..n PROVE (top * j) \div n = q * j
  <2>1. PICK m \in Nat : m = q * j /\ top * j = n * m
    BY <1>2
  <2>2. (n * m) \div n = m
    OBVIOUS
  <2> QED BY <2>1, <2>2
<1>4. \A j \in 0..n : ticks[j] = q * j
  BY <1>3 DEF IsScale
<1>5. \A j \in 0..n : j \in {0, 1, 2, 3, 4, 5}
  OBVIOUS
<1>6. ticks[0] = 0 /\ ticks[n] = top
  BY <1>1, <1>4
<1>7. ASSUME NEW i \in 1..n PROVE ticks[i] > ticks[i - 1] /\ n * ticks[i] = i * top
  <2>1. ticks[i] = q * i /\ ticks[i - 1] = q * (i - 1)
    BY <1>4
  <2>2. i \in {1, 2, 3, 4, 5}
    OBVIOUS
  <2> QED BY <1>1, <2>1, <2>2
<1> QED BY <1>6, <1>7

LEMMA AxisRises ==
  ASSUME NEW top, IsRound(top)
  PROVE  Rises(top)
<1> DEFINE divisions == <<4, 5, 2, 3>>
           fit == {j \in DOMAIN divisions : top % divisions[j] = 0}
<1>1. top \in Nat \ {0}
  BY DEF IsRound
<1>2. DOMAIN divisions = 1..4
  OBVIOUS
<1>3. PICK n : n = IF fit = {} THEN 4 ELSE divisions[Min(fit)]
  OBVIOUS
<1>4. ValueTicks(top) = [i \in 0..n |-> (top * i) \div n]
  BY <1>3 DEF ValueTicks
<1>5. n \in {4, 5, 2, 3} /\ (top # 1 => top % n = 0)
  <2>1. CASE fit = {}
    <3>1. n = 4
      BY <1>3, <2>1
    <3>2. top % 2 # 0 /\ top % 5 # 0
      <4>1. 2 \in DOMAIN divisions /\ 3 \in DOMAIN divisions
            /\ divisions[2] = 5 /\ divisions[3] = 2
        OBVIOUS
      <4> QED BY <2>1, <4>1
    <3> QED BY <3>1, <3>2 DEF IsRound
  <2>2. CASE fit # {}
    <3>1. IsFiniteSet(1..4)
      <4>1. 1 \in Int /\ 4 \in Int
        OBVIOUS
      <4> QED BY <4>1, FS_Interval
    <3>2. fit \subseteq 1..4 /\ 1..4 \subseteq Int
      BY <1>2
    <3>3. IsFiniteSet(fit)
      BY <3>1, <3>2, FS_Subset
    <3>4. PICK j : j = Min(fit)
      OBVIOUS
    <3>5. j \in fit
      BY <2>2, <3>2, <3>3, <3>4, MinIsIn
    <3>6. j \in 1..4 /\ top % divisions[j] = 0
      BY <1>2, <3>5
    <3>7. n = divisions[j]
      BY <1>3, <2>2, <3>4
    <3> QED BY <3>6, <3>7
  <2> QED BY <2>1, <2>2
<1>6. PICK ticks : ticks = ValueTicks(top) /\ ticks = [i \in 0..n |-> (top * i) \div n]
  BY <1>4
<1>7. DOMAIN ticks = 0..n /\ Cardinality(0..n) = n + 1
  BY <1>5, <1>6, FS_Interval
<1>8. PICK m : m = Cardinality(DOMAIN ticks) - 1
  OBVIOUS
<1>9. m = n
  BY <1>5, <1>7, <1>8
<1>10. CASE top = 1
  <2>1. ticks[0] = 0 /\ ticks[n] = top
    BY <1>5, <1>6, <1>10
  <2> QED BY <1>6, <1>8, <1>9, <1>10, <2>1 DEF Rises
<1>11. CASE top # 1
  <2>1. top % n = 0
    BY <1>5, <1>11
  <2>2. /\ ticks[0] = 0 /\ ticks[n] = top
        /\ \A i \in 1..n : ticks[i] > ticks[i - 1] /\ n * ticks[i] = i * top
    <3>1. n \in {4, 5, 2, 3} /\ top \in Nat \ {0} /\ IsScale(ticks, top, n)
      BY <1>1, <1>5, <1>6 DEF IsScale
    <3> QED BY <2>1, <3>1, MarksAreEven
  <2> QED BY <1>6, <1>8, <1>9, <2>2 DEF Rises
<1> QED BY <1>10, <1>11

LEMMA MaxOfFigures ==
  ASSUME NEW S, S \subseteq Upto, 0 \in S
  PROVE  Max(S) \in Upto /\ \A y \in S : y <= Max(S)
<1>1. MaxPeople \in Nat
  BY DEF MaxPeople
<1>2. IsFiniteSet(0..MaxPeople)
  BY <1>1, FS_Interval
<1>3. IsFiniteSet(S) /\ S # {}
  BY <1>2, FS_Subset DEF Upto
<1>4. S \subseteq Int
  BY <1>1 DEF Upto
<1> QED BY <1>3, <1>4, MaxIsIn

\* A span of dates is a day wide at least, and every date lies in it.
LEMMA SpanIsWide ==
  ASSUME NEW executions, NEW N \in Nat \ {0}, DOMAIN executions = 1..N,
         \A i \in 1..N : executions[i].takenAt \in Int
  PROVE  /\ Span(executions) \in Nat \ {0}
         /\ \A i \in 1..N : XOf(executions, executions[i].takenAt)
                             \in (PlotLeft * Span(executions))..(PlotRight * Span(executions))
<1>1. PICK D, f : D = Dates(executions) /\ f = [i \in 1..N |-> executions[i].takenAt]
  OBVIOUS
<1>2. D = {f[i] : i \in 1..N} /\ \A i \in 1..N : f[i] = executions[i].takenAt
  BY <1>1 DEF Dates
<1>3. IsFiniteSet(1..N)
  BY FS_Interval
<1>4. IsFiniteSet(D)
  <2>1. f \in [1..N -> D] /\ \A d \in D : \E i \in 1..N : f[i] = d
    BY <1>1, <1>2
  <2>2. f \in Surjection(1..N, D)
    BY <2>1 DEF Surjection
  <2> QED BY <1>3, <2>2, FS_Surjection
<1>5. D # {} /\ D \subseteq Int
  <2>1. 1 \in 1..N
    OBVIOUS
  <2> QED BY <1>2, <2>1
<1>6. /\ Max(D) \in Int /\ Min(D) \in Int
      /\ \A d \in D : d \in Int /\ Min(D) <= d /\ d <= Max(D)
  BY <1>4, <1>5, MaxIsIn, MinIsIn
<1>7. PICK m, w : m = MinT(executions) /\ w = Span(executions)
  OBVIOUS
<1>8. /\ m \in Int /\ w \in Nat \ {0}
      /\ \A d \in D : 0 <= d - m /\ d - m <= w
  BY <1>1, <1>6, <1>7 DEF Span, MinT
<1>9. ASSUME NEW i \in 1..N
      PROVE  XOf(executions, executions[i].takenAt) \in (PlotLeft * w)..(PlotRight * w)
  <2>1. PICK d \in D : d = executions[i].takenAt
    BY <1>2
  <2>2. d \in Int /\ 0 <= d - m /\ d - m <= w
    BY <1>6, <1>8
  <2>3. PICK x : x = PlotLeft * w + (d - m) * (PlotRight - PlotLeft)
    OBVIOUS
  <2>4. x \in (PlotLeft * w)..(PlotRight * w)
    BY <1>8, <2>2, <2>3 DEF PlotLeft, PlotRight
  <2> QED BY <1>7, <2>1, <2>3, <2>4 DEF XOf
<1> QED BY <1>7, <1>8, <1>9

\* Where the bar of an execution stands: it ends before the next one, and before
\* the end of the axis, unless it was widened.
Stands(bar, end, span) ==
  /\ bar.x > PlotLeft * span
  /\ IF bar.width = MinBar * span
       THEN bar.x + bar.width <= (PlotRight + MinBar + 1) * span
       ELSE bar.x + bar.width < end

LEMMA BarsStand ==
  ASSUME NEW executions, NEW N \in Nat \ {0}, DOMAIN executions = 1..N,
         \A i \in 1..N : executions[i].takenAt \in Int,
         NEW k, NEW i \in 2..N
  PROVE  /\ Stands(Bar(executions, i, k), PlotRight * Span(executions), Span(executions))
         /\ i < N => Stands(Bar(executions, i, k), Bar(executions, i + 1, k).x,
                            Span(executions))
<1>1. PICK span, x0, x1 : /\ span = Span(executions)
                          /\ x0 = XOf(executions, executions[i - 1].takenAt)
                          /\ x1 = XOf(executions, executions[i].takenAt)
  OBVIOUS
<1>2. i \in 1..N /\ i - 1 \in 1..N
  OBVIOUS
<1>3. /\ span \in Nat \ {0} /\ x0 \in Int /\ x1 \in Int
      /\ PlotLeft * span <= x0 /\ x0 <= PlotRight * span /\ x1 <= PlotRight * span
  <2>1. /\ span \in Nat \ {0}
        /\ \A j \in 1..N : XOf(executions, executions[j].takenAt)
                            \in (PlotLeft * span)..(PlotRight * span)
    BY <1>1, SpanIsWide
  <2>2. /\ x0 \in (PlotLeft * span)..(PlotRight * span)
        /\ x1 \in (PlotLeft * span)..(PlotRight * span)
    BY <1>1, <1>2, <2>1
  <2> QED BY <2>1, <2>2 DEF PlotLeft, PlotRight
<1>4. PICK wide, least : wide = x1 - x0 - 2 * span /\ least = MinBar * span
  OBVIOUS
<1>5. PICK bar : /\ bar = Bar(executions, i, k)
                 /\ bar.x = x0 + span /\ bar.width = Max({wide, least})
  <2>1. /\ Bar(executions, i, k).x = x0 + span
        /\ Bar(executions, i, k).width = Max({x1 - x0 - 2 * span, MinBar * span})
    BY <1>1 DEF Bar
  <2> QED BY <1>4, <2>1
<1>6. wide \in Int /\ least \in Int
  BY <1>3, <1>4 DEF MinBar
<1>7. bar.width \in {wide, least}
  BY <1>5, <1>6 DEF Max
<1>8. ASSUME NEW end \in Int, x1 <= end PROVE Stands(bar, end, span)
  <2>1. bar.x > PlotLeft * span
    BY <1>3, <1>5 DEF PlotLeft
  <2>2. CASE bar.width = least
    <3>1. bar.x + bar.width <= (PlotRight + MinBar + 1) * span
      BY <1>3, <1>4, <1>5, <2>2 DEF PlotRight, MinBar
    <3> QED BY <1>4, <2>1, <2>2, <3>1 DEF Stands
  <2>3. CASE bar.width = wide /\ bar.width # least
    <3>1. bar.x + bar.width < end
      BY <1>3, <1>4, <1>5, <1>8, <2>3
    <3> QED BY <1>4, <2>1, <2>3, <3>1 DEF Stands
  <2> QED BY <1>7, <2>2, <2>3
<1>9. Stands(bar, PlotRight * span, span)
  BY <1>3, <1>8 DEF PlotRight
<1>10. ASSUME i < N PROVE Stands(bar, Bar(executions, i + 1, k).x, span)
  <2>1. (i + 1) - 1 = i
    OBVIOUS
  <2>2. Bar(executions, i + 1, k).x = x1 + span
    BY <1>1, <2>1 DEF Bar
  <2> QED BY <1>3, <1>8, <2>2
<1> QED BY <1>1, <1>5, <1>9, <1>10

\* A bar chart that is not empty.
IsBarred(delta, executions, k) ==
  /\ delta.bars = [i \in 2..Len(executions) |-> Bar(executions, i, k)]
  /\ delta.top = NiceCeiling(Max({0} \cup UNION {{delta.bars[i].gained, delta.bars[i].lost}
                                                   : i \in DOMAIN delta.bars}))

LEMMA ChangesShow ==
  ASSUME NEW executions, NEW k, NEW delta, delta = BuildDelta(executions, k), ~delta.empty
  PROVE  IsBarred(delta, executions, k)
<1> DEFINE bars == [i \in 2..Len(executions) |-> Bar(executions, i, k)]
           peak == Max({0} \cup UNION {{bars[i].gained, bars[i].lost} : i \in DOMAIN bars})
           drawn == [empty |-> FALSE, top |-> NiceCeiling(peak), bars |-> bars]
           none  == Len(executions) < 2 \/ peak = 0
<1>1. delta = IF none THEN Empty ELSE drawn
  BY DEF BuildDelta
<1>2. drawn.top = NiceCeiling(peak) /\ drawn.bars = bars
  <2> HIDE DEF bars, peak
  <2> QED OBVIOUS
<1>3. Empty.empty = TRUE
  BY DEF Empty
<1>4. delta = drawn
  <2> HIDE DEF drawn, none
  <2> QED BY <1>1, <1>3
<1>5. delta.top = NiceCeiling(peak) /\ delta.bars = bars
  <2> HIDE DEF bars, peak, drawn
  <2> QED BY <1>2, <1>4
<1> QED BY <1>5 DEF IsBarred

\* The figures of a page that is served.
LEMMA ServedFigures ==
  ASSUME IInv, Served
  PROVE  /\ \A i \in DOMAIN totals : Executed[i].takenAt \in Int
         /\ \A i \in DOMAIN totals : \A k \in DOMAIN totals[i] :
              /\ k \in Kinds /\ totals[i][k].members \in Upto
              /\ k \in DOMAIN Executed[i].totals
              /\ Executed[i].totals[k] = totals[i][k].members
         /\ \A i \in DOMAIN totals : \A k \in DOMAIN Executed[i].totals :
              k \in Kinds /\ Executed[i].totals[k] \in Upto
         /\ \A i \in DOMAIN totals : \A k : /\ Count(Executed[i].added, k) \in Upto
                                            /\ Count(Executed[i].removed, k) \in Upto
<1>1. /\ Paging /\ DOMAIN totals = DOMAIN rows
      /\ \A i \in DOMAIN totals :
              Executed[i] =
                [takenAt |-> rows[i].takenAt,
                 totals  |-> [k \in DOMAIN totals[i] |-> totals[i][k].members],
                 added   |-> [k \in DOMAIN totals[i] |-> totals[i][k].added],
                 removed |-> [k \in DOMAIN totals[i] |-> totals[i][k].removed]]
  BY ServedIsRead
<1>2. /\ \A i \in DOMAIN rows : rows[i] \in Rows
      /\ \A i \in DOMAIN totals : totals[i] \in Counts
  BY <1>1 DEF Paging
<1>3. 0 \in Upto
  BY FiguresAreNumbers
<1>4. ASSUME NEW i \in DOMAIN totals, NEW e, e = Executed[i], NEW c, c = totals[i]
      PROVE  /\ e.takenAt \in Int
             /\ DOMAIN e.totals = DOMAIN c
             /\ \A k \in DOMAIN c : /\ k \in Kinds /\ c[k].members \in Upto
                                    /\ e.totals[k] = c[k].members
             /\ \A k : Count(e.added, k) \in Upto /\ Count(e.removed, k) \in Upto
  <2>1. e.takenAt = rows[i].takenAt /\ e.totals = [k \in DOMAIN c |-> c[k].members]
        /\ e.added = [k \in DOMAIN c |-> c[k].added]
        /\ e.removed = [k \in DOMAIN c |-> c[k].removed]
    <3>1. e = [takenAt |-> rows[i].takenAt,
               totals  |-> [k \in DOMAIN c |-> c[k].members],
               added   |-> [k \in DOMAIN c |-> c[k].added],
               removed |-> [k \in DOMAIN c |-> c[k].removed]]
      BY <1>1, <1>4
    <3> QED BY <3>1
  <2>2. rows[i].takenAt \in Int
    BY <1>1, <1>2 DEF Rows
  <2>3. \A k \in DOMAIN c : k \in Kinds /\ c[k] \in Figures
    BY <1>2, <1>4 DEF Counts
  <2>4. \A k \in DOMAIN c : /\ c[k].members \in Upto /\ c[k].added \in Upto
                            /\ c[k].removed \in Upto
    BY <2>3 DEF Figures
  <2> QED BY <1>3, <2>1, <2>2, <2>3, <2>4 DEF Count
<1>5. \A i \in DOMAIN totals :
        /\ Executed[i].takenAt \in Int
        /\ DOMAIN Executed[i].totals = DOMAIN totals[i]
        /\ \A k \in DOMAIN totals[i] : /\ k \in Kinds /\ totals[i][k].members \in Upto
                                       /\ Executed[i].totals[k] = totals[i][k].members
        /\ \A k : Count(Executed[i].added, k) \in Upto /\ Count(Executed[i].removed, k) \in Upto
  BY <1>4
<1> QED BY <1>5

\* The maximum of the totals holds them all, and is not more than a list may have.
LEMMA HighestHolds ==
  ASSUME IInv, Served
  PROVE  /\ Highest(Executed, Kinds) \in Upto
         /\ \A i \in DOMAIN totals : \A k \in DOMAIN totals[i] :
              totals[i][k].members <= Highest(Executed, Kinds)
<1>1. PICK executions : executions = Executed /\ DOMAIN executions = DOMAIN totals
  BY ServedIsRead
<1>2. PICK S : S = {0} \cup UNION {{executions[i].totals[k] :
                                     k \in Kinds \cap DOMAIN executions[i].totals}
                                    : i \in DOMAIN executions}
  OBVIOUS
<1>3. \A i \in DOMAIN totals : \A k \in DOMAIN executions[i].totals :
        k \in Kinds /\ executions[i].totals[k] \in Upto
  BY <1>1, ServedFigures
<1>4. 0 \in Upto
  BY FiguresAreNumbers
<1>5. S \subseteq Upto /\ 0 \in S
  BY <1>1, <1>2, <1>3, <1>4
<1>6. Highest(executions, Kinds) = Max(S)
  BY <1>2 DEF Highest
<1>7. Max(S) \in Upto /\ \A y \in S : y <= Max(S)
  BY <1>5, MaxOfFigures
<1>8. ASSUME NEW i \in DOMAIN totals, NEW k \in DOMAIN totals[i]
      PROVE  totals[i][k].members \in S
  <2>1. /\ k \in Kinds \cap DOMAIN executions[i].totals /\ i \in DOMAIN executions
        /\ executions[i].totals[k] = totals[i][k].members
    BY <1>1, ServedFigures
  <2> QED BY <1>2, <2>1
<1> QED BY <1>1, <1>6, <1>7, <1>8

LEMMA TrendHolds ==
  ASSUME IInv, Served, NEW trend, trend = Trend, ~trend.empty
  PROVE  /\ IsDrawn(trend, Executed, Kinds)
         /\ IsRound(trend.top)
         /\ \A i \in DOMAIN totals : \A k \in DOMAIN totals[i] :
              totals[i][k].members \in 0..trend.top
<1>1. PICK executions, kinds : executions = Executed /\ kinds = Kinds
  OBVIOUS
<1>2. trend = BuildTrend(executions, kinds)
  BY <1>1 DEF Trend
<1>3. IsDrawn(trend, executions, kinds)
  BY <1>2, ChartShows
<1>4. PICK v : v = Highest(executions, kinds)
  OBVIOUS
<1>5. v \in Upto /\ \A i \in DOMAIN totals : \A k \in DOMAIN totals[i] :
                      totals[i][k].members <= v
  BY <1>1, <1>4, HighestHolds
<1>6. trend.top = NiceCeiling(v)
  BY <1>3, <1>4 DEF IsDrawn
<1>7. IsRound(trend.top) /\ v <= trend.top
  BY <1>5, <1>6, NiceCeilingHolds
<1>8. \A i \in DOMAIN totals : \A k \in DOMAIN totals[i] : totals[i][k].members \in Upto
  BY ServedFigures
<1>9. v \in Nat /\ trend.top \in Nat
  BY <1>5, <1>7, FiguresAreNumbers DEF IsRound
<1>10. ASSUME NEW i \in DOMAIN totals, NEW k \in DOMAIN totals[i]
       PROVE  totals[i][k].members \in 0..trend.top
  <2>1. PICK m : m = totals[i][k].members
    OBVIOUS
  <2>2. m \in Nat /\ m <= v
    BY <1>5, <1>8, <2>1, FiguresAreNumbers
  <2> QED BY <1>7, <1>9, <2>1, <2>2
<1> QED BY <1>1, <1>3, <1>7, <1>10

LEMMA DeltaHolds ==
  ASSUME IInv, Served, NEW delta, delta = BuildDelta(Executed, ListKind), ~delta.empty
  PROVE  /\ Rises(delta.top)
         /\ \A i \in DOMAIN delta.bars :
              /\ {delta.bars[i].gained, delta.bars[i].lost} \subseteq 0..delta.top
              /\ Stands(delta.bars[i],
                        IF (i + 1) \in DOMAIN delta.bars THEN delta.bars[i + 1].x
                                                         ELSE PlotRight * Span(Executed),
                        Span(Executed))
<1>1. PICK executions, k, N : /\ executions = Executed /\ k = ListKind /\ N = Len(rows)
                              /\ N \in Nat /\ DOMAIN totals = 1..N
                              /\ DOMAIN executions = 1..N
  BY ServedIsRead
<1>2. delta = BuildDelta(executions, k)
  BY <1>1
<1>3. IsBarred(delta, executions, k)
  BY <1>2, ChangesShow
<1>4. Len(executions) = N
  <2>1. Executed = [i \in DOMAIN totals |-> Executed[i]]
    BY DEF Executed
  <2>2. executions = [i \in 1..N |-> executions[i]]
    BY <1>1, <2>1
  <2> QED BY <1>1, <2>2
<1>5. PICK bars : bars = delta.bars /\ bars = [i \in 2..N |-> Bar(executions, i, k)]
  BY <1>3, <1>4 DEF IsBarred
<1>6. PICK S : S = {0} \cup UNION {{bars[i].gained, bars[i].lost} : i \in DOMAIN bars}
  OBVIOUS
<1>7. ASSUME NEW i \in DOMAIN bars PROVE bars[i].gained \in Upto /\ bars[i].lost \in Upto
  <2>1. i \in DOMAIN totals /\ bars[i] = Bar(executions, i, k)
    BY <1>1, <1>5
  <2>2. /\ bars[i].gained = Count(executions[i].added, k)
        /\ bars[i].lost = Count(executions[i].removed, k)
    BY <2>1 DEF Bar
  <2> QED BY <1>1, <2>1, <2>2, ServedFigures
<1>8. S \subseteq Upto /\ 0 \in S
  BY <1>6, <1>7, FiguresAreNumbers
<1>9. PICK peak : peak = Max(S) /\ peak \in Upto /\ \A y \in S : y <= peak
  BY <1>8, MaxOfFigures
<1>10. delta.top = NiceCeiling(peak)
  <2>1. delta.top =
          NiceCeiling(Max({0} \cup UNION {{delta.bars[i].gained, delta.bars[i].lost}
                                            : i \in DOMAIN delta.bars}))
    BY <1>3 DEF IsBarred
  <2>2. delta.top = NiceCeiling(Max({0} \cup UNION {{bars[i].gained, bars[i].lost}
                                                       : i \in DOMAIN bars}))
    BY <1>5, <2>1
  <2>3. delta.top = NiceCeiling(Max(S))
    BY <1>6, <2>2
  <2> QED BY <1>9, <2>3
<1>11. IsRound(delta.top) /\ peak <= delta.top
  BY <1>9, <1>10, NiceCeilingHolds
<1>12. peak \in Nat /\ delta.top \in Nat
  BY <1>9, <1>11, FiguresAreNumbers DEF IsRound
<1>13. \A y \in S : y \in 0..delta.top
  <2>1. \A y \in S : y \in Nat /\ y <= peak
    BY <1>8, <1>9, FiguresAreNumbers
  <2> QED BY <1>11, <1>12, <2>1
<1>14. \A i \in DOMAIN bars : {bars[i].gained, bars[i].lost} \subseteq 0..delta.top
  BY <1>6, <1>13
<1>15. ASSUME NEW i \in DOMAIN bars
       PROVE  Stands(bars[i], IF (i + 1) \in DOMAIN bars THEN bars[i + 1].x
                                                         ELSE PlotRight * Span(executions),
                     Span(executions))
  <2>1. /\ i \in 2..N /\ N \in Nat \ {0} /\ bars[i] = Bar(executions, i, k)
        /\ (i + 1) \in DOMAIN bars => i < N /\ bars[i + 1] = Bar(executions, i + 1, k)
    BY <1>1, <1>5
  <2>2. \A j \in 1..N : executions[j].takenAt \in Int
    BY <1>1, ServedFigures
  <2>3. /\ Stands(Bar(executions, i, k), PlotRight * Span(executions), Span(executions))
        /\ i < N => Stands(Bar(executions, i, k), Bar(executions, i + 1, k).x,
                           Span(executions))
    BY <1>1, <2>1, <2>2, BarsStand
  <2> QED BY <2>1, <2>3
<1>16. Rises(delta.top)
  BY <1>11, AxisRises
<1> QED BY <1>1, <1>5, <1>14, <1>15, <1>16

\* The drawing stays where the axes are, whatever was read: the round maximum holds
\* every total and every bar, its marks rise to it, and the bars stand in order,
\* only a widened one reaching up to four pixels past the end of the time axis.
THEOREM PlotHolds == TrendsSpec => []PlotHoldsEverything
<1>1. IInv => PlotHoldsEverything
  <2> SUFFICES ASSUME IInv, Served PROVE PlotHoldsEverything
    BY DEF PlotHoldsEverything
  <2>1. ASSUME NEW trend, trend = Trend, ~trend.empty
        PROVE  /\ Rises(trend.top)
               /\ \A i \in DOMAIN totals : \A k \in DOMAIN totals[i] :
                    YOf(totals[i][k].members, trend.top)
                      \in (PlotTop * trend.top)..(TrendBottom * trend.top)
    <3>1. /\ IsRound(trend.top)
          /\ \A i \in DOMAIN totals : \A k \in DOMAIN totals[i] :
               totals[i][k].members \in 0..trend.top
      BY <2>1, TrendHolds
    <3>2. PICK top \in Nat : top = trend.top
      BY <3>1 DEF IsRound
    <3>3. \A m \in 0..top : YOf(m, top) \in (PlotTop * top)..(TrendBottom * top)
      BY DEF YOf, PlotTop, TrendBottom
    <3>4. Rises(trend.top)
      BY <3>1, AxisRises
    <3> QED BY <3>1, <3>2, <3>3, <3>4
  <2>2. ASSUME NEW delta, delta = BuildDelta(Executed, ListKind), ~delta.empty
        PROVE  /\ Rises(delta.top)
               /\ \A i \in DOMAIN delta.bars :
                    /\ {delta.bars[i].gained, delta.bars[i].lost} \subseteq 0..delta.top
                    /\ Stands(delta.bars[i],
                              IF (i + 1) \in DOMAIN delta.bars
                                THEN delta.bars[i + 1].x ELSE PlotRight * Span(Executed),
                              Span(Executed))
    BY <2>2, DeltaHolds
  <2> QED BY <2>1, <2>2 DEF PlotHoldsEverything, Stands
<1> QED BY <1>1, ReadInvariant, PTL

-----------------------------------------------------------------------------
(* The labels *)

\* The members of s, each once, in the order in which the lines end.
IsFromTheTop(order, s, ends) ==
  /\ order \in SetToSeqs(s)
  /\ \A i, j \in DOMAIN order : i < j => ends[order[i]] <= ends[order[j]]

\* One more, whose line ends last.
LEMMA OneMoreLine ==
  ASSUME NEW s, IsFiniteSet(s), NEW x, x \notin s, NEW ends,
         \A y \in s : ends[y] <= ends[x],
         NEW order, IsFromTheTop(order, s, ends)
  PROVE  \E new : IsFromTheTop(new, s \cup {x}, ends)
<1>1. PICK n, t : n = Cardinality(s) /\ n \in Nat /\ t = s \cup {x}
  BY FS_CardinalityType
<1>2. Cardinality(t) = n + 1
  BY <1>1, FS_AddElement
<1>3. /\ order \in [1..n -> s]
      /\ \A i, j \in 1..n : i # j => order[i] # order[j]
      /\ \A i, j \in 1..n : i < j => ends[order[i]] <= ends[order[j]]
  BY <1>1 DEF IsFromTheTop, SetToSeqs
<1>4. PICK new : new = [i \in 1..(n + 1) |-> IF i = n + 1 THEN x ELSE order[i]]
  OBVIOUS
<1>5. /\ new[n + 1] = x
      /\ \A i \in 1..n : new[i] = order[i] /\ order[i] \in s
      /\ \A i \in 1..(n + 1) : i = n + 1 \/ i \in 1..n
  BY <1>1, <1>3, <1>4
<1>6. new \in [1..(n + 1) -> t]
  BY <1>1, <1>4, <1>5
<1>7. \A i, j \in 1..(n + 1) : i # j => new[i] # new[j]
  BY <1>3, <1>5
<1>8. ASSUME NEW i \in 1..(n + 1), NEW j \in 1..(n + 1), i < j
      PROVE  ends[new[i]] <= ends[new[j]]
  <2>1. i \in 1..n
    BY <1>1, <1>8
  <2>2. CASE j = n + 1
    BY <1>5, <2>1, <2>2
  <2>3. CASE j \in 1..n
    BY <1>3, <1>5, <1>8, <2>1, <2>3
  <2> QED BY <1>5, <2>2, <2>3
<1>9. new \in SetToSeqs(t)
  BY <1>2, <1>6, <1>7 DEF SetToSeqs
<1>10. DOMAIN new = 1..(n + 1)
  BY <1>4
<1> QED BY <1>1, <1>8, <1>9, <1>10 DEF IsFromTheTop

\* Any finite number of lines can be put in that order.
LEMMA OrderExists ==
  ASSUME NEW S, IsFiniteSet(S), NEW ends, \A x \in S : ends[x] \in Int
  PROVE  \E order : IsFromTheTop(order, S, ends)
<1> DEFINE G == {s \in SUBSET S : \E order : IsFromTheTop(order, s, ends)}
<1>1. ASSUME NEW s \in SUBSET S, \A t \in SUBSET s : t # s => t \in G
      PROVE  s \in G
  <2>1. CASE s = {}
    <3>1. Cardinality({}) = 0 /\ 1..0 = {}
      BY FS_EmptySet
    <3>2. PICK order : order = [i \in {} |-> i]
      OBVIOUS
    <3>3. order \in [{} -> {}] /\ DOMAIN order = {}
      BY <3>2
    <3>4. order \in SetToSeqs({})
      BY <3>1, <3>3 DEF SetToSeqs
    <3>5. IsFromTheTop(order, s, ends)
      BY <2>1, <3>3, <3>4 DEF IsFromTheTop
    <3> QED BY <3>5
  <2>2. CASE s # {}
    <3>1. PICK low : low = [x \in s |-> -ends[x]]
      OBVIOUS
    <3>2. IsFiniteSet(s) /\ \A x \in s : low[x] \in Int /\ low[x] = -ends[x]
      BY <3>1, FS_Subset
    <3>3. PICK x \in s : \A y \in s : low[x] <= low[y]
      BY <2>2, <3>2, LeastExists
    <3>4. \A y \in s : ends[y] <= ends[x]
      BY <3>2, <3>3
    <3>5. PICK t : t = s \ {x}
      OBVIOUS
    <3>6. t \in SUBSET s /\ t # s /\ x \notin t /\ t \cup {x} = s
      BY <3>3, <3>5
    <3>7. PICK order : IsFromTheTop(order, t, ends)
      BY <1>1, <3>6
    <3>8. IsFiniteSet(t) /\ \A y \in t : ends[y] <= ends[x]
      BY <3>2, <3>4, <3>6, FS_Subset
    <3>9. \E new : IsFromTheTop(new, t \cup {x}, ends)
      BY <3>6, <3>7, <3>8, OneMoreLine
    <3> QED BY <3>6, <3>9
  <2> QED BY <2>1, <2>2
<1>2. SUBSET S \subseteq G
  <2> HIDE DEF G
  <2> QED BY <1>1, SubsetInduction
<1> QED BY <1>2

LEMMA LinesAreOrdered ==
  ASSUME NEW ends, IsFiniteSet(DOMAIN ends), \A x \in DOMAIN ends : ends[x] \in Int
  PROVE  IsFromTheTop(FromTheTop(ends), DOMAIN ends, ends)
<1>1. PICK S : S = DOMAIN ends
  OBVIOUS
<1>2. \E order : IsFromTheTop(order, S, ends)
  BY <1>1, OrderExists
<1> QED BY <1>1, <1>2 DEF FromTheTop, IsFromTheTop

LEMMA NudgeTyped ==
  ASSUME NEW placed \in Seq(Int), NEW y \in Int, NEW gap \in Nat
  PROVE  /\ Nudge(placed, y, gap) \in Seq(Int)
         /\ \E v \in Int : /\ Nudge(placed, y, gap) = Append(placed, v)
                           /\ v >= y
                           /\ placed # <<>> => v - placed[Len(placed)] >= gap
<1>1. PICK v : /\ v = IF placed # <<>> /\ y - Last(placed) < gap
                        THEN Last(placed) + gap ELSE y
               /\ Nudge(placed, y, gap) = Append(placed, v)
  BY DEF Nudge
<1>2. placed # <<>> => placed[Len(placed)] \in Int /\ Last(placed) = placed[Len(placed)]
  BY DEF Last
<1>3. v \in Int /\ v >= y /\ (placed # <<>> => v - placed[Len(placed)] >= gap)
  BY <1>1, <1>2
<1>4. Append(placed, v) \in Seq(Int)
  BY <1>3
<1> QED BY <1>1, <1>3, <1>4

\* separateLabels, once the heights are in order.
Placed(heights, gap) ==
  FoldLeft(LAMBDA placed, y : Nudge(placed, y, gap), <<>>, heights)

\* How many labels are there, line after line.
IsPlacing(after, N, heights, gap) ==
  after[0] = <<>> /\ \A n \in 1..N : after[n] = Nudge(after[n - 1], heights[n], gap)

\* The labels are what is there after the last line.
LEMMA LabelsAreFolded ==
  ASSUME NEW N \in Nat, NEW heights \in [1..N -> Int], NEW gap \in Nat,
         NEW labels, labels = Placed(heights, gap)
  PROVE  \E after : IsPlacing(after, N, heights, gap) /\ labels = after[N]
<1> DEFINE
  op(i, placed) == Nudge(placed, heights[i], gap)
  Is(r) == r = [s \in SUBSET (1..N) |-> IF s = {} THEN <<>>
                                        ELSE op(Max(s), r[s \ {Max(s)}])]
<1>1. PICK A, base : A = Seq(Int) /\ base = <<>>
  OBVIOUS
<1>2. PICK step : step = [x \in (1..N) \X A |-> op(x[1], x[2])]
  OBVIOUS
<1>3. \A i \in 1..N, placed \in A :
        step[<<i, placed>>] = op(i, placed) /\ op(i, placed) \in A
  <2> SUFFICES ASSUME NEW i \in 1..N, NEW placed \in A
               PROVE  step[<<i, placed>>] = op(i, placed) /\ op(i, placed) \in A
    OBVIOUS
  <2>1. op(i, placed) \in A
    BY <1>1, NudgeTyped
  <2> HIDE DEF op
  <2> QED BY <1>2, <2>1
<1> HIDE DEF op
<1>4. \E r : Is(r)
  <2>1. base \in A /\ \A i \in 1..N, placed \in A : step[<<i, placed>>] \in A
    BY <1>1, <1>3
  <2>2. PICK run : IsCounting(run, N, A, base, step)
    BY <2>1, CountingExists
  <2>3. /\ run = [s \in SUBSET (1..N) |-> run[s]]
        /\ \A s \in SUBSET (1..N) :
             /\ run[s] \in A
             /\ run[s] = IF s = {} THEN <<>> ELSE step[<<Max(s), run[s \ {Max(s)}]>>]
    BY <1>1, <2>2 DEF IsCounting
  <2>4. ASSUME NEW s \in SUBSET (1..N), s # {}
        PROVE  run[s] = op(Max(s), run[s \ {Max(s)}])
    <3>1. Max(s) \in s
      BY <2>4, MaxOfNumbers
    <3>2. PICK m, t : m = Max(s) /\ t = s \ {m}
      OBVIOUS
    <3>3. m \in 1..N /\ t \in SUBSET (1..N)
      BY <3>1, <3>2
    <3> QED BY <1>3, <2>3, <2>4, <3>2, <3>3
  <2>5. Is(run)
    BY <2>3, <2>4
  <2> QED BY <2>5
<1> DEFINE
  Raw(r) == r = [s \in SUBSET DOMAIN heights |->
                   IF s = {} THEN <<>> ELSE op(Max(s), r[s \ {Max(s)}])]
<1>5. PICK r : r = (CHOOSE q : Raw(q)) /\ labels = r[DOMAIN heights]
  BY DEF Placed, FoldLeft, MapThenFoldSet, op
<1>6. DOMAIN heights = 1..N
  OBVIOUS
<1>7. Is(r) /\ labels = r[1..N]
  <2>1. \A q : Raw(q) <=> Is(q)
    BY <1>6
  <2>2. Raw(r)
    <3> HIDE DEF Raw, Is
    <3> QED BY <1>4, <1>5, <2>1
  <2>3. Is(r)
    <3> HIDE DEF Raw, Is
    <3> QED BY <2>1, <2>2
  <2> QED BY <1>5, <1>6, <2>3
<1> DEFINE after == [n \in 0..N |-> r[1..n]]
<1>8. after[0] = <<>> /\ \A n \in 1..N : after[n] = op(n, after[n - 1])
  <2>1. /\ 1..0 = {}
        /\ \A m \in 1..N : /\ 1..m \in SUBSET (1..N) /\ 1..m # {}
                           /\ Max(1..m) = m /\ (1..m) \ {m} = 1..(m - 1)
    BY InitialSegments
  <2>2. \A s \in SUBSET (1..N) :
          r[s] = IF s = {} THEN <<>> ELSE op(Max(s), r[s \ {Max(s)}])
    BY <1>7
  <2>3. after[0] = <<>>
    <3>1. r[{}] = <<>>
      BY <2>2
    <3> QED BY <2>1, <3>1
  <2>4. ASSUME NEW n \in 1..N PROVE after[n] = op(n, after[n - 1])
    <3>1. PICK s : s = 1..n /\ s \in SUBSET (1..N) /\ s # {} /\ Max(s) = n
                   /\ s \ {n} = 1..(n - 1)
      BY <2>1
    <3>2. r[s] = op(n, r[1..(n - 1)])
      BY <2>2, <3>1
    <3>3. n \in 0..N /\ n - 1 \in 0..N
      OBVIOUS
    <3> QED BY <3>1, <3>2, <3>3
  <2> QED BY <2>3, <2>4
<1>9. after[N] = r[1..N]
  OBVIOUS
<1> HIDE DEF after
<1> QED BY <1>7, <1>8, <1>9 DEF op, IsPlacing

\* The labels of the first n lines.
AreApart(labels, heights, n, gap) ==
  /\ labels \in Seq(Int) /\ Len(labels) = n
  /\ \A j \in 1..n : labels[j] >= heights[j]
  /\ \A i, j \in 1..n : i < j => labels[j] - labels[i] >= gap

LEMMA LabelsStayApart ==
  ASSUME NEW N \in Nat, NEW heights \in [1..N -> Int], NEW gap \in Nat,
         NEW n \in Nat, n + 1 \in 1..N, NEW labels, AreApart(labels, heights, n, gap)
  PROVE  AreApart(Nudge(labels, heights[n + 1], gap), heights, n + 1, gap)
<1>1. PICK y \in Int : y = heights[n + 1]
  OBVIOUS
<1>2. labels \in Seq(Int) /\ Len(labels) = n /\ DOMAIN labels = 1..n
  BY DEF AreApart
<1>3. PICK new, v : /\ new = Nudge(labels, y, gap) /\ new = Append(labels, v)
                    /\ v \in Int /\ v >= y
                    /\ labels # <<>> => v - labels[Len(labels)] >= gap
  <2>1. labels \in Seq(Int)
    BY <1>2
  <2>2. PICK v \in Int : /\ Nudge(labels, y, gap) = Append(labels, v)
                         /\ v >= y
                         /\ labels # <<>> => v - labels[Len(labels)] >= gap
    BY <2>1, NudgeTyped
  <2> QED BY <2>2
<1>4. /\ new \in Seq(Int) /\ Len(new) = n + 1 /\ new[n + 1] = v
      /\ \A j \in 1..n : new[j] = labels[j]
  BY <1>2, <1>3, Appended
<1>5. /\ \A j \in 1..n : labels[j] >= heights[j] /\ labels[j] \in Int
      /\ \A i, j \in 1..n : i < j => labels[j] - labels[i] >= gap
  BY <1>2 DEF AreApart
<1>6. ASSUME NEW j \in 1..(n + 1) PROVE new[j] >= heights[j]
  <2>1. CASE j = n + 1
    BY <1>1, <1>3, <1>4, <2>1
  <2>2. CASE j # n + 1
    <3>1. j \in 1..n
      BY <2>2
    <3> QED BY <1>4, <1>5, <3>1
  <2> QED BY <2>1, <2>2
<1>7. ASSUME NEW i \in 1..n PROVE v - labels[i] >= gap
  <2>1. n \in 1..n /\ labels # <<>>
    BY <1>2
  <2>2. v - labels[n] >= gap /\ labels[n] \in Int /\ labels[i] \in Int
    BY <1>2, <1>3, <1>5, <2>1
  <2>3. CASE i = n
    BY <2>2, <2>3
  <2>4. CASE i # n
    <3>1. labels[n] - labels[i] >= gap
      BY <1>5, <2>1, <2>4
    <3> QED BY <1>3, <2>2, <3>1
  <2> QED BY <2>3, <2>4
<1>8. ASSUME NEW i \in 1..(n + 1), NEW j \in 1..(n + 1), i < j
      PROVE  new[j] - new[i] >= gap
  <2>1. i \in 1..n
    BY <1>8
  <2>2. CASE j = n + 1
    BY <1>4, <1>7, <2>1, <2>2
  <2>3. CASE j # n + 1
    <3>1. j \in 1..n
      BY <2>3
    <3> QED BY <1>4, <1>5, <1>8, <2>1, <3>1
  <2> QED BY <2>2, <2>3
<1> QED BY <1>1, <1>3, <1>4, <1>6, <1>8 DEF AreApart

LEMMA PlacedApart ==
  ASSUME NEW N \in Nat, NEW heights \in [1..N -> Int], NEW gap \in Nat
  PROVE  AreApart(Placed(heights, gap), heights, N, gap)
<1>1. PICK labels : labels = Placed(heights, gap)
  OBVIOUS
<1>2. PICK after : IsPlacing(after, N, heights, gap) /\ labels = after[N]
  BY <1>1, LabelsAreFolded
<1> DEFINE G == {n \in Nat : n <= N => AreApart(after[n], heights, n, gap)}
<1>3. ASSUME NEW n \in Nat, \A m \in Nat : m < n => m \in G PROVE n \in G
  <2> SUFFICES ASSUME n <= N PROVE AreApart(after[n], heights, n, gap)
    OBVIOUS
  <2>1. CASE n = 0
    <3>1. <<>> \in Seq(Int) /\ Len(<<>>) = 0 /\ 1..0 = {}
      OBVIOUS
    <3>2. after[n] = <<>>
      BY <1>2, <2>1 DEF IsPlacing
    <3> QED BY <2>1, <3>1, <3>2 DEF AreApart
  <2>2. CASE n # 0
    <3>1. PICK m \in Nat : n = m + 1 /\ m + 1 \in 1..N
      <4>1. n - 1 \in Nat /\ n = (n - 1) + 1 /\ n \in 1..N
        BY <2>2
      <4> QED BY <4>1
    <3>2. AreApart(after[m], heights, m, gap)
      BY <1>3, <3>1
    <3>3. after[n] = Nudge(after[m], heights[m + 1], gap)
      <4>1. (m + 1) - 1 = m
        OBVIOUS
      <4> QED BY <1>2, <3>1, <4>1 DEF IsPlacing
    <3>4. AreApart(Nudge(after[m], heights[m + 1], gap), heights, m + 1, gap)
      BY <3>1, <3>2, LabelsStayApart
    <3> QED BY <3>1, <3>3, <3>4
  <2> QED BY <2>1, <2>2
<1>4. Nat \subseteq G
  <2> HIDE DEF G
  <2> QED BY <1>3, StrongInduction
<1>5. AreApart(after[N], heights, N, gap)
  BY <1>4
<1> QED BY <1>1, <1>2, <1>5

\* What is said of the labels of a chart whose lines are S.
AreReadable(labels, S, ends, gap) ==
  /\ Len(labels) = Cardinality(S)
  /\ \A i, j \in DOMAIN labels : i < j => labels[j] - labels[i] >= gap
  /\ \E line \in [DOMAIN labels -> S] :
       /\ {line[i] : i \in DOMAIN line} = S
       /\ \A i \in DOMAIN line : labels[i] >= ends[line[i]]

LEMMA LabelsAreSeparate ==
  ASSUME NEW ends, NEW S, S = DOMAIN ends, IsFiniteSet(S),
         \A x \in S : ends[x] \in Int, NEW gap \in Nat,
         NEW labels, labels = SeparateLabels(ends, gap)
  PROVE  AreReadable(labels, S, ends, gap)
<1>1. PICK order, N : order = FromTheTop(ends) /\ N = Cardinality(S) /\ N \in Nat
  BY FS_CardinalityType
<1>2. IsFromTheTop(order, S, ends)
  BY <1>1, LinesAreOrdered
<1>3. order \in [1..N -> S] /\ \A i, j \in 1..N : i # j => order[i] # order[j]
  BY <1>1, <1>2 DEF IsFromTheTop, SetToSeqs
<1>4. PICK heights : heights = [j \in DOMAIN order |-> ends[order[j]]]
  OBVIOUS
<1>5. heights \in [1..N -> Int] /\ \A j \in 1..N : heights[j] = ends[order[j]]
  BY <1>3, <1>4
<1>6. labels = Placed(heights, gap)
  BY <1>1, <1>4 DEF SeparateLabels, Placed
<1>7. AreApart(labels, heights, N, gap)
  BY <1>1, <1>5, <1>6, PlacedApart
<1>8. /\ Len(labels) = N /\ DOMAIN labels = 1..N
      /\ \A j \in 1..N : labels[j] >= heights[j]
      /\ \A i, j \in 1..N : i < j => labels[j] - labels[i] >= gap
  BY <1>7 DEF AreApart
<1>9. {order[i] : i \in DOMAIN order} = S
  <2>1. IsFiniteSet(1..N) /\ Cardinality(1..N) = N
    BY <1>1, FS_Interval
  <2>2. order \in Injection(1..N, S)
    BY <1>3 DEF Injection, IsInjective
  <2>3. order \in Surjection(1..N, S)
    BY <1>1, <2>1, <2>2, FS_Injection
  <2>4. DOMAIN order = 1..N /\ \A i \in 1..N : order[i] \in S
    BY <1>3
  <2>5. \A x \in S : \E i \in 1..N : order[i] = x
    BY <2>3 DEF Surjection
  <2> QED BY <2>4, <2>5
<1>10. PICK D : D = DOMAIN labels /\ D = 1..N /\ order \in [D -> S] /\ DOMAIN order = D
  BY <1>3, <1>8
<1>11. \A i \in D : labels[i] >= ends[order[i]]
  BY <1>5, <1>8, <1>10
<1>12. \E line \in [D -> S] : /\ {line[i] : i \in DOMAIN line} = S
                              /\ \A i \in DOMAIN line : labels[i] >= ends[line[i]]
  BY <1>9, <1>10, <1>11
<1>13. \A i, j \in D : i < j => labels[j] - labels[i] >= gap
  BY <1>8, <1>10
<1> QED BY <1>1, <1>8, <1>10, <1>12, <1>13 DEF AreReadable

\* The labels of the lines are readable, however the lines end: one for each, any
\* two of them far enough apart, and each at or below the end of its line.
THEOREM LabelsReadable == TrendsSpec => []LabelsApart
<1>1. IInv => LabelsApart
  <2> SUFFICES ASSUME IInv, Served, NEW trend, trend = Trend, ~trend.empty
               PROVE  /\ Len(trend.labels) = Cardinality(trend.kinds)
                      /\ \A i, j \in DOMAIN trend.labels :
                           i < j => trend.labels[j] - trend.labels[i] >= LabelGap * trend.top
                      /\ \E line \in [DOMAIN trend.labels -> trend.kinds] :
                           /\ {line[i] : i \in DOMAIN line} = trend.kinds
                           /\ \A i \in DOMAIN line : trend.labels[i] >= trend.ends[line[i]]
    BY DEF LabelsApart
  <2>1. PICK executions, N : /\ executions = Executed /\ N = Len(rows) /\ N \in Nat
                             /\ DOMAIN executions = 1..N /\ DOMAIN totals = 1..N
    BY ServedIsRead
  <2>2. IsDrawn(trend, executions, Kinds) /\ IsRound(trend.top)
    BY <2>1, TrendHolds
  <2>3. PICK S, ends, labels, top :
          /\ S = trend.kinds /\ ends = trend.ends /\ labels = trend.labels
          /\ top = trend.top
    OBVIOUS
  <2>4. /\ S = {k \in Kinds : \E i \in DOMAIN executions : k \in DOMAIN executions[i].totals}
        /\ ends = [k \in S |-> YOf(executions[LastCarrying(executions, k)].totals[k], top)
                                 + 4 * top]
        /\ labels = SeparateLabels(ends, LabelGap * top)
    BY <2>2, <2>3 DEF IsDrawn
  <2>5. IsFiniteSet(S)
    <3>1. IsFiniteSet(Kinds) /\ S \subseteq Kinds
      BY <2>4, WeightAssumption
    <3> QED BY <3>1, FS_Subset
  <2>6. top \in Nat
    BY <2>2, <2>3 DEF IsRound
  <2>7. ASSUME NEW k \in S PROVE ends[k] \in Int
    <3>1. PICK carrying : carrying = {i \in DOMAIN executions : k \in DOMAIN executions[i].totals}
      OBVIOUS
    <3>2. carrying \in SUBSET (1..N) /\ carrying # {}
      BY <2>1, <2>4, <3>1
    <3>3. PICK i : i = LastCarrying(executions, k) /\ i = Max(carrying)
      BY <3>1 DEF LastCarrying
    <3>4. i \in carrying
      BY <2>1, <3>2, <3>3, MaxOfNumbers
    <3>5. PICK m : m = executions[i].totals[k]
      OBVIOUS
    <3>6. m \in Upto
      <4>1. i \in DOMAIN totals /\ k \in DOMAIN executions[i].totals
        BY <2>1, <3>1, <3>4
      <4> QED BY <2>1, <3>5, <4>1, ServedFigures
    <3>7. m \in Int
      BY <3>6, FiguresAreNumbers
    <3>8. ends[k] = YOf(m, top) + 4 * top
      BY <2>4, <3>3, <3>5
    <3> QED BY <2>6, <3>7, <3>8 DEF YOf, TrendBottom, PlotTop
  <2>8. PICK gap \in Nat : gap = LabelGap * top
    BY <2>6 DEF LabelGap
  <2>9. S = DOMAIN ends /\ labels = SeparateLabels(ends, gap)
    BY <2>4, <2>8
  <2>10. AreReadable(labels, S, ends, gap)
    BY <2>5, <2>7, <2>9, LabelsAreSeparate
  <2> QED BY <2>3, <2>8, <2>10 DEF AreReadable
<1> QED BY <1>1, ReadInvariant, PTL
=============================================================================
