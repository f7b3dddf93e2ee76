---------------------------- MODULE ExportProofs ----------------------------
(***************************************************************************)
(* Proofs about instagram.Parse, for every file of any length: what a      *)
(* result holds is what the file says, whatever the order in which its     *)
(* parts lie, and a file is refused only for a reason.                     *)
(***************************************************************************)
EXTENDS Export, Facts

-----------------------------------------------------------------------------
(* One document *)

FollowerRecords == [user : Users, stamp : Nat]

LEMMA MembersAreTyped ==
  ASSUME NEW item \in Items
  PROVE  /\ Username(item) \in Users \cup {Nobody}
         /\ Username(item) # Nobody => Member(item) \in FollowerRecords
  BY DEF Items, Username, Member, FollowerRecords, NoStamp

\* The loop of flatten appends followers and nothing else.
LEMMA FlattenIsTyped ==
  ASSUME NEW items \in Seq(Items)
  PROVE  Flatten(items) \in Seq(FollowerRecords)
<1> DEFINE
  S     == DOMAIN items
  Acc   == Seq(FollowerRecords)
  op(i, out) == IF Username(items[i]) = Nobody THEN out
                ELSE Append(out, Member(items[i]))
  Is(r) == r = [s \in SUBSET S |-> IF s = {} THEN <<>>
                                   ELSE op(Max(s), r[s \ {Max(s)}])]
  pick  == [s \in SUBSET S |-> Max(s)]
  step  == [x \in S \X Acc |-> op(x[1], x[2])]
<1>1. Flatten(items) = (CHOOSE r : Is(r))[S]
  BY DEF Flatten, FoldLeft, MapThenFoldSet
<1>2. IsFiniteSet(S) /\ S \subseteq Int
  BY FS_Interval
<1>3. \A s \in SUBSET S : s # {} => Max(s) \in s
  BY <1>2, FS_Subset, MaxIsIn
<1>4. \A i \in S, out \in Acc : op(i, out) \in Acc
  BY MembersAreTyped
<1> HIDE DEF op
<1>5. PICK run : IsFolding(run, <<>>, pick, step, S)
  BY <1>2, <1>3, FoldingExists
<1>6. \A s \in SUBSET S :
        run[s] = IF s = {} THEN <<>> ELSE step[<<Max(s), run[s \ {Max(s)}]>>]
  BY <1>5 DEF IsFolding
<1>7. <<>> \in Acc
  OBVIOUS
<1> HIDE DEF S, Acc
<1>8. \A s \in SUBSET S : run[s] \in Acc
  <2> DEFINE G == {s \in SUBSET S : run[s] \in Acc}
  <2>1. ASSUME NEW s \in SUBSET S, \A t \in SUBSET s : t # s => t \in G
        PROVE  s \in G
    <3>1. CASE s = {}
      BY <1>6, <1>7, <3>1
    <3>2. CASE s # {}
      <4>1. PICK m, t : m = Max(s) /\ t = s \ {m}
        OBVIOUS
      <4>2. m \in S /\ run[t] \in Acc
        BY <1>3, <2>1, <3>2, <4>1
      <4>3. run[s] = op(m, run[t])
        BY <1>6, <3>2, <4>1, <4>2
      <4> QED BY <1>4, <4>2, <4>3
    <3> QED BY <3>1, <3>2
  <2>2. SUBSET S \subseteq G
    <3> HIDE DEF G
    <3> QED BY <1>2, <2>1, SubsetInduction
  <2> QED BY <2>2
<1>9. Is(run)
  <2>1. ASSUME NEW s \in SUBSET S, s # {}
        PROVE  run[s] = op(Max(s), run[s \ {Max(s)}])
    <3>1. PICK m, t : m = Max(s) /\ t = s \ {m}
      OBVIOUS
    <3>2. m \in S /\ run[t] \in Acc
      BY <1>3, <1>8, <2>1, <3>1
    <3> QED BY <1>6, <2>1, <3>1, <3>2
  <2>2. \A s \in SUBSET S :
          run[s] = IF s = {} THEN <<>> ELSE op(Max(s), run[s \ {Max(s)}])
    BY <1>6, <2>1
  <2>3. run = [s \in SUBSET S |-> run[s]]
    BY <1>5 DEF IsFolding
  <2> QED BY <2>2, <2>3
<1>10. PICK r : r = CHOOSE q : Is(q)
  OBVIOUS
<1>11. Is(r)
  BY <1>9, <1>10
<1>12. \A s \in SUBSET S : r[s] \in Acc
  <2> DEFINE G == {s \in SUBSET S : r[s] \in Acc}
  <2>1. ASSUME NEW s \in SUBSET S, \A t \in SUBSET s : t # s => t \in G
        PROVE  s \in G
    <3>0. r[s] = IF s = {} THEN <<>> ELSE op(Max(s), r[s \ {Max(s)}])
      BY <1>11
    <3>1. CASE s = {}
      BY <1>7, <3>0, <3>1
    <3>2. CASE s # {}
      <4>1. PICK m, t : m = Max(s) /\ t = s \ {m}
        OBVIOUS
      <4>2. m \in S /\ r[t] \in Acc
        BY <1>3, <2>1, <3>2, <4>1
      <4> QED BY <1>4, <3>0, <3>2, <4>1, <4>2
    <3> QED BY <3>1, <3>2
  <2>2. SUBSET S \subseteq G
    <3> HIDE DEF G
    <3> QED BY <1>2, <2>1, SubsetInduction
  <2> QED BY <2>2
<1> QED BY <1>1, <1>10, <1>12 DEF Acc

\* Among the lists of an object there is one that is tried first.
LEMMA FirstKeyExists ==
  ASSUME NEW keys, IsFiniteSet(keys), keys # {}, keys \subseteq Keys,
         \A a, b \in keys : a.rank = b.rank => a = b
  PROVE  \E k \in keys : \A o \in keys \ {k} : KeyPrecedes(k, o)
<1> DEFINE first == {k \in keys : k.relationships}
<1>1. \A k \in keys : k.rank \in Int /\ k.relationships \in BOOLEAN
  BY DEF Keys
<1>2. ASSUME NEW S \in SUBSET keys, S # {}
      PROVE  \E k \in S : \A o \in S \ {k} : k.rank < o.rank
  <2>1. PICK f : f = [k \in S |-> k.rank]
    OBVIOUS
  <2>2. IsFiniteSet(S) /\ \A x \in S : f[x] \in Int
    BY <1>1, <2>1, FS_Subset
  <2>3. PICK k \in S : \A o \in S : f[k] <= f[o]
    BY <1>2, <2>2, LeastExists
  <2>4. ASSUME NEW o \in S \ {k} PROVE k.rank < o.rank
    <3>1. k.rank \in Int /\ o.rank \in Int /\ k.rank # o.rank /\ k.rank <= o.rank
      BY <1>1, <2>1, <2>3
    <3> QED BY <3>1
  <2> QED BY <2>4
<1>3. CASE first = {}
  <2>1. PICK k \in keys : \A o \in keys \ {k} : k.rank < o.rank
    BY <1>2
  <2>2. \A o \in keys : ~o.relationships
    BY <1>3
  <2> QED BY <1>1, <2>1, <2>2 DEF KeyPrecedes
<1>4. CASE first # {}
  <2>1. PICK k \in first : \A o \in first \ {k} : k.rank < o.rank
    BY <1>2, <1>4
  <2>2. ASSUME NEW o \in keys \ {k} PROVE KeyPrecedes(k, o)
    BY <1>1, <2>1 DEF KeyPrecedes
  <2> QED BY <2>1, <2>2
<1> QED BY <1>3, <1>4

\* A document is a list or not, and holds followers.
LEMMA DocumentIsTyped ==
  ASSUME NEW doc \in Documents
  PROVE  /\ ParseDocument(doc).recognised \in BOOLEAN
         /\ ParseDocument(doc).members \in Seq(FollowerRecords)
         /\ ~ParseDocument(doc).recognised => ParseDocument(doc).members = <<>>
<1>1. CASE doc.form = "array"
  BY <1>1, FlattenIsTyped DEF Documents, ParseDocument
<1>2. CASE doc.form = "html"
  <2>1. doc.items \in Seq(Items)
    BY <1>2 DEF Documents
  <2>2. ParseHTMLExport(doc.items) \in Seq(FollowerRecords)
    <3>1. PICK links : links = [j \in DOMAIN doc.items |->
                         [value |-> Nobody, link |-> doc.items[j].link, stamp |-> NoStamp]]
      OBVIOUS
    <3>2. \A j \in DOMAIN doc.items : doc.items[j].link \in Users \cup {Nobody}
      <4>1. \A j \in DOMAIN doc.items : doc.items[j] \in Items
        BY <2>1
      <4> QED BY <4>1 DEF Items
    <3>3. \A j \in DOMAIN doc.items : links[j] \in Items
      BY <3>1, <3>2 DEF Items, NoStamp
    <3>4. PICK n \in Nat : DOMAIN doc.items = 1..n
      BY <2>1
    <3>5. links \in Seq(Items)
      <4>1. links \in [1..n -> Items]
        BY <3>1, <3>3, <3>4
      <4> QED BY <4>1
    <3> QED BY <3>1, <3>5, FlattenIsTyped DEF ParseHTMLExport
  <2> QED BY <1>2, <2>2 DEF ParseDocument
<1>3. CASE doc.form = "object"
  <2>1. PICK keys : keys = doc.keys
    OBVIOUS
  <2>2. /\ keys \in SUBSET Keys /\ IsFiniteSet(keys)
        /\ \A a, b \in keys : a.rank = b.rank => a = b
    BY <1>3, <2>1 DEF Documents
  <2> DEFINE lists == {k \in keys : k.isList /\ (k.relationships \/ Flatten(k.items) # <<>>)}
             first == CHOOSE k \in lists : \A o \in lists \ {k} : KeyPrecedes(k, o)
  <2>3. ParseDocument(doc) = IF lists = {} THEN Unrecognised
                             ELSE [recognised |-> TRUE, members |-> Flatten(first.items)]
    BY <1>3, <2>1 DEF ParseDocument, ParseObject
  <2>4. CASE lists = {}
    <3>1. <<>> \in Seq(FollowerRecords)
      OBVIOUS
    <3>2. ParseDocument(doc) = Unrecognised
      BY <2>3, <2>4
    <3> QED BY <3>1, <3>2 DEF Unrecognised
  <2>5. CASE lists # {}
    <3>1. IsFiniteSet(lists)
      BY <2>2, FS_Subset
    <3>2. first \in lists
      <4>1. lists \subseteq Keys /\ \A a, b \in lists : a.rank = b.rank => a = b
        BY <2>2
      <4>2. \E k \in lists : \A o \in lists \ {k} : KeyPrecedes(k, o)
        <5> HIDE DEF lists
        <5> QED BY <2>5, <3>1, <4>1, FirstKeyExists
      <4> HIDE DEF lists
      <4> QED BY <4>2
    <3>3. first.items \in Seq(Items)
      BY <2>2, <3>2 DEF Keys
    <3>4. Flatten(first.items) \in Seq(FollowerRecords)
      BY <3>3, FlattenIsTyped
    <3>5. ParseDocument(doc) = [recognised |-> TRUE, members |-> Flatten(first.items)]
      BY <2>3, <2>5
    <3> HIDE DEF first, lists
    <3> QED BY <3>4, <3>5
  <2> QED BY <2>4, <2>5
<1>4. CASE doc.form \in {"broken", "other"}
  <2>1. ParseDocument(doc) = Unrecognised
    BY <1>4 DEF ParseDocument
  <2>2. <<>> \in Seq(FollowerRecords)
    OBVIOUS
  <2> QED BY <2>1, <2>2 DEF Unrecognised
<1>5. doc.form \in {"array", "html", "object", "broken", "other"}
  BY DEF Documents
<1> QED BY <1>1, <1>2, <1>3, <1>4, <1>5

-----------------------------------------------------------------------------
(* The parts of a list *)

LEMMA EntriesAreTyped ==
  ASSUME file \in Files, Archive
  PROVE  /\ file.intact \in BOOLEAN
         /\ file.entries \in Seq(Entries)
         /\ DOMAIN file.entries = 1..Len(file.entries) /\ Len(file.entries) \in Nat
         /\ \A p \in DOMAIN file.entries :
              /\ Entry(p).rank \in Int /\ Entry(p).time \in Nat
              /\ Entry(p).size \in Nat /\ Entry(p).intact \in BOOLEAN
              /\ Entry(p).name \in Kinds \cup {"start_here", "directory", "other"}
              /\ Entry(p).name = "start_here" => Entry(p).content \in Pages
              /\ Entry(p).name \in Kinds => Entry(p).content \in Documents
<1>1. file.intact \in BOOLEAN /\ file.entries \in Seq(Entries)
  BY FilesAssumption DEF Archive
<1>2. ASSUME NEW e \in Entries
      PROVE  /\ e.rank \in Int /\ e.time \in Nat
             /\ e.size \in Nat /\ e.intact \in BOOLEAN
             /\ e.name \in Kinds \cup {"start_here", "directory", "other"}
             /\ e.name = "start_here" => e.content \in Pages
             /\ e.name \in Kinds => e.content \in Documents
  <2>1. "start_here" \notin Kinds \cup {"directory", "other"}
    BY ListDefinitionsAssumption
  <2> QED BY <2>1 DEF Entries
<1>3. \A p \in DOMAIN file.entries : Entry(p) \in Entries
  BY <1>1 DEF Entry
<1> QED BY <1>1, <1>2, <1>3

Content(p) == ParseDocument(Entry(p).content)

\* Where in the parts P somebody is mentioned.
Spots(P) == {m \in P \X Nat : m[2] \in DOMAIN Content(m[1]).members}

\* ms is all that the parts P mention, in the order of their names.
IsMerge(ms, P) ==
  /\ ms \in Seq(FollowerRecords)
  /\ \E src \in [1..Len(ms) -> Spots(P)] :
       /\ \A m \in Spots(P) : \E i \in 1..Len(ms) : src[i] = m
       /\ \A i \in 1..Len(ms) : ms[i] = Mention(src[i][1], src[i][2])
       /\ \A i, j \in 1..Len(ms) : i < j => ~Earlier(src[j], src[i])

AreParts(P) ==
  \A p \in P : Entry(p).rank \in Int /\ Entry(p).content \in Documents

LEMMA PartsAreParts ==
  ASSUME file \in Files, Archive, NEW k \in Kinds
  PROVE  AreParts(PartsOf(k))
BY EntriesAreTyped DEF AreParts, PartsOf

LEMMA NothingIsMerged == IsMerge(<<>>, {})
<1>1. Spots({}) = {}
  BY DEF Spots
<1>2. Len(<<>>) = 0 /\ 1..0 = {} /\ <<>> \in Seq(FollowerRecords)
  OBVIOUS
<1>3. PICK src : src = [i \in {} |-> i]
  OBVIOUS
<1>4. src \in [{} -> {}]
  BY <1>3
<1> QED BY <1>1, <1>2, <1>4 DEF IsMerge

\* Reading the next part in the order of names goes on with the merge.
LEMMA MergeGoesOn ==
  ASSUME NEW P, NEW p, p \notin P, AreParts(P \cup {p}), NEW ms, IsMerge(ms, P),
         \A q \in P : Entry(q).rank <= Entry(p).rank
  PROVE  IsMerge(ms \o Content(p).members, P \cup {p})
<1>1. PICK more, all : more = Content(p).members /\ all = ms \o more
  OBVIOUS
<1>2. PICK n, l : n = Len(ms) /\ l = Len(more)
  OBVIOUS
<1>3. more \in Seq(FollowerRecords) /\ ms \in Seq(FollowerRecords)
  BY <1>1, DocumentIsTyped DEF AreParts, Content, IsMerge
<1>4. /\ n \in Nat /\ l \in Nat /\ all \in Seq(FollowerRecords) /\ Len(all) = n + l
      /\ DOMAIN more = 1..l
      /\ \A i \in 1..n : all[i] = ms[i]
      /\ \A i \in 1..(n + l) : i \notin 1..n => i - n \in 1..l /\ all[i] = more[i - n]
  BY <1>1, <1>2, <1>3
<1>5. PICK src \in [1..n -> Spots(P)] :
        /\ \A m \in Spots(P) : \E i \in 1..n : src[i] = m
        /\ \A i \in 1..n : ms[i] = Mention(src[i][1], src[i][2])
        /\ \A i, j \in 1..n : i < j => ~Earlier(src[j], src[i])
  BY <1>2 DEF IsMerge
<1>6. PICK to : to = [i \in 1..(n + l) |-> IF i \in 1..n THEN src[i] ELSE <<p, i - n>>]
  OBVIOUS
<1>7. \A m : m \in Spots(P \cup {p}) <=>
               m \in Spots(P) \/ \E j \in 1..l : m = <<p, j>>
  <2>1. \A j : j \in DOMAIN Content(p).members <=> j \in 1..l
    BY <1>1, <1>4
  <2>2. \A m : m \in (P \cup {p}) \X Nat <=> \/ m \in P \X Nat
                                             \/ \E j \in Nat : m = <<p, j>>
    OBVIOUS
  <2>3. \A j \in 1..l : j \in Nat
    BY <1>4
  <2>4. \A m : m \in Spots(P \cup {p}) <=>
                 m \in (P \cup {p}) \X Nat /\ m[2] \in DOMAIN Content(m[1]).members
    BY DEF Spots
  <2>5. \A m : m \in Spots(P) <=>
                 m \in P \X Nat /\ m[2] \in DOMAIN Content(m[1]).members
    BY DEF Spots
  <2>6. \A m : \A j : m = <<p, j>> => m[1] = p /\ m[2] = j
    OBVIOUS
  <2>7. ASSUME NEW m \in Spots(P \cup {p})
        PROVE  m \in Spots(P) \/ \E j \in 1..l : m = <<p, j>>
    <3>1. CASE m \in P \X Nat
      BY <2>4, <2>5, <3>1
    <3>2. CASE \E j \in Nat : m = <<p, j>>
      <4>1. PICK j \in Nat : m = <<p, j>>
        BY <3>2
      <4>2. m[1] = p /\ m[2] = j
        BY <4>1
      <4>3. j \in DOMAIN Content(p).members
        BY <2>4, <4>2
      <4> QED BY <2>1, <4>1, <4>3
    <3> QED BY <2>2, <2>4, <3>1, <3>2
  <2>8. \A j \in 1..l : <<p, j>> \in Spots(P \cup {p})
    BY <2>1, <2>2, <2>3, <2>4, <2>6
  <2>9. \A m \in Spots(P) : m \in Spots(P \cup {p})
    BY <2>2, <2>4, <2>5
  <2> QED BY <2>7, <2>8, <2>9
<1>8. to \in [1..(n + l) -> Spots(P \cup {p})]
  <2>1. ASSUME NEW i \in 1..(n + l) PROVE to[i] \in Spots(P \cup {p})
    BY <1>4, <1>5, <1>6, <1>7
  <2> QED BY <1>6, <2>1
<1>9. ASSUME NEW m \in Spots(P \cup {p}) PROVE \E i \in 1..(n + l) : to[i] = m
  <2>1. CASE m \in Spots(P)
    <3>1. PICK i \in 1..n : src[i] = m
      BY <1>5, <2>1
    <3>2. i \in 1..(n + l) /\ to[i] = m
      BY <1>4, <1>6, <3>1
    <3> QED BY <3>2
  <2>2. CASE \E j \in 1..l : m = <<p, j>>
    <3>1. PICK j \in 1..l : m = <<p, j>>
      BY <2>2
    <3>2. PICK i : i = j + n
      OBVIOUS
    <3>3. i \in 1..(n + l) /\ i \notin 1..n /\ i - n = j
      BY <1>4, <3>2
    <3>4. to[i] = m
      BY <1>6, <3>1, <3>3
    <3> QED BY <3>3, <3>4
  <2> QED BY <1>7, <2>1, <2>2
<1>10. ASSUME NEW i \in 1..(n + l) PROVE all[i] = Mention(to[i][1], to[i][2])
  <2>1. CASE i \in 1..n
    BY <1>4, <1>5, <1>6, <2>1
  <2>2. CASE i \notin 1..n
    <3>1. PICK j : j = i - n
      OBVIOUS
    <3>2. to[i] = <<p, j>> /\ all[i] = more[j]
      BY <1>4, <1>6, <2>2, <3>1
    <3>3. Mention(p, j) = more[j]
      BY <1>1 DEF Mention, Content
    <3> QED BY <3>2, <3>3
  <2> QED BY <2>1, <2>2
<1>11. ASSUME NEW i \in 1..(n + l), NEW j \in 1..(n + l), i < j
       PROVE  ~Earlier(to[j], to[i])
  <2>0. Entry(p).rank \in Int
    BY DEF AreParts
  <2>1. CASE j \in 1..n
    <3>1. i \in 1..n
      BY <1>4, <1>11, <2>1
    <3> QED BY <1>5, <1>6, <1>11, <2>1, <3>1
  <2>2. CASE j \notin 1..n /\ i \in 1..n
    <3>1. PICK q, h : q = src[i][1] /\ h = to[i]
      OBVIOUS
    <3>2. q \in P /\ h[1] = q /\ to[j] = <<p, j - n>>
      BY <1>5, <1>6, <2>2, <3>1 DEF Spots
    <3>3. Entry(q).rank \in Int /\ Entry(q).rank <= Entry(p).rank /\ q # p
      BY <3>2 DEF AreParts
    <3> QED BY <2>0, <3>1, <3>2, <3>3 DEF Earlier
  <2>3. CASE j \notin 1..n /\ i \notin 1..n
    <3>1. to[j] = <<p, j - n>> /\ to[i] = <<p, i - n>>
      BY <1>6, <2>3
    <3>2. ~(j - n < i - n)
      BY <1>4, <1>11
    <3> QED BY <2>0, <3>1, <3>2 DEF Earlier
  <2> QED BY <2>1, <2>2, <2>3
<1>12. IsMerge(all, P \cup {p})
  <2>1. PICK h : h = n + l
    OBVIOUS
  <2>2. /\ Len(all) = h /\ all \in Seq(FollowerRecords)
        /\ to \in [1..h -> Spots(P \cup {p})]
        /\ \A m \in Spots(P \cup {p}) : \E i \in 1..h : to[i] = m
        /\ \A i \in 1..h : all[i] = Mention(to[i][1], to[i][2])
        /\ \A i, j \in 1..h : i < j => ~Earlier(to[j], to[i])
    BY <1>4, <1>8, <1>9, <1>10, <1>11, <2>1
  <2> QED BY <2>2 DEF IsMerge
<1> QED BY <1>1, <1>12

\* What the list of a kind should be.
IsTheList(k, list) ==
  /\ DOMAIN list = {u \in Users : Mentions(k, u) # {}}
  /\ \A u \in DOMAIN list :
       LET stated == {m \in Mentions(k, u) : Mention(m[1], m[2]).stamp # NoStamp}
       IN  IF stated = {} THEN list[u] = NoStamp
           ELSE \E m \in stated :
                  /\ list[u] = Mention(m[1], m[2]).stamp
                  /\ \A n \in stated : ~Earlier(n, m)

LEMMA MentionsAreSpots ==
  ASSUME NEW k, AreParts(PartsOf(k)), NEW u
  PROVE  Mentions(k, u) = {m \in Spots(PartsOf(k)) : Mention(m[1], m[2]).user = u}
<1>1. ASSUME NEW p \in PartsOf(k)
      PROVE  /\ Content(p).members \in Seq(FollowerRecords)
             /\ Content(p).recognised \in BOOLEAN
             /\ ~Content(p).recognised => Content(p).members = <<>>
  BY DocumentIsTyped DEF AreParts, Content
<1>2. \A p \in PartsOf(k) : DOMAIN Content(p).members \subseteq Nat
  BY <1>1
<1>3. \A p \in PartsOf(k) : \A j : j \in DOMAIN Content(p).members => Content(p).recognised
  BY <1>1
<1>4. \A m : m \in Mentions(k, u) <=>
               \E p \in PartsOf(k) : \E j \in DOMAIN Content(p).members :
                 /\ Content(p).recognised /\ Mention(p, j).user = u
                 /\ m = <<p, j>>
  BY DEF Mentions, Lists, Content
<1>5. \A m : m \in Spots(PartsOf(k)) <=>
               \E p \in PartsOf(k) : \E j \in DOMAIN Content(p).members : m = <<p, j>>
  BY <1>2 DEF Spots
<1> QED BY <1>3, <1>4, <1>5

\* A merge of all parts of a kind, without repetition, is the list.
LEMMA DedupeIsTheList ==
  ASSUME NEW k, AreParts(PartsOf(k)), NEW ms, IsMerge(ms, PartsOf(k))
  PROVE  IsTheList(k, Dedupe(ms))
<1>1. PICK n : n = Len(ms)
  OBVIOUS
<1>2. n \in Nat /\ DOMAIN ms = 1..n /\ \A i \in 1..n : ms[i] \in FollowerRecords
  BY <1>1 DEF IsMerge
<1>3. PICK src \in [1..n -> Spots(PartsOf(k))] :
        /\ \A m \in Spots(PartsOf(k)) : \E i \in 1..n : src[i] = m
        /\ \A i \in 1..n : ms[i] = Mention(src[i][1], src[i][2])
        /\ \A i, j \in 1..n : i < j => ~Earlier(src[j], src[i])
  BY <1>1 DEF IsMerge
<1>4. \A u, m : m \in Mentions(k, u) <=>
                  \E i \in 1..n : m = src[i] /\ ms[i].user = u
  <2>1. \A u, m : m \in Mentions(k, u) <=>
                    m \in Spots(PartsOf(k)) /\ Mention(m[1], m[2]).user = u
    BY MentionsAreSpots
  <2> QED BY <1>3, <2>1
<1>5. Named(ms) = {u \in Users : Mentions(k, u) # {}}
  <2>1. \A u : u \in Named(ms) <=> \E i \in 1..n : ms[i].user = u
    BY <1>2 DEF Named
  <2>2. \A i \in 1..n : ms[i].user \in Users
    BY <1>2 DEF FollowerRecords
  <2>3. \A u : Mentions(k, u) # {} <=> \E i \in 1..n : ms[i].user = u
    BY <1>4
  <2> QED BY <2>1, <2>2, <2>3
<1>6. ASSUME NEW u \in Named(ms)
      PROVE  LET stated == {m \in Mentions(k, u) : Mention(m[1], m[2]).stamp # NoStamp}
             IN  IF stated = {} THEN Dedupe(ms)[u] = NoStamp
                 ELSE \E m \in stated :
                        /\ Dedupe(ms)[u] = Mention(m[1], m[2]).stamp
                        /\ \A h \in stated : ~Earlier(h, m)
  <2> DEFINE stated == {m \in Mentions(k, u) : Mention(m[1], m[2]).stamp # NoStamp}
             at     == {j \in DOMAIN ms : ms[j].user = u /\ ms[j].stamp # NoStamp}
             first  == CHOOSE j \in at : \A l \in at : j <= l
  <2>1. Dedupe(ms)[u] = IF at = {} THEN NoStamp ELSE ms[first].stamp
    BY DEF Dedupe
  <2>2. \A m : m \in stated <=> \E i \in at : m = src[i]
    BY <1>2, <1>3, <1>4
  <2>3. at \subseteq 1..n
    BY <1>2
  <2> HIDE DEF at, stated
  <2>4. CASE at = {}
    <3>1. stated = {}
      BY <2>2, <2>4
    <3> QED BY <2>1, <2>4, <3>1 DEF stated
  <2>5. CASE at # {}
    <3>1. first \in at /\ \A l \in at : first <= l
      <4>1. PICK f : f = [j \in at |-> j]
        OBVIOUS
      <4>2. IsFiniteSet(at) /\ \A j \in at : f[j] \in Int
        <5>1. IsFiniteSet(1..n) /\ \A j \in at : j \in Int
          BY <1>2, <2>3, FS_Interval
        <5> QED BY <2>3, <4>1, <5>1, FS_Subset
      <4>3. \E j \in at : \A l \in at : f[j] <= f[l]
        BY <2>5, <4>2, LeastExists
      <4>4. \E j \in at : \A l \in at : j <= l
        BY <4>1, <4>3
      <4> QED BY <4>4
    <3> HIDE DEF first
    <3>2. PICK j, m : j = first /\ m = src[j]
      OBVIOUS
    <3>3. m \in stated /\ Dedupe(ms)[u] = Mention(m[1], m[2]).stamp
      BY <1>3, <2>1, <2>2, <2>3, <2>5, <3>1, <3>2
    <3>4. ASSUME NEW h \in stated PROVE ~Earlier(h, m)
      <4>1. PICK i \in at : h = src[i]
        BY <2>2
      <4>2. i \in 1..n /\ j \in 1..n /\ (j < i \/ i = j)
        BY <1>2, <2>3, <3>1, <3>2
      <4>3. CASE j < i
        BY <1>3, <3>2, <4>1, <4>2, <4>3
      <4>4. CASE i = j
        <5>0. m \in Spots(PartsOf(k))
          BY <1>3, <3>2, <4>2
        <5>1. PICK p, s : m = <<p, s>> /\ p \in PartsOf(k) /\ s \in Nat
          BY <5>0 DEF Spots
        <5>2. Entry(p).rank \in Int
          BY <5>1 DEF AreParts
        <5> QED BY <3>2, <4>1, <4>4, <5>1, <5>2 DEF Earlier
      <4> QED BY <4>2, <4>3, <4>4
    <3> QED BY <3>3, <3>4 DEF stated
  <2> QED BY <2>4, <2>5
<1>7. DOMAIN Dedupe(ms) = Named(ms)
  BY DEF Dedupe
<1> QED BY <1>5, <1>6, <1>7 DEF IsTheList

-----------------------------------------------------------------------------
(* The inductive invariant *)

Sizes == [p \in DOMAIN file.entries |-> Entry(p).size]

\* Reading the parts P has left this much of the budget.
Afforded(P, left) ==
  /\ left \in Nat /\ left = MaxDecompressedBytes - Total(Sizes, P)
  /\ \A p \in P : Entry(p).intact

Here      == ListDefinitions[kind]
ReadHere  == PartsOf(Here) \ queue
ReadParts == ReadHere \cup UNION {PartsOf(ListDefinitions[j]) : j \in 1..(kind - 1)}

\* The lists are what the file says of the first n kinds.
HoldsLists(lists, n) ==
  /\ DOMAIN lists = {k \in Kinds : /\ \E j \in 1..n : k = ListDefinitions[j]
                                  /\ Lists(k) # {}}
  /\ \A k \in DOMAIN lists : IsTheList(k, lists[k])

Untouched ==
  /\ budget = MaxDecompressedBytes /\ export = NoExport
  /\ kind = 1 /\ queue = {} /\ members = <<>> /\ parsedAny = FALSE

NotWalked ==
  /\ inspected = 0 /\ startHere = 0 /\ newest = NoDate
  /\ parts = [k \in Kinds |-> {}]

\* What the walk has found among the entries inspected so far.
Walked ==
  /\ Archive /\ file.intact
  /\ inspected \in 0..Len(file.entries) /\ inspected <= MaxArchiveEntries
  /\ parts = [k \in Kinds |-> {p \in 1..inspected : Entry(p).name = k}]
  /\ startHere = 0 \/ (startHere \in 1..inspected /\ Entry(startHere).name = "start_here")
  /\ \A p \in 1..inspected : Entry(p).name = "start_here" => p <= startHere
  /\ newest \in Nat
  /\ \A p \in 1..inspected : Entry(p).name # "directory" => Modified(Entry(p)) <= newest
  /\ \/ newest = NoDate
     \/ \E p \in 1..inspected :
          Entry(p).name # "directory" /\ newest = Modified(Entry(p))

Reading ==
  /\ inspected = Len(file.entries)
  /\ kind \in DOMAIN ListDefinitions
  /\ queue \subseteq PartsOf(Here)
  /\ \A p \in ReadHere : \A q \in queue : Entry(p).rank <= Entry(q).rank
  /\ IsMerge(members, ReadHere)
  /\ parsedAny = (\E p \in ReadHere : Content(p).recognised)
  /\ Afforded(ReadParts, budget)
  /\ HoldsLists(export.lists, kind - 1) /\ DOMAIN export = DOMAIN NoExport

Complete ==
  /\ inspected = Len(file.entries)
  /\ Afforded(AllParts, budget)
  /\ HoldsLists(export.lists, Len(ListDefinitions))
  /\ ~FollowersMissing(export.lists)
  /\ export.partial = Partial(Page) /\ export.takenAt = TakenAt(Page)
  /\ export.owner = Page.owner

HasReason ==
  \/ ~file.intact \/ \E p \in AllParts : ~Entry(p).intact
  \/ Len(file.entries) > MaxArchiveEntries
  \/ \A u \in Users : Mentions("followers", u) = {}
  \/ Expanded >= MaxDecompressedBytes

IInv ==
  /\ file \in Files /\ TypeOK
  /\ pc = "parse"    => NotWalked /\ Untouched
  /\ pc = "inspect"  => Walked /\ Untouched
  /\ pc = "read"     => Walked /\ Reading
  /\ pc = "refused"  => (Archive => HasReason)
  /\ pc = "accepted" => IF Archive THEN Walked /\ Complete
                        ELSE ~FollowersMissing(export.lists)

-----------------------------------------------------------------------------
(* Sizes *)

LEMMA SizesAreTotals ==
  ASSUME file \in Files, Archive
  PROVE  /\ IsFiniteSet(AllParts) /\ AllParts \subseteq DOMAIN file.entries
         /\ \A p \in AllParts : Sizes[p] = Entry(p).size /\ Sizes[p] \in Nat
         /\ Expanded = Total(Sizes, AllParts)
<1> DEFINE d(p) == Entry(p).size
<1>1. IsFiniteSet(DOMAIN file.entries)
  BY EntriesAreTyped, FS_Interval
<1>2. IsFiniteSet(AllParts) /\ AllParts \subseteq DOMAIN file.entries
  <2>1. AllParts \subseteq DOMAIN file.entries
    BY DEF AllParts, PartsOf
  <2> QED BY <1>1, <2>1, FS_Subset
<1>3. \A p \in AllParts : Sizes[p] = Entry(p).size /\ Sizes[p] \in Nat
  BY <1>2, EntriesAreTyped DEF Sizes
<1>4. PICK S, g : S = AllParts /\ g = Sizes
  OBVIOUS
<1>5. PICK run :
        /\ run = CHOOSE r :
             r = [s \in SUBSET S |-> IF s = {} THEN 0
                                     ELSE d(Some(s)) + r[s \ {Some(s)}]]
        /\ run[S] = Expanded
  BY <1>4 DEF Expanded, MapThenSumSet, MapThenFoldSet, Some
<1>6. \A p \in S : g[p] = d(p)
  BY <1>3, <1>4
<1> HIDE DEF d
<1>7. \A s \in SUBSET S : s # {} => Some(s) \in S
  BY DEF Some
<1>8. \A r : IsRunning(r, g, S) <=>
               r = [s \in SUBSET S |-> IF s = {} THEN 0
                                       ELSE d(Some(s)) + r[s \ {Some(s)}]]
  BY <1>6, <1>7 DEF IsRunning
<1>9. \E r : IsRunning(r, g, S)
  BY <1>2, <1>4, RunningExists
<1>10. IsRunning(run, g, S)
  BY <1>5, <1>8, <1>9
<1>11. run[S] = Total(g, S)
  BY <1>2, <1>4, <1>10, RunningIsTotal
<1> QED BY <1>2, <1>3, <1>4, <1>5, <1>11

\* Reading one more part costs its size, and no more than all parts do.
LEMMA PartCostsItsSize ==
  ASSUME file \in Files, Archive, NEW P, NEW p, P \cup {p} \subseteq AllParts, p \notin P
  PROVE  /\ Total(Sizes, P \cup {p}) = Total(Sizes, P) + Entry(p).size
         /\ Total(Sizes, P) \in Nat /\ Entry(p).size \in Nat /\ Expanded \in Nat
         /\ Total(Sizes, P \cup {p}) <= Expanded
<1>1. PICK S, g, R : S = AllParts /\ g = Sizes /\ R = P \cup {p}
  OBVIOUS
<1>2. /\ IsFiniteSet(S) /\ \A q \in S : g[q] = Entry(q).size /\ g[q] \in Nat
      /\ Expanded = Total(g, S)
  BY <1>1, SizesAreTotals
<1>3. R \in SUBSET S /\ P \in SUBSET S /\ p \in R /\ R \ {p} = P /\ IsFiniteSet(R)
  BY <1>1, <1>2, FS_Subset
<1>4. Total(g, R) = g[p] + Total(g, P)
  BY <1>2, <1>3, TotalTakeOut
<1>5. Total(g, P) \in Nat /\ Total(g, R) <= Total(g, S) /\ Total(g, S) \in Nat
  BY <1>2, <1>3, TotalGrows
<1>6. g[p] = Entry(p).size /\ g[p] \in Nat
  BY <1>2, <1>3
<1> QED BY <1>1, <1>2, <1>4, <1>5, <1>6

LEMMA NothingCosts ==
  ASSUME NEW P, P = {}
  PROVE  Afforded(P, MaxDecompressedBytes)
<1>1. PICK g : g = Sizes
  OBVIOUS
<1>2. Total(g, P) = 0
  BY FS_EmptySet, TotalUnfolds
<1> QED BY <1>1, <1>2, LimitsAssumption DEF Afforded

-----------------------------------------------------------------------------
(* The invariant holds *)

\* What is said of the file alone stays true.
LEMMA FileStays ==
  ASSUME file' = file
  PROVE  /\ Archive' <=> Archive
         /\ \A p : Entry(p)' = Entry(p)
         /\ \A p : Content(p)' = Content(p)
         /\ \A k : PartsOf(k)' = PartsOf(k)
         /\ AllParts' = AllParts
         /\ \A P : Spots(P)' = Spots(P)
         /\ \A ms, P : IsMerge(ms, P)' <=> IsMerge(ms, P)
         /\ \A P, left : Afforded(P, left)' <=> Afforded(P, left)
         /\ \A lists, n : HoldsLists(lists, n)' <=> HoldsLists(lists, n)
         /\ HasReason' <=> HasReason
<1>1. Archive' <=> Archive
  BY DEF Archive
<1>2. \A p : Entry(p)' = Entry(p)
  BY DEF Entry
<1>3. \A p : Content(p)' = Content(p)
  BY <1>2 DEF Content, Entry
<1>4. \A k : PartsOf(k)' = PartsOf(k)
  BY DEF PartsOf, Entry
<1>5. AllParts' = AllParts
  BY DEF AllParts, PartsOf, Entry
<1>6. \A P : Spots(P)' = Spots(P)
  BY DEF Spots, Content, Entry
<1>7. \A ms, P : IsMerge(ms, P)' <=> IsMerge(ms, P)
  BY DEF IsMerge, Spots, Content, Entry, Mention, Earlier
<1>8. \A P, left : Afforded(P, left)' <=> Afforded(P, left)
  BY DEF Afforded, Sizes, Entry
<1>9. \A lists, n : HoldsLists(lists, n)' <=> HoldsLists(lists, n)
  BY DEF HoldsLists, IsTheList, Lists, PartsOf, Mentions, Mention, Earlier, Entry
<1>10. HasReason' <=> HasReason
  <2>1. Expanded' = Expanded
    BY DEF Expanded, MapThenSumSet, MapThenFoldSet, AllParts, PartsOf, Entry
  <2>2. \A u : Mentions("followers", u)' = Mentions("followers", u)
    BY DEF Lists, PartsOf, Mentions, Mention, Entry
  <2> QED BY <1>2, <1>5, <2>1, <2>2 DEF HasReason
<1> QED BY <1>1, <1>2, <1>3, <1>4, <1>5, <1>6, <1>7, <1>8, <1>9, <1>10

LEMMA ExportInit == Init => IInv
<1> SUFFICES ASSUME Init PROVE IInv
  OBVIOUS
<1>1. file \in Files /\ pc = "parse" /\ NotWalked /\ Untouched
  BY DEF Init, NotWalked, Untouched
<1>2. TypeOK
  <2>1. \A k \in Kinds : parts[k] = {}
    BY <1>1 DEF NotWalked
  <2>2. Named(members) = {}
    BY <1>1 DEF Untouched, Named
  <2>3. DOMAIN export.lists = {}
    BY <1>1 DEF Untouched, NoExport
  <2>4. 1 \in DOMAIN ListDefinitions
    BY ListDefinitionsAssumption
  <2>5. budget \in 0..MaxDecompressedBytes
    BY <1>1, LimitsAssumption DEF Untouched
  <2>6. inspected \in Nat /\ startHere \in 0..inspected /\ newest \in Nat
    BY <1>1 DEF NotWalked, NoDate
  <2> QED BY <1>1, <2>1, <2>2, <2>3, <2>4, <2>5, <2>6 DEF Untouched, TypeOK
<1> QED BY <1>1, <1>2 DEF IInv

\* A file that is refused for a reason leaves everything as it was.
LEMMA RefusalKeeps ==
  ASSUME IInv, Refused, Archive => HasReason
  PROVE  IInv'
<1>1. pc' = "refused" /\ file' = file
  BY DEF Refused
<1>2. TypeOK'
  BY DEF Refused, IInv, TypeOK, walk, reading
<1>3. Archive' => HasReason'
  BY <1>1, FileStays
<1> QED BY <1>1, <1>2, <1>3 DEF IInv

LEMMA BareKeeps == IInv /\ ParseBare => IInv'
<1> SUFFICES ASSUME IInv, ParseBare PROVE IInv'
  OBVIOUS
<1> DEFINE found == ParseDocument(file.content)
<1>1. ~Archive /\ file.content \in Documents /\ NotWalked /\ Untouched
  BY FilesAssumption DEF IInv, ParseBare, Archive
<1>2. found.members \in Seq(FollowerRecords)
  BY <1>1, DocumentIsTyped
<1> HIDE DEF found
<1>3. CASE Refused
  BY <1>1, <1>3, RefusalKeeps
<1>4. CASE /\ found.members # <<>>
           /\ pc' = "accepted"
           /\ export' = [export EXCEPT
                !.lists = [k \in {"followers"} |-> Dedupe(found.members)]]
           /\ UNCHANGED <<file, walk, budget, reading>>
  <2>1. PICK ms, list : ms = found.members /\ list = Dedupe(ms)
    OBVIOUS
  <2>2. ms \in Seq(FollowerRecords) /\ ms # <<>>
    BY <1>2, <1>4, <2>1
  <2>3. DOMAIN list = Named(ms)
    BY <2>1 DEF Dedupe
  <2>4. Named(ms) \subseteq Users /\ Named(ms) # {}
    <3>1. \A j \in DOMAIN ms : ms[j].user \in Users
      <4>1. \A j \in DOMAIN ms : ms[j] \in FollowerRecords
        BY <2>2
      <4> QED BY <4>1 DEF FollowerRecords
    <3>2. DOMAIN ms # {}
      <4>1. ASSUME Len(ms) = 0 PROVE FALSE
        <5>1. ms = <<>>
          BY <2>2, <4>1
        <5> QED BY <2>2, <5>1
      <4>2. Len(ms) \in Nat /\ DOMAIN ms = 1..Len(ms)
        BY <2>2
      <4>3. 1 \in DOMAIN ms
        BY <4>1, <4>2
      <4> QED BY <4>3
    <3> QED BY <3>1, <3>2 DEF Named
  <2>5. export'.lists = [k \in {"followers"} |-> list]
    BY <1>1, <1>4, <2>1 DEF Untouched, NoExport
  <2>6. ~FollowersMissing(export.lists)'
    BY <2>3, <2>4, <2>5 DEF FollowersMissing
  <2>7. "followers" \in Kinds
    BY ListDefinitionsAssumption DEF Kinds
  <2>8. TypeOK'
    BY <1>4, <2>3, <2>4, <2>5, <2>7 DEF IInv, TypeOK, walk, reading
  <2> QED BY <1>1, <1>4, <2>6, <2>8, FileStays DEF IInv
<1> QED BY <1>3, <1>4 DEF ParseBare, found

LEMMA OpenKeeps == IInv /\ OpenArchive => IInv'
<1> SUFFICES ASSUME IInv, OpenArchive PROVE IInv'
  OBVIOUS
<1>1. Archive /\ file \in Files /\ NotWalked /\ Untouched
  BY DEF OpenArchive, Archive, IInv
<1>2. CASE ~file.intact
  BY <1>2, RefusalKeeps DEF OpenArchive, HasReason
<1>3. CASE file.intact
  <2>1. pc' = "inspect" /\ UNCHANGED <<file, walk, budget, reading, export>>
    BY <1>3 DEF OpenArchive
  <2>2. Len(file.entries) \in Nat
    BY <1>1, EntriesAreTyped
  <2>3. 1..0 = {}
    OBVIOUS
  <2>4. Walked
    BY <1>1, <1>3, <2>2, <2>3, LimitsAssumption DEF NotWalked, Walked, NoDate
  <2>5. Walked' /\ Untouched' /\ TypeOK'
    BY <2>1, <2>4, <1>1, FileStays
       DEF Walked, Untouched, TypeOK, IInv, walk, reading
  <2> QED BY <2>1, <2>5 DEF IInv
<1> QED BY <1>2, <1>3

LEMMA InspectKeeps == IInv /\ InspectEntry => IInv'
<1> SUFFICES ASSUME IInv, InspectEntry PROVE IInv'
  OBVIOUS
<1>1. Walked /\ Untouched /\ TypeOK /\ file \in Files
  BY DEF InspectEntry, IInv
<1>2. PICK p : p = inspected + 1
  OBVIOUS
<1>3. /\ Len(file.entries) \in Nat /\ DOMAIN file.entries = 1..Len(file.entries)
      /\ inspected \in Nat /\ p \in DOMAIN file.entries
      /\ 1..p = 1..inspected \cup {p} /\ p \notin 1..inspected
  BY <1>1, <1>2, EntriesAreTyped DEF Walked, InspectEntry
<1>4. PICK e : e = Entry(p)
  OBVIOUS
<1>5. CASE p > MaxArchiveEntries
  <2>1. Refused
    BY <1>2, <1>5 DEF InspectEntry
  <2>2. Len(file.entries) > MaxArchiveEntries
    BY <1>3, <1>5, LimitsAssumption
  <2> QED BY <2>1, <2>2, RefusalKeeps DEF HasReason
<1>6. CASE ~(p > MaxArchiveEntries)
  <2>1. /\ inspected' = p
        /\ newest' = IF e.name # "directory" /\ Modified(e) > newest
                       THEN Modified(e) ELSE newest
        /\ startHere' = IF e.name = "start_here" THEN p ELSE startHere
        /\ parts' = [k \in Kinds |-> IF k = e.name THEN parts[k] \cup {p}
                                                   ELSE parts[k]]
        /\ UNCHANGED <<file, pc, budget, reading, export>>
    BY <1>2, <1>4, <1>6 DEF InspectEntry
  <2>2. Modified(e) \in Nat
    BY <1>1, <1>3, <1>4, EntriesAreTyped, LimitsAssumption DEF Modified, Walked
  <2>3. p <= MaxArchiveEntries
    BY <1>3, <1>6, LimitsAssumption
  <2>4. parts' = [k \in Kinds |-> {q \in 1..p : Entry(q).name = k}]
    <3>1. ASSUME NEW k \in Kinds
          PROVE  (IF k = e.name THEN parts[k] \cup {p} ELSE parts[k])
                   = {q \in 1..p : Entry(q).name = k}
      <4>1. parts[k] = {q \in 1..inspected : Entry(q).name = k}
        BY <1>1 DEF Walked
      <4> QED BY <1>3, <1>4, <4>1
    <3> QED BY <2>1, <3>1
  <2>5. \A q : Entry(q)' = Entry(q)
    BY <2>1, FileStays
  <2>6. /\ startHere' = 0 \/ (startHere' \in 1..p /\ Entry(startHere)'.name = "start_here")
        /\ \A q \in 1..p : Entry(q).name = "start_here" => q <= startHere'
    <3>1. CASE e.name = "start_here"
      BY <1>3, <1>4, <2>1, <2>5, <3>1
    <3>2. CASE e.name # "start_here"
      BY <1>1, <1>3, <1>4, <2>1, <2>5, <3>2 DEF Walked
    <3> QED BY <3>1, <3>2
  <2>7. /\ newest' \in Nat
        /\ \A q \in 1..p : Entry(q).name # "directory" => Modified(Entry(q)) <= newest'
        /\ \/ newest' = NoDate
           \/ \E q \in 1..p : Entry(q).name # "directory" /\ newest' = Modified(Entry(q))
    <3>1. \A q \in 1..inspected : Modified(Entry(q)) \in Nat
      BY <1>1, <1>3, EntriesAreTyped, LimitsAssumption DEF Modified, Walked
    <3>2. /\ newest \in Nat
          /\ \A q \in 1..inspected :
               Entry(q).name # "directory" => Modified(Entry(q)) <= newest
          /\ \/ newest = NoDate
             \/ \E q \in 1..inspected :
                  Entry(q).name # "directory" /\ newest = Modified(Entry(q))
      BY <1>1 DEF Walked
    <3>3. PICK m : m = Modified(e)
      OBVIOUS
    <3>4. CASE e.name # "directory" /\ m > newest
      BY <1>3, <1>4, <2>1, <2>2, <3>1, <3>2, <3>3, <3>4
    <3>5. CASE ~(e.name # "directory" /\ m > newest)
      BY <1>3, <1>4, <2>1, <2>2, <3>2, <3>3, <3>5
    <3> QED BY <3>4, <3>5
  <2>8. Walked'
    <3>1. \A q : Modified(Entry(q))' = Modified(Entry(q))
      BY <2>5 DEF Modified
    <3>2. Archive' /\ file'.intact
      BY <1>1, <2>1, FileStays DEF Walked
    <3>3. inspected' \in 0..Len(file'.entries) /\ inspected' <= MaxArchiveEntries
      BY <1>3, <2>1, <2>3
    <3> QED BY <2>1, <2>4, <2>5, <2>6, <2>7, <3>1, <3>2, <3>3 DEF Walked
  <2>9. Untouched'
    BY <1>1, <2>1 DEF Untouched, reading
  <2>10. TypeOK'
    <3>1. \A k \in Kinds : parts'[k] \subseteq 1..p
      BY <2>4
    <3>2. startHere' \in 0..p
      BY <1>3, <2>6
    <3>3. pc' = pc /\ budget' = budget /\ reading' = reading /\ export' = export
      BY <2>1
    <3>4. queue' = {}
      BY <2>9 DEF Untouched
    <3> QED BY <1>1, <1>3, <2>1, <2>7, <3>1, <3>2, <3>3, <3>4 DEF TypeOK, reading
  <2> QED BY <1>1, <2>1, <2>8, <2>9, <2>10 DEF IInv, InspectEntry
<1> QED BY <1>5, <1>6

LEMMA Definitions ==
  /\ Len(ListDefinitions) \in Nat \ {0}
  /\ DOMAIN ListDefinitions = 1..Len(ListDefinitions)
  /\ \A k : k \in Kinds <=> \E j \in 1..Len(ListDefinitions) : k = ListDefinitions[j]
  /\ \A j \in 1..Len(ListDefinitions) : ListDefinitions[j] \in Kinds
<1>1. /\ Len(ListDefinitions) \in Nat \ {0}
      /\ DOMAIN ListDefinitions = 1..Len(ListDefinitions)
  BY ListDefinitionsAssumption
<1> QED BY <1>1 DEF Kinds

\* When the walk is over, the parts found are the parts there are.
LEMMA WalkFindsParts ==
  ASSUME IInv, Walked, inspected = Len(file.entries), NEW k \in Kinds
  PROVE  parts[k] = PartsOf(k) /\ PartsOf(k) \subseteq 1..inspected
<1>1. DOMAIN file.entries = 1..inspected
  BY EntriesAreTyped DEF IInv, Walked
<1> QED BY <1>1 DEF Walked, PartsOf

\* A list is started with nothing of it read.
LEMMA ListStarts ==
  ASSUME IInv, Walked, inspected = Len(file.entries), NEW k \in DOMAIN ListDefinitions,
         StartList(k), UNCHANGED <<file, walk>>
  PROVE  /\ kind' = k /\ queue' = PartsOf(ListDefinitions[k])
         /\ queue' \subseteq 1..inspected
         /\ queue' \subseteq PartsOf(Here)' /\ ReadHere' = {}
         /\ ReadParts' = UNION {PartsOf(ListDefinitions[j]) : j \in 1..(k - 1)}
         /\ members' = <<>> /\ IsMerge(members, ReadHere)'
         /\ parsedAny' = FALSE /\ Walked'
<1>1. kind' = k /\ members' = <<>> /\ parsedAny' = FALSE
  BY DEF StartList
<1>2. queue' = PartsOf(ListDefinitions[k]) /\ queue' \subseteq 1..inspected
  BY Definitions, WalkFindsParts DEF StartList
<1>3. \A h : PartsOf(h)' = PartsOf(h)
  BY FileStays
<1>4. PartsOf(Here)' = PartsOf(ListDefinitions[k])
  BY <1>1, <1>3 DEF Here
<1>5. ReadHere' = {}
  BY <1>2, <1>4 DEF ReadHere
<1>6. ReadParts' = UNION {PartsOf(ListDefinitions[j]) : j \in 1..(k - 1)}
  BY <1>1, <1>3, <1>5 DEF ReadParts
<1>7. IsMerge(members, ReadHere)'
  BY <1>1, <1>5, NothingIsMerged, FileStays
<1>8. Walked'
  BY FileStays DEF Walked, walk
<1> QED BY <1>1, <1>2, <1>4, <1>5, <1>6, <1>7, <1>8

LEMMA InspectedKeeps == IInv /\ Inspected => IInv'
<1> SUFFICES ASSUME IInv, Inspected PROVE IInv'
  OBVIOUS
<1>1. Walked /\ Untouched /\ TypeOK /\ file \in Files /\ inspected = Len(file.entries)
  BY DEF Inspected, IInv
<1>2. pc' = "read" /\ StartList(1) /\ UNCHANGED <<file, walk, budget, export>>
  BY DEF Inspected
<1>3. 1 \in DOMAIN ListDefinitions
  BY Definitions
<1>4. /\ kind' = 1 /\ queue' = PartsOf(ListDefinitions[1])
      /\ queue' \subseteq 1..inspected
      /\ queue' \subseteq PartsOf(Here)' /\ ReadHere' = {}
      /\ ReadParts' = UNION {PartsOf(ListDefinitions[j]) : j \in 1..(1 - 1)}
      /\ members' = <<>> /\ IsMerge(members, ReadHere)'
      /\ parsedAny' = FALSE /\ Walked'
  BY <1>1, <1>2, <1>3, ListStarts
<1>5. ReadParts' = {}
  BY <1>4
<1>6. Afforded(ReadParts, budget)'
  BY <1>1, <1>2, <1>5, NothingCosts, FileStays DEF Untouched
<1>7. HoldsLists(export.lists, kind - 1)'
  <2>1. HoldsLists(export.lists, 0)
    BY <1>1 DEF HoldsLists, Untouched, NoExport
  <2> QED BY <1>2, <1>4, <2>1, FileStays
<1>8. Reading'
  BY <1>1, <1>2, <1>3, <1>4, <1>6, <1>7 DEF Reading, walk, Untouched
<1>9. TypeOK'
  <2>1. Named(members)' = {}
    BY <1>4 DEF Named
  <2> QED BY <1>1, <1>2, <1>3, <1>4, <2>1 DEF TypeOK, walk
<1> QED BY <1>1, <1>2, <1>4, <1>8, <1>9 DEF IInv

LEMMA ReadPartKeeps == ASSUME IInv, NEW p \in queue, ReadPart(p) PROVE IInv'
<1>1. Walked /\ Reading /\ TypeOK /\ file \in Files /\ pc = "read"
  BY DEF ReadPart, IInv
<1>2. \A q \in queue : Entry(p).rank <= Entry(q).rank
  BY DEF ReadPart
<1>3. Archive /\ Here \in Kinds /\ kind \in 1..Len(ListDefinitions)
  BY <1>1, Definitions DEF Walked, Reading, Here
<1>4. p \in PartsOf(Here) /\ p \notin ReadHere
  BY <1>1 DEF Reading, ReadHere
<1>5. ReadParts \cup {p} \subseteq AllParts
  <2>1. \A j \in 1..(kind - 1) : ListDefinitions[j] \in Kinds
    BY <1>3, Definitions
  <2> QED BY <1>3, <1>4, <2>1 DEF AllParts, ReadParts, ReadHere
<1>6. p \notin ReadParts
  <2>1. ASSUME NEW j \in 1..(kind - 1) PROVE p \notin PartsOf(ListDefinitions[j])
    <3>1. j \in DOMAIN ListDefinitions /\ kind \in DOMAIN ListDefinitions /\ j # kind
      BY <1>3, Definitions
    <3>2. ListDefinitions[j] # Here
      BY <3>1, ListDefinitionsAssumption DEF Here
    <3> QED BY <1>4, <3>2 DEF PartsOf
  <2> QED BY <1>4, <2>1 DEF ReadParts
<1>7. /\ Total(Sizes, ReadParts \cup {p}) = Total(Sizes, ReadParts) + Entry(p).size
      /\ Total(Sizes, ReadParts) \in Nat /\ Entry(p).size \in Nat /\ Expanded \in Nat
      /\ Total(Sizes, ReadParts \cup {p}) <= Expanded
  BY <1>1, <1>3, <1>5, <1>6, PartCostsItsSize
<1>8. /\ budget \in Nat /\ budget = MaxDecompressedBytes - Total(Sizes, ReadParts)
      /\ \A q \in ReadParts : Entry(q).intact
  BY <1>1 DEF Reading, Afforded
<1>9. CASE ~Readable(Entry(p), budget)
  <2>1. Refused
    BY <1>9 DEF ReadPart
  <2>2. HasReason
    <3>1. CASE ~Entry(p).intact
      BY <1>5, <3>1 DEF HasReason
    <3>2. CASE ~(budget > 0) \/ ~(Entry(p).size <= budget)
      <4>1. Expanded >= MaxDecompressedBytes
        BY <1>7, <1>8, <3>2, LimitsAssumption
      <4> QED BY <4>1 DEF HasReason
    <3> QED BY <1>9, <3>1, <3>2 DEF Readable
  <2> QED BY <2>1, <2>2, RefusalKeeps
<1>10. CASE Readable(Entry(p), budget)
  <2>1. /\ budget' = budget - Entry(p).size
        /\ queue' = queue \ {p}
        /\ members' = members \o Content(p).members
        /\ parsedAny' = (parsedAny \/ Content(p).recognised)
        /\ UNCHANGED <<file, pc, walk, kind, export>>
    BY <1>10 DEF ReadPart, Content
  <2>2. \A h : PartsOf(h)' = PartsOf(h)
    BY <2>1, FileStays
  <2>3. PartsOf(Here)' = PartsOf(Here) /\ ReadHere' = ReadHere \cup {p}
    BY <1>1, <1>4, <2>1, <2>2 DEF Here, ReadHere
  <2>4. ReadParts' = ReadParts \cup {p}
    <3>1. ReadParts' = ReadHere'
                         \cup UNION {PartsOf(ListDefinitions[j]) : j \in 1..(kind - 1)}
      BY <2>1, <2>2 DEF ReadParts
    <3> QED BY <2>3, <3>1 DEF ReadParts
  <2>5. AreParts(PartsOf(Here))
    BY <1>1, <1>3, PartsAreParts
  <2>6. IsMerge(members, ReadHere)'
    <3>1. AreParts(ReadHere \cup {p})
      BY <1>4, <2>5 DEF AreParts, ReadHere
    <3>2. \A q \in ReadHere : Entry(q).rank <= Entry(p).rank
      BY <1>1 DEF Reading
    <3>3. IsMerge(members \o Content(p).members, ReadHere \cup {p})
      <4>1. PICK P : P = ReadHere
        OBVIOUS
      <4>2. p \notin P /\ AreParts(P \cup {p}) /\ IsMerge(members, P)
            /\ \A q \in P : Entry(q).rank <= Entry(p).rank
        BY <1>1, <1>4, <3>1, <3>2, <4>1 DEF Reading
      <4>3. IsMerge(members \o Content(p).members, P \cup {p})
        BY <4>2, MergeGoesOn
      <4> QED BY <4>1, <4>3
    <3> QED BY <2>1, <2>3, <3>3, FileStays
  <2>7. \A r \in ReadHere' : \A q \in queue' : Entry(r)'.rank <= Entry(q)'.rank
    <3>1. \A q : Entry(q)' = Entry(q)
      BY <2>1, FileStays
    <3> QED BY <1>1, <1>2, <2>1, <2>3, <3>1 DEF Reading
  <2>8. parsedAny' = (\E q \in ReadHere' : Content(q)'.recognised)
    <3>1. \A q : Content(q)' = Content(q)
      BY <2>1, FileStays
    <3>2. Content(p).recognised \in BOOLEAN
      BY <1>4, <2>5, DocumentIsTyped DEF AreParts, Content
    <3>3. parsedAny = (\E q \in ReadHere : Content(q).recognised)
      BY <1>1 DEF Reading
    <3>4. parsedAny' = (\E q \in ReadHere \cup {p} : Content(q).recognised)
      BY <2>1, <3>2, <3>3
    <3> QED BY <2>3, <3>1, <3>4
  <2>9. Afforded(ReadParts, budget)'
    <3>1. Afforded(ReadParts \cup {p}, budget - Entry(p).size)
      BY <1>7, <1>8, <1>10, LimitsAssumption DEF Afforded, Readable
    <3> QED BY <2>1, <2>4, <3>1, FileStays
  <2>10. HoldsLists(export.lists, kind - 1)'
    BY <1>1, <2>1, FileStays DEF Reading
  <2>11. Walked'
    BY <1>1, <2>1, FileStays DEF Walked, walk
  <2>12. Reading'
    <3>1. inspected' = Len(file'.entries) /\ kind' \in DOMAIN ListDefinitions
      BY <1>1, <2>1 DEF Reading, walk
    <3>2. queue' \subseteq PartsOf(Here)' /\ DOMAIN export' = DOMAIN NoExport
      BY <1>1, <2>1, <2>3 DEF Reading
    <3> QED BY <2>6, <2>7, <2>8, <2>9, <2>10, <3>1, <3>2 DEF Reading
  <2>13. TypeOK'
    <3>1. budget' \in 0..MaxDecompressedBytes
      BY <1>7, <1>8, <1>10, <2>1, LimitsAssumption DEF Readable
    <3>2. Named(members)' \subseteq Users
      <4>1. \A j \in DOMAIN members' : members'[j] \in FollowerRecords
        BY <2>6 DEF IsMerge
      <4>2. \A j \in DOMAIN members' : members'[j].user \in Users
        BY <4>1 DEF FollowerRecords
      <4> QED BY <4>2 DEF Named
    <3>3. parsedAny' \in BOOLEAN
      BY <2>8
    <3> QED BY <1>1, <2>1, <3>1, <3>2, <3>3 DEF TypeOK, walk
  <2> QED BY <1>1, <2>1, <2>11, <2>12, <2>13 DEF IInv
<1> QED BY <1>9, <1>10

LEMMA ListsAreTyped ==
  ASSUME NEW lists, NEW n, HoldsLists(lists, n)
  PROVE  /\ DOMAIN lists \subseteq Kinds
         /\ \A k \in DOMAIN lists : DOMAIN lists[k] \subseteq Users
BY DEF HoldsLists, IsTheList

\* With the last of its parts a list is complete.
LEMMA ListsReadHold ==
  ASSUME IInv, Walked, Reading, queue = {}
  PROVE  HoldsLists(ListsRead, kind)
<1>1. kind \in 1..Len(ListDefinitions) /\ Here \in Kinds
  BY Definitions DEF Reading, Here
<1>2. Archive /\ file \in Files /\ ReadHere = PartsOf(Here)
  BY DEF IInv, Walked, ReadHere
<1>3. PICK list : list = Dedupe(members)
  OBVIOUS
<1>4. IsTheList(Here, list)
  BY <1>1, <1>2, <1>3, PartsAreParts, DedupeIsTheList DEF Reading
<1>5. parsedAny <=> Lists(Here) # {}
  BY <1>2 DEF Reading, Lists, Content
<1>6. ListsRead = IF parsedAny
                    THEN [k \in DOMAIN export.lists \cup {Here} |->
                            IF k = Here THEN list ELSE export.lists[k]]
                    ELSE export.lists
  BY <1>3 DEF ListsRead, Here
<1>7. /\ DOMAIN export.lists = {k \in Kinds : /\ \E j \in 1..(kind - 1) : k = ListDefinitions[j]
                                              /\ Lists(k) # {}}
      /\ \A k \in DOMAIN export.lists : IsTheList(k, export.lists[k])
  BY DEF Reading, HoldsLists
<1>8. \A k : (\E j \in 1..kind : k = ListDefinitions[j]) <=>
               k = Here \/ \E j \in 1..(kind - 1) : k = ListDefinitions[j]
  <2>1. \A j : j \in 1..kind <=> j = kind \/ j \in 1..(kind - 1)
    BY <1>1, Definitions
  <2> QED BY <2>1 DEF Here
<1>9. CASE parsedAny
  BY <1>1, <1>4, <1>5, <1>6, <1>7, <1>8, <1>9 DEF HoldsLists
<1>10. CASE ~parsedAny
  BY <1>1, <1>5, <1>6, <1>7, <1>8, <1>10 DEF HoldsLists
<1> QED BY <1>9, <1>10

LEMMA RecordKeeps == IInv /\ RecordList => IInv'
<1> SUFFICES ASSUME IInv, RecordList PROVE IInv'
  OBVIOUS
<1>1. Walked /\ Reading /\ TypeOK /\ file \in Files /\ pc = "read" /\ queue = {}
  BY DEF RecordList, IInv
<1>2. PICK k : k = kind + 1
  OBVIOUS
<1>3. k \in DOMAIN ListDefinitions /\ kind \in Nat /\ k - 1 = kind
  BY <1>1, <1>2, Definitions DEF RecordList, Reading
<1>4. /\ export' = [export EXCEPT !.lists = ListsRead]
      /\ StartList(k) /\ UNCHANGED <<file, pc, walk, budget>>
  BY <1>2 DEF RecordList
<1>5. inspected = Len(file.entries)
  BY <1>1 DEF Reading
<1>6. /\ kind' = k /\ queue' = PartsOf(ListDefinitions[k])
      /\ queue' \subseteq 1..inspected
      /\ queue' \subseteq PartsOf(Here)' /\ ReadHere' = {}
      /\ ReadParts' = UNION {PartsOf(ListDefinitions[j]) : j \in 1..(k - 1)}
      /\ members' = <<>> /\ IsMerge(members, ReadHere)'
      /\ parsedAny' = FALSE /\ Walked'
  BY <1>1, <1>3, <1>4, <1>5, ListStarts
<1>7. ReadParts' = ReadParts
  <2>1. \A j : j \in 1..kind <=> j = kind \/ j \in 1..(kind - 1)
    BY <1>1, Definitions DEF Reading
  <2>2. ReadParts = PartsOf(Here) \cup UNION {PartsOf(ListDefinitions[j]) : j \in 1..(kind - 1)}
    BY <1>1 DEF ReadParts, ReadHere
  <2>3. \A q : q \in ReadParts <=> \E j \in 1..kind : q \in PartsOf(ListDefinitions[j])
    BY <2>1, <2>2 DEF Here
  <2> QED BY <1>3, <1>6, <2>3
<1>8. Afforded(ReadParts, budget)'
  BY <1>1, <1>4, <1>7, FileStays DEF Reading
<1>9. export'.lists = ListsRead /\ DOMAIN export' = DOMAIN NoExport
  BY <1>1, <1>4 DEF Reading, NoExport
<1>10. HoldsLists(ListsRead, kind)
  BY <1>1, ListsReadHold
<1>11. HoldsLists(export.lists, kind - 1)'
  BY <1>3, <1>4, <1>6, <1>9, <1>10, FileStays
<1>12. Reading'
  BY <1>3, <1>4, <1>5, <1>6, <1>8, <1>9, <1>11 DEF Reading, walk
<1>13. TypeOK'
  <2>1. Named(members)' = {}
    BY <1>6 DEF Named
  <2>2. /\ DOMAIN export'.lists \subseteq Kinds
        /\ \A h \in DOMAIN export'.lists : DOMAIN export'.lists[h] \subseteq Users
    BY <1>9, <1>10, ListsAreTyped
  <2> QED BY <1>1, <1>3, <1>4, <1>6, <2>1, <2>2 DEF TypeOK, walk
<1> QED BY <1>1, <1>4, <1>6, <1>12, <1>13 DEF IInv

\* Nobody is on the follower list exactly if nobody is mentioned in its parts.
LEMMA MissingMeansNobody ==
  ASSUME NEW lists, HoldsLists(lists, Len(ListDefinitions))
  PROVE  FollowersMissing(lists) <=> \A u \in Users : Mentions("followers", u) = {}
<1>1. "followers" \in Kinds /\ \E j \in 1..Len(ListDefinitions) : "followers" = ListDefinitions[j]
  BY ListDefinitionsAssumption, Definitions
<1>2. "followers" \in DOMAIN lists <=> Lists("followers") # {}
  BY <1>1 DEF HoldsLists
<1>3. CASE "followers" \in DOMAIN lists
  <2>1. DOMAIN lists["followers"] = {u \in Users : Mentions("followers", u) # {}}
    BY <1>3 DEF HoldsLists, IsTheList
  <2> QED BY <1>3, <2>1 DEF FollowersMissing
<1>4. CASE "followers" \notin DOMAIN lists
  <2>1. \A u : Mentions("followers", u) = {}
    BY <1>2, <1>4 DEF Mentions
  <2> QED BY <1>4, <2>1 DEF FollowersMissing
<1> QED BY <1>3, <1>4

LEMMA FinishKeeps == IInv /\ Finish => IInv'
<1> SUFFICES ASSUME IInv, Finish PROVE IInv'
  OBVIOUS
<1>1. /\ Walked /\ Reading /\ TypeOK /\ file \in Files
      /\ queue = {} /\ kind = Len(ListDefinitions)
  BY DEF Finish, IInv
<1>2. HoldsLists(ListsRead, Len(ListDefinitions))
  BY <1>1, ListsReadHold
<1>3. CASE FollowersMissing(ListsRead)
  <2>1. HasReason
    BY <1>2, <1>3, MissingMeansNobody DEF HasReason
  <2>2. Refused
    BY <1>3 DEF Finish
  <2> QED BY <2>1, <2>2, RefusalKeeps
<1>4. CASE ~FollowersMissing(ListsRead)
  <2>1. /\ pc' = "accepted"
        /\ export' = [lists |-> ListsRead, partial |-> Partial(Page),
                      takenAt |-> TakenAt(Page), owner |-> Page.owner]
        /\ UNCHANGED <<file, walk, budget, reading>>
    BY <1>4 DEF Finish
  <2>2. ReadParts = AllParts
    <3>1. \A j : j \in 1..kind <=> j = kind \/ j \in 1..(kind - 1)
      BY <1>1, Definitions
    <3>2. ReadParts = PartsOf(Here) \cup UNION {PartsOf(ListDefinitions[j]) : j \in 1..(kind - 1)}
      BY <1>1 DEF ReadParts, ReadHere
    <3>3. \A q : q \in ReadParts <=> \E j \in 1..kind : q \in PartsOf(ListDefinitions[j])
      BY <3>1, <3>2 DEF Here
    <3>4. \A q : q \in AllParts <=> \E j \in 1..kind : q \in PartsOf(ListDefinitions[j])
      BY <1>1, Definitions DEF AllParts
    <3> QED BY <3>3, <3>4
  <2>3. Afforded(AllParts, budget)'
    <3>1. Afforded(AllParts, budget)
      BY <1>1, <2>2 DEF Reading
    <3> QED BY <2>1, <3>1, FileStays
  <2>4. HoldsLists(export.lists, Len(ListDefinitions))'
    BY <1>2, <2>1, FileStays
  <2>5. Page' = Page
    BY <2>1, FileStays DEF Page, walk
  <2>6. TakenAt(Page)' = TakenAt(Page)
    BY <2>1, <2>5 DEF TakenAt, walk
  <2>7. Partial(Page)' = Partial(Page)
    BY <2>5 DEF Partial
  <2>8. Complete'
    <3>1. ~FollowersMissing(export.lists)'
      BY <1>4, <2>1 DEF FollowersMissing
    <3>2. export'.partial = Partial(Page) /\ export'.takenAt = TakenAt(Page)
          /\ export'.owner = Page.owner
      BY <2>1
    <3>3. inspected' = Len(file'.entries)
      BY <1>1, <2>1 DEF Reading, walk
    <3> QED BY <2>3, <2>4, <2>5, <2>6, <2>7, <3>1, <3>2, <3>3 DEF Complete
  <2>9. Walked'
    BY <1>1, <2>1, FileStays DEF Walked, walk
  <2>10. TypeOK'
    <3>1. /\ DOMAIN export'.lists \subseteq Kinds
          /\ \A h \in DOMAIN export'.lists : DOMAIN export'.lists[h] \subseteq Users
      BY <1>2, <2>1, ListsAreTyped
    <3> QED BY <1>1, <2>1, <3>1 DEF TypeOK, walk, reading
  <2> QED BY <1>1, <2>1, <2>8, <2>9, <2>10, FileStays DEF IInv, Walked
<1> QED BY <1>3, <1>4

LEMMA ExportNext == IInv /\ [Next]_vars => IInv'
<1> SUFFICES ASSUME IInv, [Next]_vars PROVE IInv'
  OBVIOUS
<1>1. CASE RefuseEmpty
  <2>1. Refused /\ ~Archive
    BY <1>1 DEF RefuseEmpty, Archive
  <2> QED BY <2>1, RefusalKeeps
<1>2. CASE ParseBare
  BY <1>2, BareKeeps
<1>3. CASE OpenArchive
  BY <1>3, OpenKeeps
<1>4. CASE InspectEntry
  BY <1>4, InspectKeeps
<1>5. CASE Inspected
  BY <1>5, InspectedKeeps
<1>6. CASE \E p \in queue : ReadPart(p)
  BY <1>6, ReadPartKeeps
<1>7. CASE RecordList
  BY <1>7, RecordKeeps
<1>8. CASE Finish
  BY <1>8, FinishKeeps
<1>9. CASE UNCHANGED vars
  <2>1. UNCHANGED <<file, pc, walk, budget, reading, export>>
    BY <1>9 DEF vars
  <2>2. TypeOK'
    BY <2>1 DEF IInv, TypeOK, walk, reading
  <2>3. Walked => Walked'
    BY <2>1, FileStays DEF Walked, walk
  <2>4. Untouched => Untouched'
    BY <2>1 DEF Untouched, reading
  <2>5. NotWalked => NotWalked'
    BY <2>1 DEF NotWalked, walk
  <2>6. Reading => Reading'
    <3> SUFFICES ASSUME Reading PROVE Reading'
      OBVIOUS
    <3>1. Here' = Here /\ ReadHere' = ReadHere /\ ReadParts' = ReadParts
      BY <2>1, FileStays DEF Here, ReadHere, ReadParts, reading
    <3>2. IsMerge(members, ReadHere)'
      BY <2>1, <3>1, FileStays DEF Reading, reading
    <3>3. Afforded(ReadParts, budget)'
      BY <2>1, <3>1, FileStays DEF Reading
    <3>4. HoldsLists(export.lists, kind - 1)'
      BY <2>1, FileStays DEF Reading, reading
    <3> QED BY <2>1, <3>1, <3>2, <3>3, <3>4, FileStays DEF Reading, walk, reading
  <2>7. Complete => Complete'
    <3> SUFFICES ASSUME Complete PROVE Complete'
      OBVIOUS
    <3>1. Page' = Page /\ TakenAt(Page)' = TakenAt(Page) /\ Partial(Page)' = Partial(Page)
      BY <2>1, FileStays DEF Page, TakenAt, Partial, walk
    <3>2. Afforded(AllParts, budget)'
      BY <2>1, FileStays DEF Complete
    <3>3. HoldsLists(export.lists, Len(ListDefinitions))'
      BY <2>1, FileStays DEF Complete
    <3> QED BY <2>1, <3>1, <3>2, <3>3 DEF Complete, FollowersMissing, walk
  <2>8. ~FollowersMissing(export.lists) => ~FollowersMissing(export.lists)'
    BY <2>1 DEF FollowersMissing
  <2> QED BY <2>1, <2>2, <2>3, <2>4, <2>5, <2>6, <2>7, <2>8, FileStays DEF IInv
<1> QED BY <1>1, <1>2, <1>3, <1>4, <1>5, <1>6, <1>7, <1>8, <1>9 DEF Next

LEMMA ExportInvariant == Spec => []IInv
BY ExportInit, ExportNext, PTL DEF Spec

-----------------------------------------------------------------------------
(* What a result means *)

\* The walk and the reading stay within the file, the budget and the lists.
THEOREM TypesOfTheParse == Spec => []TypeOK
BY ExportInvariant, PTL DEF IInv

\* A file of any shape that is accepted carries a follower list with somebody
\* on it: an export without one never reaches the history.
THEOREM AcceptedIsUsable == Spec => []AcceptedHasFollowers
<1>1. IInv => AcceptedHasFollowers
  <2> SUFFICES ASSUME IInv, Accepted PROVE ~FollowersMissing(export.lists)
    BY DEF AcceptedHasFollowers, FollowersMissing
  <2> QED BY DEF IInv, Accepted, Complete
<1> QED BY <1>1, ExportInvariant, PTL

\* For an archive of any number of parts, in any order and of any shape, the
\* lists accepted are exactly what the parts say.
THEOREM ListsAreComplete == Spec => []ListsAreTheirParts
<1>1. IInv => ListsAreTheirParts
  <2> SUFFICES ASSUME IInv, Accepted, Archive PROVE ListsAreTheirParts
    BY DEF ListsAreTheirParts
  <2>1. HoldsLists(export.lists, Len(ListDefinitions))
    BY DEF IInv, Accepted, Complete
  <2>2. DOMAIN export.lists = {k \in Kinds : Lists(k) # {}}
    BY <2>1, Definitions DEF HoldsLists
  <2>3. \A k \in DOMAIN export.lists : IsTheList(k, export.lists[k])
    BY <2>1 DEF HoldsLists
  <2> QED BY <2>2, <2>3 DEF ListsAreTheirParts, IsTheList
<1> QED BY <1>1, ExportInvariant, PTL

\* Damage, too many entries, a spent limit and an empty follower list are the
\* only reasons to refuse an archive, whatever the limits are.
THEOREM RefusalIsJustified == Spec => []RefusedForAReason
<1>1. IInv => RefusedForAReason
  <2> SUFFICES ASSUME IInv, Archive PROVE RefusedForAReason
    BY DEF RefusedForAReason
  <2>1. ASSUME pc = "refused" PROVE HasReason
    BY <2>1 DEF IInv
  <2>2. ASSUME Accepted
        PROVE  /\ file.intact /\ \A p \in AllParts : Entry(p).intact
               /\ ~(Len(file.entries) > MaxArchiveEntries)
               /\ ~ \A u \in Users : Mentions("followers", u) = {}
               /\ Expanded <= MaxDecompressedBytes
    <3>1. Walked /\ Complete /\ file \in Files
      BY <2>2 DEF IInv, Accepted
    <3>2. Len(file.entries) <= MaxArchiveEntries /\ Len(file.entries) \in Nat
      BY <3>1, EntriesAreTyped DEF Walked, Complete
    <3>3. ~ \A u \in Users : Mentions("followers", u) = {}
      BY <3>1, MissingMeansNobody DEF Complete
    <3>4. Expanded \in Nat /\ Expanded = Total(Sizes, AllParts)
      <4>1. PICK S, g : S = AllParts /\ g = Sizes
        OBVIOUS
      <4>2. IsFiniteSet(S) /\ Expanded = Total(g, S) /\ \A q \in S : g[q] \in Nat
        BY <3>1, <4>1, SizesAreTotals
      <4> QED BY <4>1, <4>2, TotalTyped
    <3>5. Expanded <= MaxDecompressedBytes
      BY <3>1, <3>4, LimitsAssumption DEF Complete, Afforded
    <3> QED BY <3>1, <3>2, <3>3, <3>5, LimitsAssumption DEF Walked, Complete, Afforded
  <2> QED BY <2>1, <2>2 DEF RefusedForAReason, HasReason
<1> QED BY <1>1, ExportInvariant, PTL

\* The one summary page that there is room for is the one the walk has kept.
LEMMA TheSummaryIsRead ==
  ASSUME IInv, Accepted, Archive, NEW p, TheSummary(p)
  PROVE  /\ p \in DOMAIN file.entries /\ Page = Entry(p).content
         /\ Page \in Pages
<1>1. Walked /\ Complete /\ file \in Files
  BY DEF IInv, Accepted
<1>2. DOMAIN file.entries = 1..inspected /\ inspected \in Nat
  BY <1>1, EntriesAreTyped DEF Walked, Complete
<1>3. \A q : q \in Summaries(file) <=> q \in 1..inspected /\ Entry(q).name = "start_here"
  BY <1>2 DEF Summaries, Entry
<1>4. p \in 1..inspected /\ Entry(p).name = "start_here"
  BY <1>3 DEF TheSummary
<1>5. startHere = p
  <2>1. startHere # 0
    BY <1>1, <1>4 DEF Walked
  <2>2. startHere \in Summaries(file)
    BY <1>1, <1>3, <2>1 DEF Walked
  <2> QED BY <2>2 DEF TheSummary
<1>6. budget = MaxDecompressedBytes - Expanded
  BY <1>1, SizesAreTotals DEF Complete, Afforded
<1>7. Readable(Entry(p), budget)
  BY <1>6 DEF TheSummary
<1>8. Page = Entry(p).content
  BY <1>4, <1>5, <1>7 DEF Page
<1> QED BY <1>1, <1>2, <1>4, <1>8, EntriesAreTyped

\* A declared window of up to the bound, and nothing else, makes an export
\* partial.
THEOREM WindowIsRecognised == Spec => []NarrowWindowIsRecognised
<1>1. IInv => NarrowWindowIsRecognised
  <2> SUFFICES ASSUME IInv, Accepted, Archive,
                      NEW p \in DOMAIN file.entries, TheSummary(p),
                      NEW page, page = Entry(p).content
               PROVE  export.partial <=>
                        /\ NoDate \notin {page.from, page.to}
                        /\ page.to - page.from \in 1..NarrowWindowDays
    BY DEF NarrowWindowIsRecognised
  <2>1. page = Page /\ page \in Pages /\ export.partial = Partial(page)
    BY TheSummaryIsRead DEF IInv, Accepted, Complete
  <2>2. page.from \in Nat /\ page.to \in Nat
    BY <2>1 DEF Pages
  <2> QED BY <2>1, <2>2, LimitsAssumption DEF Partial
<1> QED BY <1>1, ExportInvariant, PTL

\* An archive is dated by its summary page, else by the newest file in it; the
\* date is never missing.
THEOREM DateIsEvidence == Spec => []DatedByEvidence
<1>1. IInv => DatedByEvidence
  <2> DEFINE stated == {p \in Summaries(file) : Entry(p).content.generated # NoDate}
             inside == {Modified(Entry(p)) : p \in {q \in DOMAIN file.entries :
                                                      Entry(q).name # "directory"}}
             one    == \E p \in stated : TheSummary(p)
  <2> SUFFICES ASSUME IInv, Accepted, Archive
               PROVE  \/ \E p \in stated : export.takenAt = Entry(p).content.generated
                      \/ /\ ~one
                         /\ export.takenAt \in inside
                         /\ \A t \in inside : t <= export.takenAt
    BY DEF DatedByEvidence
  <2>1. Walked /\ Complete /\ file \in Files
    BY DEF IInv, Accepted
  <2>2. /\ DOMAIN file.entries = 1..inspected /\ inspected \in Nat
        /\ export.takenAt = IF Page.generated # NoDate THEN Page.generated ELSE newest
    BY <2>1, EntriesAreTyped DEF Walked, Complete, TakenAt
  <2>3. CASE Page.generated # NoDate
    <3>1. Page # NoPage
      BY <2>3 DEF NoPage
    <3>2. startHere # 0 /\ Page = Entry(startHere).content
      BY <3>1 DEF Page
    <3>3. startHere \in stated
      BY <2>1, <2>2, <2>3, <3>2 DEF Walked, Summaries, Entry
    <3> QED BY <2>2, <2>3, <3>2, <3>3
  <2>4. CASE Page.generated = NoDate
    <3>1. ~one
      <4> SUFFICES ASSUME NEW p \in stated, TheSummary(p) PROVE FALSE
        OBVIOUS
      <4>1. Page = Entry(p).content
        BY TheSummaryIsRead
      <4> QED BY <2>4, <4>1
    <3>2. PICK q \in 1..inspected : Entry(q).name # "directory"
      <4>1. PICK u \in Users : Mentions("followers", u) # {}
        BY <2>1, MissingMeansNobody DEF Complete
      <4>2. PICK q \in PartsOf("followers") : TRUE
        BY <4>1 DEF Mentions, Lists
      <4>3. q \in 1..inspected /\ Entry(q).name = "followers"
        BY <2>2, <4>2 DEF PartsOf
      <4> QED BY <4>3
    <3>3. Modified(Entry(q)) \in Nat \ {NoDate}
      BY <2>1, <2>2, EntriesAreTyped, LimitsAssumption DEF Modified, Walked
    <3>4. newest # NoDate /\ newest \in Nat
      BY <2>1, <3>2, <3>3 DEF Walked, NoDate
    <3>5. newest \in inside /\ \A t \in inside : t <= newest
      BY <2>1, <2>2, <3>4 DEF Walked
    <3> QED BY <2>2, <2>4, <3>1, <3>5
  <2> QED BY <2>3, <2>4
<1> QED BY <1>1, ExportInvariant, PTL

\* Intake and the parse read the same page and name the same account, however
\* many bytes the lists have taken.
THEOREM OwnersAgree == Spec => []OwnerAgrees
<1>1. IInv => OwnerAgrees
  <2> SUFFICES ASSUME IInv, Accepted, Archive,
                      NEW p \in DOMAIN file.entries, TheSummary(p)
               PROVE  export.owner = OwnerFromArchive(file)
    BY DEF OwnerAgrees
  <2>1. Walked /\ Complete /\ file \in Files
    BY DEF IInv, Accepted
  <2>2. export.owner = Entry(p).content.owner
    BY <2>1, TheSummaryIsRead DEF Complete
  <2>3. Summaries(file) = {p}
    BY DEF TheSummary
  <2>4. (CHOOSE q \in Summaries(file) : \A r \in Summaries(file) : q <= r) = p
    <3>1. p \in Nat
      BY <2>1, EntriesAreTyped DEF Walked
    <3>2. p <= p
      BY <3>1
    <3> QED BY <2>3, <3>2
  <2>5. p <= MaxArchiveEntries
    BY <2>1, EntriesAreTyped, LimitsAssumption DEF Walked, Complete
  <2>6. Readable(Entry(p), MaxJSONBytes)
    <3>1. Expanded \in Nat
      <4>1. PICK S, g : S = AllParts /\ g = Sizes
        OBVIOUS
      <4>2. IsFiniteSet(S) /\ Expanded = Total(g, S) /\ \A q \in S : g[q] \in Nat
        BY <2>1, <4>1, SizesAreTotals
      <4> QED BY <4>2, TotalTyped
    <3>2. Entry(p).size \in Nat
      BY <2>1, EntriesAreTyped
    <3> QED BY <3>1, <3>2, LimitsAssumption DEF TheSummary, Readable, MaxJSONBytes
  <2>7. file.form = "archive" /\ file.intact /\ Summaries(file) # {}
    BY <2>1, <2>3 DEF Archive, Walked
  <2>8. OwnerFromArchive(file) = file.entries[p].content.owner
    BY <2>3, <2>4, <2>5, <2>6, <2>7 DEF OwnerFromArchive, Entry
  <2> QED BY <2>2, <2>8 DEF Entry
<1> QED BY <1>1, ExportInvariant, PTL
=============================================================================
