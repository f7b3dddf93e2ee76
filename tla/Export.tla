------------------------------- MODULE Export -------------------------------
(***************************************************************************)
(* instagram.Parse: what an uploaded file is found to hold.  An archive is *)
(* walked entry by entry, the parts of each list are read in the order of  *)
(* their names out of one budget of decompressed bytes, and the summary    *)
(* page is read with what is left of it.  The result is what Tracker takes *)
(* as the field export of a request.                                       *)
(*                                                                         *)
(* A file is [form |-> "empty"], or                                        *)
(*   [form |-> "bare", size, content |-> document]                         *)
(*   [form |-> "archive", intact, entries |-> sequence of entries]         *)
(* An entry is [name, rank, time, size, intact, content]: name is the kind *)
(* its file name stands for, "start_here", "directory" or "other"; rank    *)
(* its place among the names in string order; time what the archive states *)
(* for it, or NoDate.  The content of start_here is a page                 *)
(*   [owner, generated, from, to]                                          *)
(* and that of the others a document, whose form is "array", "object",     *)
(* "html", "broken" (starts like JSON and is not) or "other".              *)
(***************************************************************************)
EXTENDS Executions, SequencesExt

CONSTANTS
  Users,
  ListDefinitions,        \* the list kinds, in the order they are read
  MaxArchiveEntries,
  MaxDecompressedBytes,
  NarrowWindowDays,
  DosEpoch,               \* what an entry without a time is dated
  Files                   \* the files that may be uploaded

NoDate == 0
Kinds  == {ListDefinitions[k] : k \in DOMAIN ListDefinitions}

ASSUME UsersAssumption == Nobody \notin Users
ASSUME ListDefinitionsAssumption ==
  /\ ListDefinitions \in Seq(STRING) /\ Len(ListDefinitions) > 0
  /\ ListDefinitions[1] = "followers"
  /\ \A j, k \in DOMAIN ListDefinitions : ListDefinitions[j] = ListDefinitions[k] => j = k
  /\ Kinds \cap {"start_here", "directory", "other"} = {}
ASSUME LimitsAssumption ==
  /\ MaxArchiveEntries \in Nat /\ MaxDecompressedBytes \in Nat
  /\ NarrowWindowDays \in Nat
  /\ DosEpoch \in Nat \ {NoDate}

\* What a file may hold: Nobody stands for a value without a name, and the
\* names of an object's keys differ.
Items == [value : Users \cup {Nobody}, link : Users \cup {Nobody}, stamp : Int]
Keys  == [relationships : BOOLEAN, rank : Int, isList : BOOLEAN, items : Seq(Items)]

Documents ==
       [form : {"array", "html"}, items : Seq(Items)]
  \cup [form : {"object"},
        keys : {keys \in SUBSET Keys :
                  /\ IsFiniteSet(keys)
                  /\ \A a, b \in keys : a.rank = b.rank => a = b}]
  \cup [form : {"broken", "other"}]

Pages   == [owner : Users \cup {Nobody}, generated : Nat, from : Nat, to : Nat]
Entries ==
       [name : {"start_here"}, rank : Int, time : Nat, size : Nat,
        intact : BOOLEAN, content : Pages]
  \cup [name : Kinds \cup {"directory", "other"}, rank : Int, time : Nat,
        size : Nat, intact : BOOLEAN, content : Documents]

ASSUME FilesAssumption ==
  Files \subseteq
         [form : {"empty"}]
    \cup [form : {"bare"}, size : Nat, content : Documents]
    \cup [form : {"archive"}, intact : BOOLEAN, entries : Seq(Entries)]

MaxJSONBytes == MaxDecompressedBytes

-----------------------------------------------------------------------------
(* One document *)

Unrecognised == [recognised |-> FALSE, members |-> <<>>]

Username(item) == IF item.value # Nobody THEN item.value ELSE item.link

Member(item) == [user  |-> Username(item),
                 stamp |-> IF item.stamp > 0 THEN item.stamp ELSE NoStamp]

\* Those of the items that name somebody.
Flatten(items) ==
  FoldLeft(LAMBDA out, item : IF Username(item) = Nobody THEN out
                              ELSE Append(out, Member(item)),
           <<>>, items)

\* The profile links of a page, which state no moment.
ParseHTMLExport(items) ==
  Flatten([j \in DOMAIN items |->
             [value |-> Nobody, link |-> items[j].link, stamp |-> NoStamp]])

\* The order in which the keys of an object are tried.
KeyPrecedes(a, b) ==
  IF a.relationships # b.relationships THEN a.relationships ELSE a.rank < b.rank

\* The first key that is the list: relationships_* even if it is empty, any
\* other only if it holds somebody.
ParseObject(keys) ==
  LET lists == {k \in keys : k.isList /\ (k.relationships \/ Flatten(k.items) # <<>>)}
      first == CHOOSE k \in lists : \A o \in lists \ {k} : KeyPrecedes(k, o)
  IN  IF lists = {} THEN Unrecognised
      ELSE [recognised |-> TRUE, members |-> Flatten(first.items)]

ParseDocument(doc) ==
  CASE doc.form = "array"  -> [recognised |-> TRUE, members |-> Flatten(doc.items)]
    [] doc.form = "html"   -> [recognised |-> TRUE, members |-> ParseHTMLExport(doc.items)]
    [] doc.form = "object" -> ParseObject(doc.keys)
    [] OTHER               -> Unrecognised

Named(members) == {members[j].user : j \in DOMAIN members}

\* Mutant: the first copy of a name is kept as it is.
Dedupe_KeepsFirst(members) ==
  [u \in Named(members) |->
     LET first == CHOOSE j \in DOMAIN members :
                    /\ members[j].user = u
                    /\ \A l \in DOMAIN members : members[l].user = u => j <= l
     IN  members[first].stamp]

\* Every name once, with the first moment any copy of it states.
Dedupe(members) ==
  [u \in Named(members) |->
     LET stated == {j \in DOMAIN members :
                      members[j].user = u /\ members[j].stamp # NoStamp}
     IN  IF stated = {} THEN NoStamp
         ELSE members[CHOOSE j \in stated : \A l \in stated : j <= l].stamp]

-----------------------------------------------------------------------------
(* The summary page *)

\* Mutant: exactly NarrowWindowDays counts as wide.
Partial_Strict(page) ==
  /\ page.from # NoDate /\ page.to # NoDate /\ page.to > page.from
  /\ page.to - page.from < NarrowWindowDays

\* coverageFromMetadata: the page declares a range no wider than the bound.
Partial(page) ==
  /\ page.from # NoDate /\ page.to # NoDate /\ page.to > page.from
  /\ page.to - page.from <= NarrowWindowDays

\* Mutant: the last entry read may be larger than what is left.
Readable_AnySize(entry, left) == left > 0 /\ entry.intact

\* readArchiveEntry succeeds with this much of the budget left.
Readable(entry, left) == left > 0 /\ entry.intact /\ entry.size <= left

\* What archive/zip reports as the modification time of an entry.
Modified(entry) == IF entry.time = NoDate THEN DosEpoch ELSE entry.time

Summaries(f) == {p \in DOMAIN f.entries : f.entries[p].name = "start_here"}

\* Mutant: the last entry that is allowed is not looked at.
OwnerFromArchive_OffByOne(f) ==
  IF f.form # "archive" \/ ~f.intact \/ Summaries(f) = {} THEN Nobody
  ELSE LET p == CHOOSE q \in Summaries(f) : \A r \in Summaries(f) : q <= r
       IN  IF p < MaxArchiveEntries /\ Readable(f.entries[p], MaxJSONBytes)
             THEN f.entries[p].content.owner ELSE Nobody

\* The account intake files the upload under: what the first summary page
\* among the entries looked at says.
OwnerFromArchive(f) ==
  IF f.form # "archive" \/ ~f.intact \/ Summaries(f) = {} THEN Nobody
  ELSE LET p == CHOOSE q \in Summaries(f) : \A r \in Summaries(f) : q <= r
       IN  IF p <= MaxArchiveEntries /\ Readable(f.entries[p], MaxJSONBytes)
             THEN f.entries[p].content.owner ELSE Nobody

-----------------------------------------------------------------------------

VARIABLES
  file,       \* what was uploaded
  pc,         \* "parse", "inspect", "read", then "accepted" or "refused"
  inspected,  \* entries looked at
  parts,      \* the entries found so far for each kind
  startHere,  \* the summary page found, 0 if none
  newest,     \* the newest modification time found
  budget,     \* decompressed bytes left
  kind,       \* the position in ListDefinitions of the list being read
  queue,      \* its parts not read yet
  members,    \* what they held so far, in order
  parsedAny,  \* whether one of them was recognised
  export      \* the result so far

walk    == <<inspected, parts, startHere, newest>>
reading == <<kind, queue, members, parsedAny>>
vars    == <<file, pc, walk, budget, reading, export>>

NoExport == [lists |-> [k \in {} |-> {}], partial |-> FALSE,
             takenAt |-> NoDate, owner |-> Nobody]

Entry(p) == file.entries[p]

TypeOK ==
  /\ pc \in {"parse", "inspect", "read", "accepted", "refused"}
  /\ inspected \in Nat /\ startHere \in 0..inspected /\ newest \in Nat
  /\ \A k \in Kinds : parts[k] \subseteq 1..inspected
  /\ budget \in 0..MaxDecompressedBytes
  /\ kind \in DOMAIN ListDefinitions /\ queue \subseteq 1..inspected
  /\ Named(members) \subseteq Users /\ parsedAny \in BOOLEAN
  /\ DOMAIN export.lists \subseteq Kinds
  /\ \A k \in DOMAIN export.lists : DOMAIN export.lists[k] \subseteq Users

Init ==
  /\ file \in Files
  /\ pc = "parse"
  /\ inspected = 0 /\ startHere = 0 /\ newest = NoDate
  /\ parts = [k \in Kinds |-> {}]
  /\ budget = MaxDecompressedBytes
  /\ kind = 1 /\ queue = {} /\ members = <<>> /\ parsedAny = FALSE
  /\ export = NoExport

Refused == pc' = "refused" /\ UNCHANGED <<file, walk, budget, reading, export>>

RefuseEmpty == pc = "parse" /\ file.form = "empty" /\ Refused

\* A bare file is the follower list, and one that holds nobody is a mistake.
ParseBare ==
  /\ pc = "parse" /\ file.form = "bare"
  /\ LET found == ParseDocument(file.content)
     IN  IF \/ file.size > MaxJSONBytes
            \/ ~found.recognised \/ found.members = <<>>
           THEN Refused
           ELSE /\ pc' = "accepted"
                /\ export' = [export EXCEPT
                     !.lists = [k \in {"followers"} |-> Dedupe(found.members)]]
                /\ UNCHANGED <<file, walk, budget, reading>>

OpenArchive ==
  /\ pc = "parse" /\ file.form = "archive"
  /\ IF file.intact
       THEN pc' = "inspect" /\ UNCHANGED <<file, walk, budget, reading, export>>
       ELSE Refused

\* The next entry of the archive; the last summary page found is kept.
InspectEntry ==
  /\ pc = "inspect" /\ inspected < Len(file.entries)
  /\ LET p == inspected + 1
         e == Entry(p)
     IN  IF p > MaxArchiveEntries THEN Refused
         ELSE /\ inspected' = p
              /\ newest' = IF e.name # "directory" /\ Modified(e) > newest
                             THEN Modified(e) ELSE newest
              /\ startHere' = IF e.name = "start_here" THEN p ELSE startHere
              /\ parts' = [k \in Kinds |-> IF k = e.name THEN parts[k] \cup {p}
                                                         ELSE parts[k]]
              /\ UNCHANGED <<file, pc, budget, reading, export>>

StartList(k) ==
  /\ kind' = k /\ queue' = parts[ListDefinitions[k]]
  /\ members' = <<>> /\ parsedAny' = FALSE

Inspected ==
  /\ pc = "inspect" /\ inspected = Len(file.entries)
  /\ pc' = "read"
  /\ StartList(1)
  /\ UNCHANGED <<file, walk, budget, export>>

\* Mutant: the limit is one for each part.
ReadPart_OwnBudget(p) ==
  /\ pc = "read" /\ p \in queue
  /\ \A q \in queue : Entry(p).rank <= Entry(q).rank
  /\ IF ~Readable(Entry(p), budget) THEN Refused
     ELSE LET found == ParseDocument(Entry(p).content)
          IN  /\ queue' = queue \ {p}
              /\ members' = members \o found.members
              /\ parsedAny' = (parsedAny \/ found.recognised)
              /\ UNCHANGED <<file, pc, walk, budget, kind, export>>

\* The next part in the order of names.  One that cannot be decompressed, or
\* for which the budget is too small, ends the whole parse; one that is no list
\* is skipped.
ReadPart(p) ==
  /\ pc = "read" /\ p \in queue
  /\ \A q \in queue : Entry(p).rank <= Entry(q).rank
  /\ IF ~Readable(Entry(p), budget) THEN Refused
     ELSE LET found == ParseDocument(Entry(p).content)
          IN  /\ budget' = budget - Entry(p).size
              /\ queue' = queue \ {p}
              /\ members' = members \o found.members
              /\ parsedAny' = (parsedAny \/ found.recognised)
              /\ UNCHANGED <<file, pc, walk, kind, export>>

\* All parts of a list are read: it is recorded, even if empty, unless none of
\* them was a list.
ListsRead ==
  IF parsedAny
    THEN [k \in DOMAIN export.lists \cup {ListDefinitions[kind]} |->
            IF k = ListDefinitions[kind] THEN Dedupe(members) ELSE export.lists[k]]
    ELSE export.lists

RecordList ==
  /\ pc = "read" /\ queue = {} /\ kind < Len(ListDefinitions)
  /\ export' = [export EXCEPT !.lists = ListsRead]
  /\ StartList(kind + 1)
  /\ UNCHANGED <<file, pc, walk, budget>>

\* Mutant: the time inside the archive wins.
TakenAt_NewestFirst(page) == IF newest # NoDate THEN newest ELSE page.generated

\* archiveTakenAt: what the page states, else the newest entry.
TakenAt(page) == IF page.generated # NoDate THEN page.generated ELSE newest

\* Mutant: an empty follower list is as good as any other.
FollowersMissing_OnlyIfAbsent(lists) == "followers" \notin DOMAIN lists

FollowersMissing(lists) ==
  "followers" \notin DOMAIN lists \/ DOMAIN lists["followers"] = {}

NoPage == [owner |-> Nobody, generated |-> NoDate, from |-> NoDate, to |-> NoDate]

\* The summary page, as far as the lists have left room to read it.
Page ==
  IF startHere # 0 /\ Readable(Entry(startHere), budget)
    THEN Entry(startHere).content ELSE NoPage

\* After the last list: without followers the archive is refused, else the
\* summary page is read.
Finish ==
  /\ pc = "read" /\ queue = {} /\ kind = Len(ListDefinitions)
  /\ IF FollowersMissing(ListsRead) THEN Refused
     ELSE /\ pc' = "accepted"
          /\ export' = [lists |-> ListsRead, partial |-> Partial(Page),
                        takenAt |-> TakenAt(Page), owner |-> Page.owner]
          /\ UNCHANGED <<file, walk, budget, reading>>

Next ==
  \/ RefuseEmpty \/ ParseBare \/ OpenArchive
  \/ InspectEntry \/ Inspected
  \/ \E p \in queue : ReadPart(p)
  \/ RecordList \/ Finish

Spec == Init /\ [][Next]_vars

-----------------------------------------------------------------------------
(* What a result means, told from the file alone *)

Accepted == pc = "accepted"
Archive  == file.form = "archive"

PartsOf(k) == {p \in DOMAIN file.entries : Entry(p).name = k}
AllParts   == UNION {PartsOf(k) : k \in Kinds}
Expanded   == MapThenSumSet(LAMBDA p : Entry(p).size, AllParts)

\* The parts of k that are a list, and where in them u is mentioned.
Lists(k) == {p \in PartsOf(k) : ParseDocument(Entry(p).content).recognised}

Mention(p, j) == ParseDocument(Entry(p).content).members[j]

Mentions(k, u) ==
  UNION {{<<p, j>> : j \in {i \in DOMAIN ParseDocument(Entry(p).content).members :
                              Mention(p, i).user = u}} : p \in Lists(k)}

Earlier(m, n) ==
  \/ Entry(m[1]).rank < Entry(n[1]).rank
  \/ m[1] = n[1] /\ m[2] < n[2]

\* "The follower list is the only one an export must contain to be usable":
\* what is accepted carries it, with somebody on it, whatever its shape.  This
\* is what Tracker assumes of every readable file.
AcceptedHasFollowers ==
  Accepted => /\ "followers" \in DOMAIN export.lists
              /\ DOMAIN export.lists["followers"] # {}

\* An archive carries a list exactly if one of its parts is one, even an empty
\* one; the list holds everybody mentioned in any of its parts, wherever in the
\* archive they lie, followed at the first moment stated in the order of names.
ListsAreTheirParts ==
  Accepted /\ Archive =>
    /\ DOMAIN export.lists = {k \in Kinds : Lists(k) # {}}
    /\ \A k \in DOMAIN export.lists :
         /\ DOMAIN export.lists[k] = {u \in Users : Mentions(k, u) # {}}
         /\ \A u \in DOMAIN export.lists[k] :
              LET stated == {m \in Mentions(k, u) : Mention(m[1], m[2]).stamp # NoStamp}
              IN  IF stated = {} THEN export.lists[k][u] = NoStamp
                  ELSE \E m \in stated :
                         /\ export.lists[k][u] = Mention(m[1], m[2]).stamp
                         /\ \A n \in stated : ~Earlier(n, m)

\* An archive is refused only if it is damaged where it is read, has too many
\* entries, its lists fill the limit, or nobody is on its follower list; and
\* always if it is damaged there, has too many, or its lists exceed the limit.
RefusedForAReason ==
  Archive =>
    LET damaged == ~file.intact \/ \E p \in AllParts : ~Entry(p).intact
        nobody  == \A u \in Users : Mentions("followers", u) = {}
        many    == Len(file.entries) > MaxArchiveEntries
    IN  /\ pc = "refused" =>
             damaged \/ many \/ nobody \/ Expanded >= MaxDecompressedBytes
        /\ Accepted =>
             ~(damaged \/ many \/ nobody) /\ Expanded <= MaxDecompressedBytes

\* p is the one summary page, and the lists leave room to read it.
TheSummary(p) ==
  /\ Summaries(file) = {p}
  /\ Readable(Entry(p), MaxDecompressedBytes - Expanded)

\* "A window at or under this bound is a deliberate filter": an export is taken
\* for partial exactly if its summary page declares one.  (When the lists leave
\* no room for the page, or there are two, nothing is claimed.)
NarrowWindowIsRecognised ==
  Accepted /\ Archive =>
    \A p \in DOMAIN file.entries : TheSummary(p) =>
      LET page == Entry(p).content
      IN  export.partial <=>
            /\ NoDate \notin {page.from, page.to}
            /\ page.to - page.from \in 1..NarrowWindowDays

\* An archive is dated by what its summary page says if it says so, else by
\* the newest file in it.  (That is never "no date": a file without a time
\* of its own is dated DosEpoch.)
DatedByEvidence ==
  Accepted /\ Archive =>
    LET stated == {p \in Summaries(file) : Entry(p).content.generated # NoDate}
        inside == {Modified(Entry(p)) : p \in {q \in DOMAIN file.entries :
                                                Entry(q).name # "directory"}}
        one    == \E p \in stated : TheSummary(p)
    IN  \/ \E p \in stated : export.takenAt = Entry(p).content.generated
        \/ /\ ~one
           /\ export.takenAt \in inside
           /\ \A t \in inside : t <= export.takenAt

\* Intake, which reads the summary page alone, and the parse, which reads it
\* last, attribute the export to the same account.
OwnerAgrees ==
  Accepted /\ Archive =>
    \A p \in DOMAIN file.entries :
      TheSummary(p) => export.owner = OwnerFromArchive(file)
=============================================================================
