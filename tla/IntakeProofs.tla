---------------------------- MODULE IntakeProofs ----------------------------
(***************************************************************************)
(* Theorems about Intake: whatever the number of requests, a queued upload *)
(* has its own file, and an answered request leaves nothing behind.        *)
(***************************************************************************)
EXTENDS Intake, TLAPS

\* The steps at which a request has its file in staging.
Staging == {"copy", "resolve", "account", "move"}

\* No two requests have drawn one name.
NamesDiffer ==
  \A r, s \in Requests : name[r] = name[s] /\ name[r] # NoOne => r = s

\* From the moment it is drawn until it ends a request has a name, and from the
\* moment it is known an account.
Known ==
  \A r \in Requests :
    /\ pc[r] \in Staging \cup {"insert", "read back", "accepted"} => name[r] \in Names
    /\ pc[r] \in {"account", "move", "insert", "read back", "accepted"}
         => Handle(form[r]) \in Handles

\* What is in staging is there under its own name and for a request that has
\* not been answered.
StagedIsOwn ==
  /\ \A r \in Requests : pc[r] \in Staging => staged[name[r]] = r
  /\ \A n \in Names, r \in Requests :
       staged[n] = r => name[r] = n /\ pc[r] \in Staging \cup {"cut off"}

\* What is in place is there under its own path, and for a request that has
\* been answered, together with its row.
PlacedIsOwn ==
  /\ \A r \in Requests : pc[r] = "insert" => placed[Path(r)] = r
  /\ \A p \in Handles \X Names, r \in Requests :
       placed[p] = r =>
         /\ p = Path(r)
         /\ pc[r] \in {"insert", "read back", "accepted", "refused", "cut off"}
         /\ pc[r] \in {"accepted", "refused"} => row[r] # "absent"

\* A row comes late, and its path is one there can be.
RowsAreLate ==
  \A r \in Requests :
    /\ pc[r] \in {"read back", "accepted"} => row[r] # "absent"
    /\ row[r] # "absent" =>
         /\ pc[r] \in {"read back", "accepted", "refused", "cut off"}
         /\ Path(r) \in Handles \X Names

\* The inductive invariant.
IInv ==
  TypeOK /\ NamesDiffer /\ Known /\ StagedIsOwn /\ PlacedIsOwn /\ RowsAreLate
    /\ QueuedHasItsFile

\* The account read from a form is a handle or none.
LEMMA HandleType ==
  ASSUME NEW f \in Forms
  PROVE  Handle(f) \in Handles \cup {NoHandle}
<1>1. f \in Form
  BY FormsAssumption
<1> QED
  BY <1>1 DEF Form, Handle

\* Nothing is named, staged, placed or recorded at the start.
LEMMA InitIInv == Init => IInv
<1> SUFFICES ASSUME Init PROVE IInv
  OBVIOUS
<1> QED
  BY NobodyAssumption, IntakeBounds
     DEF Init, IInv, TypeOK, Steps, NamesDiffer, Known, StagedIsOwn, PlacedIsOwn,
         RowsAreLate, QueuedHasItsFile, Staging

\* A step that leaves the staging directory alone, and no request out of it.
LEMMA StagingUntouched ==
  ASSUME StagedIsOwn, UNCHANGED <<staged, name>>,
         \A s \in Requests :
           /\ pc'[s] \in Staging => pc[s] \in Staging
           /\ pc[s] \in Staging \cup {"cut off"}
                => pc'[s] \in Staging \cup {"cut off"}
  PROVE  StagedIsOwn'
<1>1. ASSUME NEW s \in Requests, pc'[s] \in Staging PROVE staged'[name'[s]] = s
  BY <1>1 DEF StagedIsOwn
<1>2. ASSUME NEW n \in Names, NEW s \in Requests, staged'[n] = s
      PROVE  name'[s] = n /\ pc'[s] \in Staging \cup {"cut off"}
  BY <1>2 DEF StagedIsOwn
<1> QED
  BY <1>1, <1>2 DEF StagedIsOwn

\* A request leaves staging and its file with it, whether moved or removed.
LEMMA StagingLeft ==
  ASSUME TypeOK, NamesDiffer, Known, StagedIsOwn,
         NEW r \in Requests, pc[r] \in Staging,
         staged' = [staged EXCEPT ![name[r]] = NoOne], UNCHANGED name,
         \A s \in Requests : s # r => pc'[s] = pc[s],
         pc'[r] \notin Staging
  PROVE  StagedIsOwn'
<1>1. name[r] \in Names /\ staged \in [Names -> Requests \cup {NoOne}]
  BY DEF Known, TypeOK
<1>2. ASSUME NEW s \in Requests, pc'[s] \in Staging PROVE staged'[name'[s]] = s
  <2>1. s # r /\ pc[s] \in Staging
    BY <1>2
  <2>2. name[s] \in Names /\ name[s] # name[r]
    BY <1>1, <2>1, NobodyAssumption DEF Known, NamesDiffer
  <2>3. staged[name[s]] = s
    BY <2>1 DEF StagedIsOwn
  <2> QED
    BY <1>1, <2>2, <2>3
<1>3. ASSUME NEW n \in Names, NEW s \in Requests, staged'[n] = s
      PROVE  name'[s] = n /\ pc'[s] \in Staging \cup {"cut off"}
  <2>1. n # name[r] /\ staged[n] = s
    BY <1>1, <1>3, NobodyAssumption
  <2>2. name[s] = n /\ pc[s] \in Staging \cup {"cut off"}
    BY <2>1 DEF StagedIsOwn
  <2> QED
    BY <2>1, <2>2
<1> QED
  BY <1>2, <1>3 DEF StagedIsOwn

\* A step that puts nothing in place: what is there afterwards was there before,
\* under the same path, and its owner has not been answered without a row.
LEMMA NothingPlaced ==
  ASSUME PlacedIsOwn,
         \A s \in Requests : pc'[s] = "insert" => placed'[Path(s)'] = s,
         \A p \in Handles \X Names, s \in Requests : placed'[p] = s =>
           /\ placed[p] = s /\ Path(s)' = Path(s)
           /\ pc'[s] \in {pc[s], "refused", "accepted", "cut off"}
           /\ pc'[s] # pc[s] /\ pc'[s] # "cut off" => row'[s] # "absent"
           /\ row[s] # "absent" => row'[s] # "absent"
  PROVE  PlacedIsOwn'
<1> SUFFICES ASSUME NEW p \in Handles \X Names, NEW s \in Requests, placed'[p] = s
             PROVE  /\ p = Path(s)'
                    /\ pc'[s] \in {"insert", "read back", "accepted", "refused", "cut off"}
                    /\ pc'[s] \in {"accepted", "refused"} => row'[s] # "absent"
  BY DEF PlacedIsOwn
<1>1. /\ placed[p] = s /\ Path(s)' = Path(s)
      /\ pc'[s] \in {pc[s], "refused", "accepted", "cut off"}
      /\ pc'[s] # pc[s] /\ pc'[s] # "cut off" => row'[s] # "absent"
      /\ row[s] # "absent" => row'[s] # "absent"
  OBVIOUS
<1>2. /\ p = Path(s)
      /\ pc[s] \in {"insert", "read back", "accepted", "refused", "cut off"}
      /\ pc[s] \in {"accepted", "refused"} => row[s] # "absent"
  BY <1>1 DEF PlacedIsOwn
<1> QED
  BY <1>1, <1>2

\* Reading the form: the request starts, with nothing stored.
LEMMA ParseFormKeeps ==
  ASSUME IInv, NEW r \in Requests, NEW f \in Forms, ParseForm(r, f)
  PROVE  IInv'
<1>1. TypeOK'
  BY NobodyAssumption
     DEF IInv, TypeOK, Steps, ParseForm, Goto, disk, database, counts
<1>2. NamesDiffer'
  BY DEF IInv, NamesDiffer, ParseForm
<1>3. Known'
  BY DEF IInv, TypeOK, Known, Staging, ParseForm, Goto
<1>4. StagedIsOwn'
  BY StagingUntouched DEF IInv, TypeOK, Staging, ParseForm, Goto, disk
<1>5. PlacedIsOwn'
  BY DEF IInv, TypeOK, PlacedIsOwn, Path, ParseForm, Goto, disk, database
<1>6. RowsAreLate'
  BY DEF IInv, TypeOK, RowsAreLate, Path, ParseForm, Goto, database
<1>7. QueuedHasItsFile'
  BY DEF IInv, TypeOK, QueuedHasItsFile, Path, RowsAreLate, ParseForm, Goto,
         disk, database
<1> QED
  BY <1>1, <1>2, <1>3, <1>4, <1>5, <1>6, <1>7 DEF IInv

\* Creating the file: the name is fresh, so that nothing is staged under it and
\* nothing in place has its path.
LEMMA CreateStagedKeeps ==
  ASSUME IInv, NEW r \in Requests, NEW n \in FreshNames, CreateStaged(r, n)
  PROVE  IInv'
<1>1. TypeOK'
  BY DEF IInv, TypeOK, Steps, CreateStaged, Goto, FreshNames, database, counts
<1>2. NamesDiffer'
  BY DEF IInv, NamesDiffer, CreateStaged, FreshNames
<1>3. Known'
  BY DEF IInv, TypeOK, Known, CreateStaged, Goto, FreshNames
<1>4. StagedIsOwn'
  <2>1. n \in Names /\ \A s \in Requests : name[s] # n
    BY DEF FreshNames
  <2>2. staged[n] = NoOne
    <3>1. staged[n] \in Requests \cup {NoOne}
      BY <2>1 DEF IInv, TypeOK
    <3> QED
      BY <2>1, <3>1 DEF IInv, StagedIsOwn
  <2>3. /\ pc[r] = "create" /\ pc' = [pc EXCEPT ![r] = "copy"]
        /\ name' = [name EXCEPT ![r] = n] /\ staged' = [staged EXCEPT ![n] = r]
    BY <2>2 DEF CreateStaged, Goto
  <2>4. ASSUME NEW s \in Requests, pc'[s] \in Staging PROVE staged'[name'[s]] = s
    <3>1. CASE s = r
      BY <2>1, <2>3, <3>1 DEF IInv, TypeOK
    <3>2. CASE s # r
      <4>1. pc[s] \in Staging /\ name'[s] = name[s]
        BY <2>3, <2>4, <3>2 DEF IInv, TypeOK
      <4>2. staged[name[s]] = s /\ name[s] \in Names
        BY <4>1 DEF IInv, StagedIsOwn, Known
      <4> QED
        BY <2>1, <2>3, <4>1, <4>2 DEF IInv, TypeOK
    <3> QED
      BY <3>1, <3>2
  <2>5. ASSUME NEW m \in Names, NEW s \in Requests, staged'[m] = s
        PROVE  name'[s] = m /\ pc'[s] \in Staging \cup {"cut off"}
    <3>1. CASE m = n
      BY <2>1, <2>3, <2>5, <3>1 DEF IInv, TypeOK, Staging
    <3>2. CASE m # n
      <4>1. name[s] = m /\ pc[s] \in Staging \cup {"cut off"}
        <5>1. staged[m] = s
          BY <2>3, <2>5, <3>2 DEF IInv, TypeOK
        <5> QED
          BY <5>1 DEF IInv, StagedIsOwn
      <4>2. s # r
        BY <2>3, <4>1 DEF Staging
      <4> QED
        BY <2>3, <4>1, <4>2 DEF IInv, TypeOK
    <3> QED
      BY <3>1, <3>2
  <2> QED
    BY <2>4, <2>5 DEF StagedIsOwn
<1>5. PlacedIsOwn'
  <2>1. /\ pc[r] = "create" /\ UNCHANGED <<form, placed, row>>
        /\ \A s \in Requests : s # r => name'[s] = name[s] /\ pc'[s] = pc[s]
        /\ pc'[r] # "insert"
    BY DEF IInv, CreateStaged, Goto, database
  <2>2. \A s \in Requests : s # r => Path(s)' = Path(s)
    BY <2>1 DEF Path
  <2>3. \A p \in Handles \X Names : placed[p] # r
    BY <2>1 DEF IInv, PlacedIsOwn
  <2>4. \A s \in Requests : pc'[s] = "insert" => placed'[Path(s)'] = s
    <3> SUFFICES ASSUME NEW s \in Requests, pc'[s] = "insert" PROVE placed'[Path(s)'] = s
      OBVIOUS
    <3>1. s # r /\ pc[s] = "insert"
      BY <2>1
    <3>2. placed[Path(s)] = s
      BY <3>1 DEF IInv, PlacedIsOwn
    <3> QED
      BY <2>1, <2>2, <3>1, <3>2
  <2>5. \A p \in Handles \X Names, s \in Requests : placed'[p] = s =>
          placed[p] = s /\ Path(s)' = Path(s) /\ pc'[s] = pc[s] /\ row'[s] = row[s]
    BY <2>1, <2>2, <2>3
  <2> QED
    BY <2>4, <2>5, NothingPlaced DEF IInv
<1>6. RowsAreLate'
  BY DEF IInv, TypeOK, RowsAreLate, Path, CreateStaged, Goto, database
<1>7. QueuedHasItsFile'
  BY DEF IInv, TypeOK, QueuedHasItsFile, Path, RowsAreLate, CreateStaged, Goto,
         database
<1> QED
  BY <1>1, <1>2, <1>3, <1>4, <1>5, <1>6, <1>7 DEF IInv

\* Copying the body: the file stays the request's own.
LEMMA CopyBodyKeeps ==
  ASSUME IInv, NEW r \in Requests, CopyBody(r)
  PROVE  IInv'
<1>1. TypeOK'
  BY DEF IInv, TypeOK, Steps, CopyBody, Goto, disk, database, counts
<1>2. NamesDiffer'
  BY DEF IInv, NamesDiffer, CopyBody
<1>3. Known'
  BY DEF IInv, TypeOK, Known, Staging, CopyBody, Goto
<1>4. StagedIsOwn'
  BY StagingUntouched DEF IInv, TypeOK, Staging, CopyBody, Goto, disk
<1>5. PlacedIsOwn'
  BY DEF IInv, TypeOK, PlacedIsOwn, Path, CopyBody, Goto, disk, database
<1>6. RowsAreLate'
  BY DEF IInv, TypeOK, RowsAreLate, Path, CopyBody, Goto, database
<1>7. QueuedHasItsFile'
  BY DEF IInv, QueuedHasItsFile, Path, CopyBody, disk, database
<1> QED
  BY <1>1, <1>2, <1>3, <1>4, <1>5, <1>6, <1>7 DEF IInv

\* An oversized or empty body: the staged file goes, nothing is in place yet.
LEMMA RefuseBodyKeeps ==
  ASSUME IInv, NEW r \in Requests, RefuseBody(r)
  PROVE  IInv'
<1>1. TypeOK'
  BY DEF IInv, TypeOK, RefuseBody, Discard, database, counts
<1>2. NamesDiffer'
  BY DEF IInv, NamesDiffer, RefuseBody, Discard
<1>3. Known'
  BY DEF IInv, TypeOK, Known, Staging, RefuseBody, Discard
<1>4. StagedIsOwn'
  <2>1. /\ pc[r] \in Staging /\ pc'[r] \notin Staging
        /\ \A s \in Requests : s # r => pc'[s] = pc[s]
    BY DEF IInv, TypeOK, Staging, RefuseBody, Discard
  <2> QED
    BY <2>1, StagingLeft DEF IInv, RefuseBody, Discard
<1>5. PlacedIsOwn'
  BY NobodyAssumption
     DEF IInv, TypeOK, PlacedIsOwn, Path, RowsAreLate, RefuseBody, Discard,
         database
<1>6. RowsAreLate'
  BY DEF IInv, TypeOK, RowsAreLate, Path, RefuseBody, Discard, database
<1>7. QueuedHasItsFile'
  BY DEF IInv, QueuedHasItsFile, Path, RefuseBody, Discard, database
<1> QED
  BY <1>1, <1>2, <1>3, <1>4, <1>5, <1>6, <1>7 DEF IInv

\* Finding the account: from here on the request's path is one there can be.
LEMMA ResolveHandleKeeps ==
  ASSUME IInv, NEW r \in Requests, ResolveHandle(r)
  PROVE  IInv'
<1>1. TypeOK'
  BY DEF IInv, TypeOK, Steps, ResolveHandle, Goto, disk, database, counts
<1>2. NamesDiffer'
  BY DEF IInv, NamesDiffer, ResolveHandle
<1>3. Known'
  BY HandleType DEF IInv, TypeOK, Known, Staging, ResolveHandle, Goto
<1>4. StagedIsOwn'
  BY StagingUntouched DEF IInv, TypeOK, Staging, ResolveHandle, Goto, disk
<1>5. PlacedIsOwn'
  BY DEF IInv, TypeOK, PlacedIsOwn, Path, ResolveHandle, Goto, disk, database
<1>6. RowsAreLate'
  BY DEF IInv, TypeOK, RowsAreLate, Path, ResolveHandle, Goto, database
<1>7. QueuedHasItsFile'
  BY DEF IInv, QueuedHasItsFile, Path, ResolveHandle, disk, database
<1> QED
  BY <1>1, <1>2, <1>3, <1>4, <1>5, <1>6, <1>7 DEF IInv

\* No account can be told: the staged file goes.
LEMMA RefuseUnnamedKeeps ==
  ASSUME IInv, NEW r \in Requests, RefuseUnnamed(r)
  PROVE  IInv'
<1>1. TypeOK'
  BY DEF IInv, TypeOK, RefuseUnnamed, Discard, database, counts
<1>2. NamesDiffer'
  BY DEF IInv, NamesDiffer, RefuseUnnamed, Discard
<1>3. Known'
  BY DEF IInv, TypeOK, Known, Staging, RefuseUnnamed, Discard
<1>4. StagedIsOwn'
  <2>1. /\ pc[r] \in Staging /\ pc'[r] \notin Staging
        /\ \A s \in Requests : s # r => pc'[s] = pc[s]
    BY DEF IInv, TypeOK, Staging, RefuseUnnamed, Discard
  <2> QED
    BY <2>1, StagingLeft DEF IInv, RefuseUnnamed, Discard
<1>5. PlacedIsOwn'
  BY NobodyAssumption
     DEF IInv, TypeOK, PlacedIsOwn, Path, RefuseUnnamed, Discard, database
<1>6. RowsAreLate'
  BY DEF IInv, TypeOK, RowsAreLate, Path, RefuseUnnamed, Discard, database
<1>7. QueuedHasItsFile'
  BY DEF IInv, QueuedHasItsFile, Path, RefuseUnnamed, Discard, database
<1> QED
  BY <1>1, <1>2, <1>3, <1>4, <1>5, <1>6, <1>7 DEF IInv

\* Recording the account: no file and no upload is touched.
LEMMA EnsureAccountKeeps ==
  ASSUME IInv, NEW r \in Requests, EnsureAccount(r)
  PROVE  IInv'
<1>1. TypeOK'
  BY DEF IInv, TypeOK, Steps, Known, EnsureAccount, Goto, Live, disk, counts
<1>2. NamesDiffer'
  BY DEF IInv, NamesDiffer, EnsureAccount, Live
<1>3. Known'
  BY DEF IInv, TypeOK, Known, Staging, EnsureAccount, Goto, Live
<1>4. StagedIsOwn'
  BY StagingUntouched DEF IInv, TypeOK, Staging, EnsureAccount, Goto, Live, disk
<1>5. PlacedIsOwn'
  BY DEF IInv, TypeOK, PlacedIsOwn, Path, EnsureAccount, Goto, Live, disk
<1>6. RowsAreLate'
  BY DEF IInv, TypeOK, RowsAreLate, Path, EnsureAccount, Goto, Live
<1>7. QueuedHasItsFile'
  BY DEF IInv, QueuedHasItsFile, Path, EnsureAccount, Live, disk
<1> QED
  BY <1>1, <1>2, <1>3, <1>4, <1>5, <1>6, <1>7 DEF IInv

\* Moving the file: it is the request's own, and goes to a path under which no
\* other request has anything.
LEMMA MoveIntoPlaceKeeps ==
  ASSUME IInv, NEW r \in Requests, MoveIntoPlace(r)
  PROVE  IInv'
<1>1. /\ pc[r] = "move" /\ staged[name[r]] = r /\ name[r] \in Names
      /\ Path(r) \in Handles \X Names
  BY DEF IInv, StagedIsOwn, Staging, Known, Path, MoveIntoPlace, Goto
<1>2. /\ pc' = [pc EXCEPT ![r] = "insert"]
      /\ placed' = [placed EXCEPT ![Path(r)] = r]
      /\ staged' = [staged EXCEPT ![name[r]] = NoOne]
      /\ UNCHANGED <<form, name, gone, accounts, row, faults, exits>>
  BY <1>1, NobodyAssumption DEF MoveIntoPlace, Goto, database, counts
<1>3. /\ placed'[Path(r)] = r /\ row[r] = "absent"
      /\ \A s \in Requests : s # r => pc'[s] = pc[s]
      /\ \A s \in Requests : Path(s)' = Path(s)
      /\ \A p \in Handles \X Names : p # Path(r) => placed'[p] = placed[p]
  BY <1>1, <1>2 DEF IInv, TypeOK, Path, RowsAreLate
<1>4. \A s \in Requests : s # r => Path(s) # Path(r)
  BY <1>1, NobodyAssumption DEF IInv, NamesDiffer, Path
<1>5. TypeOK'
  BY <1>1, <1>2, NobodyAssumption, IntakeBounds DEF IInv, TypeOK, Steps
<1>6. NamesDiffer'
  BY DEF IInv, NamesDiffer, MoveIntoPlace
<1>7. Known'
  BY DEF IInv, TypeOK, Known, Staging, MoveIntoPlace, Goto
<1>8. StagedIsOwn'
  <2>1. /\ pc[r] \in Staging /\ pc'[r] \notin Staging
        /\ \A s \in Requests : s # r => pc'[s] = pc[s]
    BY DEF IInv, TypeOK, Staging, MoveIntoPlace, Goto
  <2> QED
    BY <2>1, StagingLeft DEF IInv, MoveIntoPlace
<1>9. PlacedIsOwn'
  <2>1. ASSUME NEW s \in Requests, pc'[s] = "insert" PROVE placed'[Path(s)'] = s
    <3>1. CASE s = r
      BY <1>3, <3>1
    <3>2. CASE s # r
      <4>1. pc[s] = "insert"
        BY <1>3, <2>1, <3>2
      <4>2. placed[Path(s)] = s /\ Path(s) \in Handles \X Names
        BY <4>1 DEF IInv, PlacedIsOwn, Known, Path
      <4> QED
        BY <1>3, <1>4, <3>2, <4>2
    <3> QED
      BY <3>1, <3>2
  <2>2. ASSUME NEW p \in Handles \X Names, NEW s \in Requests, placed'[p] = s
        PROVE  /\ p = Path(s)'
               /\ pc'[s] \in {"insert", "read back", "accepted", "refused", "cut off"}
               /\ pc'[s] \in {"accepted", "refused"} => row'[s] # "absent"
    <3>1. CASE p = Path(r)
      BY <1>1, <1>2, <1>3, <2>2, <3>1 DEF IInv, TypeOK
    <3>2. CASE p # Path(r)
      <4>1. placed[p] = s
        BY <1>3, <2>2, <3>2
      <4>2. s # r
        BY <1>1, <4>1 DEF IInv, PlacedIsOwn
      <4>3. /\ p = Path(s)
            /\ pc[s] \in {"insert", "read back", "accepted", "refused", "cut off"}
            /\ pc[s] \in {"accepted", "refused"} => row[s] # "absent"
        BY <4>1 DEF IInv, PlacedIsOwn
      <4> QED
        BY <1>2, <1>3, <4>2, <4>3
    <3> QED
      BY <3>1, <3>2
  <2> QED
    BY <2>1, <2>2 DEF PlacedIsOwn
<1>10. RowsAreLate'
  BY DEF IInv, TypeOK, RowsAreLate, Path, MoveIntoPlace, Goto, database
<1>11. QueuedHasItsFile'
  <2> SUFFICES ASSUME NEW s \in Requests, row'[s] = "pending" PROVE placed'[Path(s)'] = s
    BY DEF QueuedHasItsFile
  <2>1. s # r /\ row[s] = "pending"
    BY <1>2, <1>3
  <2>2. placed[Path(s)] = s /\ Path(s) \in Handles \X Names
    BY <2>1 DEF IInv, QueuedHasItsFile, RowsAreLate
  <2> QED
    BY <1>3, <1>4, <2>1, <2>2
<1> QED
  BY <1>5, <1>6, <1>7, <1>8, <1>9, <1>10, <1>11 DEF IInv

\* Recording the upload: its file is in place by then.
LEMMA CreateUploadKeeps ==
  ASSUME IInv, NEW r \in Requests, CreateUpload(r)
  PROVE  IInv'
<1>1. TypeOK'
  BY DEF IInv, TypeOK, Steps, CreateUpload, Goto, Live, disk, counts
<1>2. NamesDiffer'
  BY DEF IInv, NamesDiffer, CreateUpload, Live
<1>3. Known'
  BY DEF IInv, TypeOK, Known, CreateUpload, Goto, Live
<1>4. StagedIsOwn'
  BY StagingUntouched DEF IInv, TypeOK, Staging, CreateUpload, Goto, Live, disk
<1>5. PlacedIsOwn'
  BY DEF IInv, TypeOK, PlacedIsOwn, Path, CreateUpload, Goto, Live, disk
<1>6. RowsAreLate'
  BY DEF IInv, TypeOK, RowsAreLate, Path, Known, CreateUpload, Goto, Live
<1>7. QueuedHasItsFile'
  BY DEF IInv, TypeOK, QueuedHasItsFile, Path, PlacedIsOwn, CreateUpload, Goto,
         Live, disk
<1> QED
  BY <1>1, <1>2, <1>3, <1>4, <1>5, <1>6, <1>7 DEF IInv

\* The answer: the row is there, whatever the worker has made of it.
LEMMA ReadBackKeeps ==
  ASSUME IInv, NEW r \in Requests, ReadBack(r)
  PROVE  IInv'
<1>1. TypeOK'
  BY DEF IInv, TypeOK, ReadBack, Goto, Live, disk, database, counts
<1>2. NamesDiffer'
  BY DEF IInv, NamesDiffer, ReadBack, Live
<1>3. Known'
  BY DEF IInv, TypeOK, Known, ReadBack, Goto, Live
<1>4. StagedIsOwn'
  BY StagingUntouched DEF IInv, TypeOK, Staging, ReadBack, Goto, Live, disk
<1>5. PlacedIsOwn'
  BY DEF IInv, TypeOK, PlacedIsOwn, Path, RowsAreLate, ReadBack, Goto, Live,
         disk, database
<1>6. RowsAreLate'
  BY DEF IInv, TypeOK, RowsAreLate, Path, ReadBack, Goto, Live, database
<1>7. QueuedHasItsFile'
  BY DEF IInv, QueuedHasItsFile, Path, ReadBack, Live, disk, database
<1> QED
  BY <1>1, <1>2, <1>3, <1>4, <1>5, <1>6, <1>7 DEF IInv

\* A step that fails, for whatever reason: what is removed is the request's own,
\* and is removed from its place only while there is no row.
LEMMA FailsKeeps ==
  ASSUME IInv, NEW r \in Requests, Fails(r), UNCHANGED exits, faults' \in 0..MaxFaults
  PROVE  IInv'
<1>1. TypeOK'
  BY DEF IInv, TypeOK, Steps, Fails, Running, RemovesPlaced, database
<1>2. NamesDiffer'
  BY DEF IInv, NamesDiffer, Fails, Running, RemovesPlaced
<1>3. Known'
  BY DEF IInv, TypeOK, Known, Staging, Fails, Running, RemovesPlaced
<1>4. StagedIsOwn'
  <2>1. CASE pc[r] \in {"copy", "account", "move"}
    <3>1. /\ pc[r] \in Staging /\ pc'[r] \notin Staging /\ UNCHANGED name
          /\ \A s \in Requests : s # r => pc'[s] = pc[s]
          /\ staged' = [staged EXCEPT ![name[r]] = NoOne]
      BY <2>1 DEF IInv, TypeOK, Staging, Fails
    <3> QED
      BY <3>1, StagingLeft DEF IInv
  <2>2. CASE pc[r] \notin {"copy", "account", "move"}
    <3>1. UNCHANGED <<staged, name>>
      BY <2>2 DEF Fails
    <3>2. pc[r] \in {"create", "insert", "read back"} /\ pc' = [pc EXCEPT ![r] = "refused"]
      BY <2>2 DEF Fails, Running, Steps
    <3> QED
      BY <3>1, <3>2, StagingUntouched DEF IInv, TypeOK, Staging
  <2> QED
    BY <2>1, <2>2
<1>5. PlacedIsOwn'
  <2>1. /\ pc' = [pc EXCEPT ![r] = "refused"] /\ UNCHANGED <<form, name, row>>
        /\ \A s \in Requests : Path(s)' = Path(s)
    BY DEF Fails, database, Path
  <2>2. CASE pc[r] = "insert"
    <3>1. placed' = [placed EXCEPT ![Path(r)] = NoOne]
      BY <2>2 DEF Fails, RemovesPlaced
    <3>2. \A p \in Handles \X Names, s \in Requests :
            placed'[p] = s => placed[p] = s /\ p # Path(r)
      BY <3>1, NobodyAssumption DEF IInv, TypeOK
    <3>3. \A p \in Handles \X Names : placed'[p] # r
      BY <3>2 DEF IInv, PlacedIsOwn
    <3>4. ASSUME NEW s \in Requests, pc'[s] = "insert" PROVE placed'[Path(s)'] = s
      <4>1. s # r /\ pc[s] = "insert"
        BY <2>1, <3>4 DEF IInv, TypeOK
      <4>2. placed[Path(s)] = s /\ Path(s) \in Handles \X Names
        BY <4>1 DEF IInv, PlacedIsOwn, Known, Path
      <4>3. Path(s) # Path(r)
        BY <2>2, <4>1, NobodyAssumption DEF IInv, NamesDiffer, Known, Path
      <4> QED
        BY <2>1, <3>1, <4>2, <4>3 DEF IInv, TypeOK
    <3>5. \A p \in Handles \X Names, s \in Requests : placed'[p] = s =>
            placed[p] = s /\ Path(s)' = Path(s) /\ pc'[s] = pc[s] /\ row'[s] = row[s]
      BY <2>1, <3>2, <3>3 DEF IInv, TypeOK
    <3> QED
      BY <3>4, <3>5, NothingPlaced DEF IInv
  <2>3. CASE pc[r] # "insert"
    <3>1. UNCHANGED placed
      BY <2>3 DEF Fails, RemovesPlaced
    <3>2. pc[r] \in {"create", "copy", "account", "move", "read back"}
      BY <2>3 DEF Fails, Running, Steps
    <3>3. pc[r] = "read back" => row[r] # "absent"
      BY DEF IInv, RowsAreLate
    <3>4. ASSUME NEW s \in Requests, pc'[s] = "insert" PROVE placed'[Path(s)'] = s
      <4>1. pc[s] = "insert"
        BY <2>1, <3>4 DEF IInv, TypeOK
      <4>2. placed[Path(s)] = s
        BY <4>1 DEF IInv, PlacedIsOwn
      <4> QED
        BY <2>1, <3>1, <4>2
    <3>5. ASSUME NEW p \in Handles \X Names, NEW s \in Requests, placed'[p] = s
          PROVE  /\ placed[p] = s /\ Path(s)' = Path(s)
                 /\ pc'[s] \in {pc[s], "refused", "accepted", "cut off"}
                 /\ pc'[s] # pc[s] /\ pc'[s] # "cut off" => row'[s] # "absent"
                 /\ row[s] # "absent" => row'[s] # "absent"
      <4>1. placed[p] = s
        BY <3>1, <3>5
      <4>2. pc[s] \in {"insert", "read back", "accepted", "refused", "cut off"}
        BY <4>1 DEF IInv, PlacedIsOwn
      <4>3. s = r \/ pc'[s] = pc[s]
        BY <2>1 DEF IInv, TypeOK
      <4> QED
        BY <2>1, <3>2, <3>3, <4>1, <4>2, <4>3 DEF IInv, TypeOK
    <3> QED
      BY <3>4, <3>5, NothingPlaced DEF IInv
  <2> QED
    BY <2>2, <2>3
<1>6. RowsAreLate'
  BY DEF IInv, TypeOK, RowsAreLate, Path, Fails, Running, RemovesPlaced, database
<1>7. QueuedHasItsFile'
  <2> SUFFICES ASSUME NEW s \in Requests, row'[s] = "pending" PROVE placed'[Path(s)'] = s
    BY DEF QueuedHasItsFile
  <2>1. /\ row[s] = "pending" /\ Path(s)' = Path(s)
        /\ placed[Path(s)] = s
    BY DEF Fails, database, Path, IInv, QueuedHasItsFile
  <2>2. CASE pc[r] = "insert"
    <3>1. placed' = [placed EXCEPT ![Path(r)] = NoOne]
      BY <2>2 DEF Fails, RemovesPlaced
    <3>2. s # r /\ Path(s) \in Handles \X Names
      BY <2>1, <2>2 DEF IInv, RowsAreLate
    <3>3. Path(s) # Path(r)
      BY <3>2, NobodyAssumption DEF IInv, NamesDiffer, Path
    <3> QED
      BY <2>1, <3>1, <3>2, <3>3 DEF IInv, TypeOK
  <2>3. CASE pc[r] # "insert"
    BY <2>1, <2>3 DEF Fails, RemovesPlaced
  <2> QED
    BY <2>2, <2>3
<1> QED
  BY <1>1, <1>2, <1>3, <1>4, <1>5, <1>6, <1>7 DEF IInv

\* A client that goes away changes neither disk nor tables.
LEMMA DisconnectKeeps ==
  ASSUME IInv, NEW r \in Requests, Disconnect(r)
  PROVE  IInv'
<1>1. TypeOK'
  BY DEF IInv, TypeOK, Disconnect, Running, disk, database, counts
<1>2. NamesDiffer'
  BY DEF IInv, NamesDiffer, Disconnect, Running
<1>3. Known'
  BY DEF IInv, Known, Disconnect, Running
<1>4. StagedIsOwn'
  BY StagingUntouched DEF IInv, Disconnect, Running, disk
<1>5. PlacedIsOwn'
  BY DEF IInv, PlacedIsOwn, Path, Disconnect, Running, disk, database
<1>6. RowsAreLate'
  BY DEF IInv, RowsAreLate, Path, Disconnect, Running, database
<1>7. QueuedHasItsFile'
  BY DEF IInv, QueuedHasItsFile, Path, Disconnect, Running, disk, database
<1> QED
  BY <1>1, <1>2, <1>3, <1>4, <1>5, <1>6, <1>7 DEF IInv

\* The worker: the file it may remove is that of the upload it has decided, and
\* no other has its path.
LEMMA ProcessKeeps ==
  ASSUME IInv, NEW r \in Requests, Process(r)
  PROVE  IInv'
<1>1. TypeOK'
  BY DEF IInv, TypeOK, Process, requests, counts
<1>2. NamesDiffer'
  BY DEF IInv, NamesDiffer, Process, requests
<1>3. Known'
  BY DEF IInv, Known, Process, requests
<1>4. StagedIsOwn'
  BY StagingUntouched DEF IInv, Process, requests
<1>5. PlacedIsOwn'
  <2>1. /\ UNCHANGED <<pc, form, name>>
        /\ row[r] = "pending" /\ row' = [row EXCEPT ![r] = "decided"]
        /\ \A s \in Requests : Path(s)' = Path(s)
    BY DEF Process, requests, Path
  <2>2. \A s \in Requests : row[s] # "absent" => row'[s] # "absent"
    BY <2>1 DEF IInv, TypeOK
  <2>3. CASE UNCHANGED placed
    <3>1. ASSUME NEW s \in Requests, pc'[s] = "insert" PROVE placed'[Path(s)'] = s
      BY <2>1, <2>3, <3>1 DEF IInv, PlacedIsOwn
    <3> QED
      BY <2>1, <2>3, <2>2, <3>1, NothingPlaced DEF IInv
  <2>4. CASE placed' = [placed EXCEPT ![Path(r)] = NoOne]
    <3>1. \A p \in Handles \X Names, s \in Requests : placed'[p] = s => placed[p] = s
      BY <2>4, NobodyAssumption DEF IInv, TypeOK
    <3>2. ASSUME NEW s \in Requests, pc'[s] = "insert" PROVE placed'[Path(s)'] = s
      <4>1. pc[s] = "insert" /\ row[s] = "absent"
        BY <2>1, <3>2 DEF IInv, RowsAreLate, TypeOK
      <4>2. placed[Path(s)] = s /\ name[s] \in Names /\ Path(s) \in Handles \X Names
        BY <4>1 DEF IInv, PlacedIsOwn, Known, Path
      <4>3. Path(s) # Path(r)
        BY <2>1, <4>1, <4>2, NobodyAssumption DEF IInv, NamesDiffer, Path
      <4> QED
        BY <2>1, <2>4, <4>2, <4>3 DEF IInv, TypeOK
    <3> QED
      BY <2>1, <2>2, <3>1, <3>2, NothingPlaced DEF IInv
  <2> QED
    BY <2>3, <2>4 DEF Process
<1>6. RowsAreLate'
  BY DEF IInv, TypeOK, RowsAreLate, Path, Process, requests
<1>7. QueuedHasItsFile'
  BY NobodyAssumption
     DEF IInv, TypeOK, QueuedHasItsFile, Path, RowsAreLate, Process, requests
<1> QED
  BY <1>1, <1>2, <1>3, <1>4, <1>5, <1>6, <1>7 DEF IInv

\* The end of the process: requests are cut off where they are, the disk stays.
LEMMA ExitKeeps ==
  ASSUME IInv, Exit
  PROVE  IInv'
<1>1. /\ UNCHANGED <<form, name, gone, staged, placed, accounts, row, faults>>
      /\ \A s \in Requests : pc'[s] = IF Running(s) THEN "cut off" ELSE pc[s]
      /\ \A s \in Requests : Path(s)' = Path(s)
  BY DEF Exit, disk, database, Path
<1>2. TypeOK'
  <2>1. exits' \in 0..MaxExits
    <3>1. MaxExits \in Nat /\ exits \in 0..MaxExits
      BY IntakeBounds DEF IInv, TypeOK
    <3>2. exits < MaxExits /\ exits' = exits + 1
      BY DEF Exit
    <3> QED
      BY <3>1, <3>2
  <2>2. pc' \in [Requests -> Steps \cup {"unsent", "accepted", "refused", "cut off"}]
    BY DEF IInv, TypeOK, Exit
  <2>3. \A r \in Requests : form'[r] = NoOne => pc'[r] = "unsent"
    BY <1>1 DEF IInv, TypeOK, Running, Steps
  <2> QED
    BY <1>1, <2>1, <2>2, <2>3 DEF IInv, TypeOK
<1>3. NamesDiffer'
  BY <1>1 DEF IInv, NamesDiffer
<1>4. Known'
  BY <1>1 DEF IInv, Known, Running, Steps, Staging
<1>5. StagedIsOwn'
  BY <1>1, StagingUntouched DEF IInv, Running, Steps, Staging
<1>6. PlacedIsOwn'
  <2>1. ASSUME NEW s \in Requests, pc'[s] = "insert" PROVE placed'[Path(s)'] = s
    BY <1>1, <2>1 DEF Running, Steps
  <2> QED
    BY <1>1, <2>1, NothingPlaced DEF IInv
<1>7. RowsAreLate'
  BY <1>1 DEF IInv, RowsAreLate, Running, Steps
<1>8. QueuedHasItsFile'
  BY <1>1 DEF IInv, QueuedHasItsFile
<1> QED
  BY <1>2, <1>3, <1>4, <1>5, <1>6, <1>7, <1>8 DEF IInv

\* IInv is inductive.
LEMMA NextKeeps ==
  ASSUME IInv, [Next]_vars
  PROVE  IInv'
<1>1. CASE UNCHANGED vars
  BY <1>1
     DEF vars, requests, disk, database, counts, IInv, TypeOK, NamesDiffer,
         Known, StagedIsOwn, PlacedIsOwn, RowsAreLate, QueuedHasItsFile, Path
<1>2. CASE Exit
  BY <1>2, ExitKeeps
<1>3. ASSUME NEW r \in Requests, Disconnect(r) \/ Process(r) PROVE IInv'
  BY <1>3, DisconnectKeeps, ProcessKeeps
<1>4. ASSUME NEW r \in Requests, Step(r) PROVE IInv'
  <2>1. ASSUME NEW f \in Forms, ParseForm(r, f) PROVE IInv'
    BY <2>1, ParseFormKeeps
  <2>2. ASSUME NEW n \in FreshNames, CreateStaged(r, n) PROVE IInv'
    BY <2>2, CreateStagedKeeps
  <2>3. CASE CopyBody(r) \/ RefuseBody(r)
    BY <2>3, CopyBodyKeeps, RefuseBodyKeeps
  <2>4. CASE ResolveHandle(r) \/ RefuseUnnamed(r)
    BY <2>4, ResolveHandleKeeps, RefuseUnnamedKeeps
  <2>5. CASE EnsureAccount(r) \/ MoveIntoPlace(r)
    BY <2>5, EnsureAccountKeeps, MoveIntoPlaceKeeps
  <2>6. CASE CreateUpload(r) \/ ReadBack(r)
    BY <2>6, CreateUploadKeeps, ReadBackKeeps
  <2>7. CASE FailsByFault(r)
    <3>1. Fails(r) /\ UNCHANGED exits /\ faults' \in 0..MaxFaults
      <4>1. MaxFaults \in Nat /\ faults \in 0..MaxFaults
        BY IntakeBounds DEF IInv, TypeOK
      <4>2. Fails(r) /\ UNCHANGED exits /\ faults < MaxFaults /\ faults' = faults + 1
        BY <2>7 DEF FailsByFault
      <4> QED
        BY <4>1, <4>2
    <3> QED
      BY <3>1, FailsKeeps
  <2>8. CASE FailsCancelled(r)
    <3>1. Fails(r) /\ UNCHANGED exits /\ faults' \in 0..MaxFaults
      BY <2>8 DEF FailsCancelled, counts, IInv, TypeOK
    <3> QED
      BY <3>1, FailsKeeps
  <2> QED
    BY <1>4, <2>1, <2>2, <2>3, <2>4, <2>5, <2>6, <2>7, <2>8 DEF Step
<1> QED
  BY <1>1, <1>2, <1>3, <1>4 DEF Next

\* Every state the intake can reach satisfies the inductive invariant.
THEOREM Invariant == Spec => []IInv
<1>1. IInv /\ [Next]_vars => IInv'
  BY NextKeeps
<1> QED
  BY <1>1, InitIInv, PTL DEF Spec

\* The state a request, the disk and the tables are in is always one of TypeOK.
THEOREM RequestsAreTyped == Spec => []TypeOK
BY Invariant, PTL DEF IInv

\* However many requests run, fail, go away or are cut off, the file under the
\* path of a queued upload is the one its own request brought.
THEOREM QueuedFilesAreThere == Spec => []QueuedHasItsFile
BY Invariant, PTL DEF IInv

\* A request that has been answered has left nothing in staging, and nothing in
\* place without a row.
THEOREM AnsweredLeavesNothing == Spec => []NothingStranded
<1>1. IInv => NothingStranded
  <2> SUFFICES ASSUME IInv, NEW r \in Requests, pc[r] \in {"accepted", "refused"}
               PROVE  /\ \A n \in Names : staged[n] # r
                      /\ \A p \in DOMAIN placed :
                           placed[p] = r => row[r] # "absent" /\ p = Path(r)
    BY DEF NothingStranded
  <2>1. \A n \in Names : staged[n] # r
    BY DEF IInv, StagedIsOwn, Staging
  <2>2. DOMAIN placed = Handles \X Names
    BY DEF IInv, TypeOK
  <2> QED
    BY <2>1, <2>2 DEF IInv, PlacedIsOwn
<1> QED
  BY <1>1, Invariant, PTL

-----------------------------------------------------------------------------
(* Why a request is refused *)

\* A step of one request says nothing about the others, and a fault, once it
\* has happened, has happened.
LEMMA RefusalIsLocal ==
  ASSUME TypeOK, RefusedWithCause, NEW r \in Requests,
         \A s \in Requests \ {r} :
           /\ pc'[s] = pc[s] /\ form'[s] = form[s] /\ gone'[s] = gone[s],
         faults' = 0 => faults = 0,
         pc'[r] = "refused" /\ faults' = 0 /\ ~gone'[r] =>
           form'[r].body # "fits" \/ Handle(form'[r]) = NoHandle
  PROVE  RefusedWithCause'
<1>1. ASSUME NEW s \in Requests, pc'[s] = "refused", faults' = 0, ~gone'[s]
      PROVE  form'[s].body # "fits" \/ Handle(form'[s]) = NoHandle
  <2>1. CASE s = r
    BY <1>1, <2>1
  <2>2. CASE s # r
    BY <1>1, <2>2 DEF RefusedWithCause
  <2> QED
    BY <2>1, <2>2
<1> QED
  BY <1>1 DEF RefusedWithCause

LEMMA StepRefusesWithCause ==
  ASSUME IInv, RefusedWithCause, NEW r \in Requests, Step(r)
  PROVE  RefusedWithCause'
<1> USE DEF Goto, Live, counts, Discard, database, disk
<1>1. TypeOK /\ faults \in Nat
  <2>1. TypeOK /\ faults \in 0..MaxFaults /\ MaxFaults \in Nat
    BY IntakeBounds DEF IInv, TypeOK
  <2> QED
    BY <2>1
<1>2. ASSUME NEW f \in Forms, ParseForm(r, f) PROVE RefusedWithCause'
  <2>1. /\ pc' = [pc EXCEPT ![r] = IF f.body = "malformed" THEN "refused" ELSE "create"]
        /\ form' = [form EXCEPT ![r] = f]
        /\ UNCHANGED <<gone, faults>>
    BY <1>2 DEF ParseForm
  <2>2. /\ pc'[r] = "refused" => f.body # "fits"
        /\ form'[r] = f
    BY <1>1, <2>1 DEF TypeOK
  <2> QED
    BY <1>1, <2>1, <2>2, RefusalIsLocal DEF TypeOK
<1>3. ASSUME NEW n \in FreshNames, CreateStaged(r, n) PROVE RefusedWithCause'
  <2>1. staged[n] = NoOne
    <3>1. n \in Names /\ \A s \in Requests : name[s] # n
      BY DEF FreshNames
    <3>2. staged[n] \in Requests \cup {NoOne}
      BY <1>1, <3>1 DEF TypeOK
    <3>3. \A s \in Requests : staged[n] = s => name[s] = n
      BY <3>1 DEF IInv, StagedIsOwn
    <3> QED
      BY <3>1, <3>2, <3>3
  <2>2. pc' = [pc EXCEPT ![r] = "copy"] /\ UNCHANGED <<form, gone, faults>>
    BY <1>3, <2>1 DEF CreateStaged
  <2> QED
    BY <1>1, <2>2, RefusalIsLocal DEF TypeOK
<1>4. CASE RefuseBody(r) \/ RefuseUnnamed(r)
  <2>1. /\ pc' = [pc EXCEPT ![r] = "refused"] /\ UNCHANGED <<form, gone, faults>>
        /\ form[r].body # "fits" \/ Handle(form[r]) = NoHandle
    BY <1>4 DEF RefuseBody, RefuseUnnamed
  <2> QED
    BY <1>1, <2>1, RefusalIsLocal DEF TypeOK
<1>5. CASE CopyBody(r) \/ ResolveHandle(r) \/ EnsureAccount(r) \/ CreateUpload(r) \/ ReadBack(r)
  <2>1. /\ \E next \in {"resolve", "account", "move", "read back", "accepted"} :
             pc' = [pc EXCEPT ![r] = next]
        /\ UNCHANGED <<form, gone, faults>>
    BY <1>5 DEF CopyBody, ResolveHandle, EnsureAccount, CreateUpload, ReadBack
  <2> QED
    BY <1>1, <2>1, RefusalIsLocal DEF TypeOK
<1>6. CASE MoveIntoPlace(r)
  <2>1. pc[r] = "move" /\ staged[name[r]] = r
    BY <1>6 DEF IInv, StagedIsOwn, Staging, MoveIntoPlace
  <2>2. pc' = [pc EXCEPT ![r] = "insert"] /\ UNCHANGED <<form, gone, faults>>
    BY <1>6, <2>1, NobodyAssumption DEF MoveIntoPlace
  <2> QED
    BY <1>1, <2>2, RefusalIsLocal DEF TypeOK
<1>7. CASE FailsByFault(r)
  <2>1. pc' = [pc EXCEPT ![r] = "refused"] /\ UNCHANGED <<form, gone>> /\ faults' = faults + 1
    BY <1>7 DEF FailsByFault, Fails
  <2>2. faults' # 0
    BY <1>1, <2>1
  <2> QED
    BY <1>1, <2>1, <2>2, RefusalIsLocal DEF TypeOK
<1>8. CASE FailsCancelled(r)
  <2>1. /\ pc' = [pc EXCEPT ![r] = "refused"] /\ UNCHANGED <<form, gone, faults>>
        /\ gone[r]
    BY <1>8 DEF FailsCancelled, Fails
  <2> QED
    BY <1>1, <2>1, RefusalIsLocal DEF TypeOK
<1> QED
  BY <1>2, <1>3, <1>4, <1>5, <1>6, <1>7, <1>8 DEF Step

\* Uploads do not get in each other's way: however many run, Accept refuses a
\* request for what it brought, unless a step failed or the client went away.
THEOREM RefusalHasCause == Spec => []RefusedWithCause
<1>1. IInv /\ RefusedWithCause /\ [Next]_vars => RefusedWithCause'
  <2> SUFFICES ASSUME IInv, RefusedWithCause, [Next]_vars PROVE RefusedWithCause'
    OBVIOUS
  <2>1. CASE UNCHANGED vars
    BY <2>1 DEF vars, requests, counts, RefusedWithCause
  <2>2. CASE Exit
    <3>1. /\ UNCHANGED <<form, gone, faults>>
          /\ \A s \in Requests : pc'[s] = "refused" => pc[s] = "refused"
      BY <2>2 DEF Exit
    <3> QED
      BY <3>1 DEF RefusedWithCause
  <2>3. ASSUME NEW r \in Requests, Disconnect(r) PROVE RefusedWithCause'
    <3>1. /\ UNCHANGED <<pc, form, faults>>
          /\ \A s \in Requests : gone[s] => gone'[s]
      BY <2>3 DEF Disconnect, counts, IInv, TypeOK
    <3> QED
      BY <3>1 DEF RefusedWithCause
  <2>4. ASSUME NEW r \in Requests, Process(r) PROVE RefusedWithCause'
    BY <2>4 DEF Process, requests, counts, RefusedWithCause
  <2>5. ASSUME NEW r \in Requests, Step(r) PROVE RefusedWithCause'
    BY <2>5, StepRefusesWithCause
  <2> QED
    BY <2>1, <2>2, <2>3, <2>4, <2>5 DEF Next
<1>2. Init => RefusedWithCause
  BY DEF Init, RefusedWithCause
<1> QED
  BY <1>1, <1>2, Invariant, PTL DEF Spec
=============================================================================
