------------------------------- MODULE Intake -------------------------------
(***************************************************************************)
(* Accept, the handlers that call it, and what is left on disk: concurrent *)
(* requests, each with a program counter, over the staging directory, the  *)
(* directories of the accounts and table uploads.  Any step of a request   *)
(* may fail, its client may go away, and the process may end.  Tracker     *)
(* takes all of this as the one step CreateUpload; QueuedHasItsFile and    *)
(* NothingStranded are what that step assumes.                             *)
(***************************************************************************)
EXTENDS Integers, FiniteSets

CONSTANTS
  Requests,
  Handles,         \* normalized account handles
  Names,           \* names uploadFilename may draw, more than there are requests
  Forms,           \* what a request may bring
  NoHandle,
  NoOne,
  RetainUploads,
  MaxFaults,       \* bound: steps that fail although the client waits
  MaxExits         \* bound: times the process ends

\* The multipart form: whether it can be read at all, whether the file in it is
\* above the cap, and where the account can be read from.
Form == [body : {"malformed", "oversized", "empty", "fits"},
         typed : Handles \cup {NoHandle},      \* the account field
         named : Handles \cup {NoHandle},      \* the name of the file
         owner : Handles \cup {NoHandle}]      \* the summary page inside it

ASSUME FormsAssumption == Forms \subseteq Form
ASSUME NobodyAssumption ==
  /\ NoHandle \notin Handles
  /\ NoOne \notin Requests /\ NoOne \notin Names /\ NoOne \notin Forms
ASSUME IntakeBounds == MaxFaults \in Nat /\ MaxExits \in Nat /\ RetainUploads \in BOOLEAN

VARIABLES
  pc,         \* where a request is: the step it runs next, or how it ended
  form,       \* what it brought
  name,       \* the name of its stored file
  gone,       \* its client has gone: the request's context is cancelled
  staged,     \* the staging directory: whose bytes are under a name
  placed,     \* the same for the directories of the accounts
  accounts,   \* table accounts
  row,        \* its row of table uploads: "absent", "pending" or "decided"
  faults, exits

requests == <<pc, form, name, gone>>
disk     == <<staged, placed>>
database == <<accounts, row>>
counts   == <<faults, exits>>
vars     == <<requests, disk, database, counts>>

Steps == {"create", "copy", "resolve", "account", "move", "insert", "read back"}

\* The steps that run a statement under the request's context.
Statements == {"account", "insert", "read back"}

TypeOK ==
  /\ pc \in [Requests -> Steps \cup {"unsent", "accepted", "refused", "cut off"}]
  /\ form \in [Requests -> Forms \cup {NoOne}]
  /\ \A r \in Requests : form[r] = NoOne => pc[r] = "unsent"
  /\ name \in [Requests -> Names \cup {NoOne}]
  /\ gone \in [Requests -> BOOLEAN]
  /\ staged \in [Names -> Requests \cup {NoOne}]
  /\ placed \in [Handles \X Names -> Requests \cup {NoOne}]
  /\ accounts \subseteq Handles
  /\ row \in [Requests -> {"absent", "pending", "decided"}]
  /\ faults \in 0..MaxFaults /\ exits \in 0..MaxExits

Init ==
  /\ pc = [r \in Requests |-> "unsent"]
  /\ form = [r \in Requests |-> NoOne]
  /\ name = [r \in Requests |-> NoOne]
  /\ gone = [r \in Requests |-> FALSE]
  /\ staged = [n \in Names |-> NoOne]
  /\ placed = [p \in Handles \X Names |-> NoOne]
  /\ accounts = {}
  /\ row = [r \in Requests |-> "absent"]
  /\ faults = 0 /\ exits = 0

Running(r) == pc[r] \in Steps

Goto(r, from, to) == pc[r] = from /\ pc' = [pc EXCEPT ![r] = to]

\* A step whose statement, where it has one, is not cancelled.
Live(r, step, next) == ~(gone[r] /\ step \in Statements) /\ Goto(r, step, next)

-----------------------------------------------------------------------------
(* The steps of a request *)

\* The form is read whole before anything is stored.
ParseForm(r, f) ==
  /\ form' = [form EXCEPT ![r] = f]
  /\ Goto(r, "unsent", IF f.body = "malformed" THEN "refused" ELSE "create")
  /\ UNCHANGED <<name, gone, disk, database, counts>>

\* Mutant: the name carries the time and no nonce.
FreshNames_ByTheSecond == Names

\* The nonce of a name is not drawn twice.
FreshNames == Names \ {name[r] : r \in Requests}

\* O_EXCL: a name that is taken is an error, and Accept removes what is there.
CreateStaged(r, n) ==
  /\ Goto(r, "create", IF staged[n] = NoOne THEN "copy" ELSE "refused")
  /\ name' = [name EXCEPT ![r] = n]
  /\ staged' = [staged EXCEPT ![n] = IF @ = NoOne THEN r ELSE NoOne]
  /\ UNCHANGED <<form, gone, placed, database, counts>>

CopyBody(r) ==
  /\ Goto(r, "copy", "resolve")
  /\ form[r].body = "fits"
  /\ UNCHANGED <<form, name, gone, disk, database, counts>>

\* Refused, and the file in staging removed.
Discard(r) ==
  /\ pc' = [pc EXCEPT ![r] = "refused"]
  /\ staged' = [staged EXCEPT ![name[r]] = NoOne]
  /\ UNCHANGED <<form, name, gone, placed, database>>

\* Above the cap, or empty.
RefuseBody(r) ==
  /\ pc[r] = "copy"
  /\ form[r].body \in {"oversized", "empty"}
  /\ Discard(r)
  /\ UNCHANGED counts

\* The account typed in, or read from the name of the file, or from inside it.
Handle(f) ==
  IF f.typed # NoHandle THEN f.typed
  ELSE IF f.named # NoHandle THEN f.named ELSE f.owner

\* Mutant: an upload no account can be told for goes on.
ResolveHandle_Unchecked(r) ==
  /\ Goto(r, "resolve", "account")
  /\ UNCHANGED <<form, name, gone, disk, database, counts>>

ResolveHandle(r) ==
  /\ Goto(r, "resolve", "account")
  /\ Handle(form[r]) # NoHandle
  /\ UNCHANGED <<form, name, gone, disk, database, counts>>

\* Mutant: the staged file is forgotten when no account can be told.
RefuseUnnamed_Strands(r) ==
  /\ Goto(r, "resolve", "refused")
  /\ Handle(form[r]) = NoHandle
  /\ UNCHANGED <<form, name, gone, disk, database, counts>>

RefuseUnnamed(r) ==
  /\ pc[r] = "resolve"
  /\ Handle(form[r]) = NoHandle
  /\ Discard(r)
  /\ UNCHANGED counts

\* Mutant: no ON CONFLICT DO NOTHING.
EnsureAccount_Conflicts(r) ==
  LET h == Handle(form[r])
  IN  /\ ~gone[r] /\ pc[r] = "account"
      /\ IF h \in accounts
           THEN Discard(r)
           ELSE /\ pc' = [pc EXCEPT ![r] = "move"]
                /\ accounts' = accounts \cup {h}
                /\ UNCHANGED <<form, name, gone, disk, row>>
      /\ UNCHANGED counts

EnsureAccount(r) ==
  /\ Live(r, "account", "move")
  /\ accounts' = accounts \cup {Handle(form[r])}
  /\ UNCHANGED <<form, name, gone, disk, row, counts>>

Path(r) == <<Handle(form[r]), name[r]>>

\* A rename replaces whatever has the name, and fails when there is nothing to
\* move.
MoveIntoPlace(r) ==
  LET n == name[r]
  IN  /\ Goto(r, "move", IF staged[n] = NoOne THEN "refused" ELSE "insert")
      /\ placed' = IF staged[n] = NoOne THEN placed
                                        ELSE [placed EXCEPT ![Path(r)] = staged[n]]
      /\ staged' = [staged EXCEPT ![n] = NoOne]
      /\ UNCHANGED <<form, name, gone, database, counts>>

CreateUpload(r) ==
  /\ Live(r, "insert", "read back")
  /\ row' = [row EXCEPT ![r] = "pending"]
  /\ UNCHANGED <<form, name, gone, disk, accounts, counts>>

\* The row as it is by now, which the worker may have decided.
ReadBack(r) ==
  /\ Live(r, "read back", "accepted")
  /\ UNCHANGED <<form, name, gone, disk, database, counts>>

\* Mutant: the file is removed on every error, a failed read-back included.
RemovesPlaced_ToTheEnd == {"insert", "read back"}

\* The steps that remove the file in place when they fail: a request whose row
\* exists leaves both.
RemovesPlaced == {"insert"}

\* A step ends in an error: what was staged, or is in place, is removed.
Fails(r) ==
  /\ Running(r) /\ pc[r] # "resolve"
  /\ pc' = [pc EXCEPT ![r] = "refused"]
  /\ staged' = IF pc[r] \in {"copy", "account", "move"}
                 THEN [staged EXCEPT ![name[r]] = NoOne] ELSE staged
  /\ placed' = IF pc[r] \in RemovesPlaced
                 THEN [placed EXCEPT ![Path(r)] = NoOne] ELSE placed
  /\ UNCHANGED <<form, name, gone, database>>

FailsByFault(r) ==
  /\ faults < MaxFaults /\ faults' = faults + 1
  /\ Fails(r)
  /\ UNCHANGED exits

FailsCancelled(r) == gone[r] /\ pc[r] \in Statements /\ Fails(r) /\ UNCHANGED counts

-----------------------------------------------------------------------------
(* Around them *)

Disconnect(r) ==
  /\ Running(r) /\ ~gone[r]
  /\ gone' = [gone EXCEPT ![r] = TRUE]
  /\ UNCHANGED <<pc, form, name, disk, database, counts>>

\* The worker reads the file and records its verdict; without retention it
\* removes a file whose lists are recorded.
Process(r) ==
  /\ row[r] = "pending"
  /\ row' = [row EXCEPT ![r] = "decided"]
  /\ \/ UNCHANGED placed
     \/ ~RetainUploads /\ placed' = [placed EXCEPT ![Path(r)] = NoOne]
  /\ UNCHANGED <<requests, staged, accounts, counts>>

\* The process ends, and with it every request under way.  The disk stays.
Exit ==
  /\ exits < MaxExits /\ exits' = exits + 1
  /\ pc' = [r \in Requests |-> IF Running(r) THEN "cut off" ELSE pc[r]]
  /\ UNCHANGED <<form, name, gone, disk, database, faults>>

Step(r) ==
  \/ \E f \in Forms : ParseForm(r, f)
  \/ \E n \in FreshNames : CreateStaged(r, n)
  \/ CopyBody(r) \/ RefuseBody(r)
  \/ ResolveHandle(r) \/ RefuseUnnamed(r)
  \/ EnsureAccount(r) \/ MoveIntoPlace(r) \/ CreateUpload(r) \/ ReadBack(r)
  \/ FailsByFault(r) \/ FailsCancelled(r)

Next == (\E r \in Requests : Step(r) \/ Disconnect(r) \/ Process(r)) \/ Exit

Spec == Init /\ [][Next]_vars

-----------------------------------------------------------------------------

\* A queued upload has its own file under the path its row records, whatever
\* became of the request that brought it and whoever uploads at the same time.
QueuedHasItsFile == \A r \in Requests : row[r] = "pending" => placed[Path(r)] = r

\* "A failure to resolve one must not strand it": a request that was answered
\* has left nothing in staging, and a file in place only together with a row.
NothingStranded ==
  \A r \in Requests : pc[r] \in {"accepted", "refused"} =>
    /\ \A n \in Names : staged[n] # r
    /\ \A p \in DOMAIN placed : placed[p] = r => row[r] # "absent" /\ p = Path(r)

\* Uploads do not get in each other's way: while no step fails and the client
\* waits, a request is refused for what it brought and for nothing else.
RefusedWithCause ==
  \A r \in Requests : pc[r] = "refused" /\ faults = 0 /\ ~gone[r] =>
    form[r].body # "fits" \/ Handle(form[r]) = NoHandle
=============================================================================
