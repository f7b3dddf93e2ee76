----------------------------- MODULE MCTracker -----------------------------
(* Small instances of Tracker: the files that may arrive and the old data.  *)
EXTENDS Tracker, TLC

CONSTANTS a1, a2, u1, u2, u3

\* A file whose lists are given as sets; everybody in it was followed at stamp.
List(S, stamp) == [u \in S |-> stamp]

File(takenAt, lists) ==
  [readable |-> TRUE, partial |-> FALSE, takenAt |-> takenAt, lists |-> lists]

Followers(S) == [k \in {"followers"} |-> List(S, NoStamp)]

Both(S, F) == [k \in {"followers", "following"} |->
                 List(IF k = "followers" THEN S ELSE F, NoStamp)]

Upload(a, file, at) ==
  [account |-> a, export |-> file, nameDate |-> NoDate, manual |-> NoDate,
   allowPartial |-> FALSE, uploadedAt |-> at]

-----------------------------------------------------------------------------
(* One account: a large file, a collapse, a date shared by two files, and an  *)
(* override dated by hand.                                                     *)

Full      == File(1, Both({u1, u2, u3}, {u1, u2}))
Collapsed == File(2, Followers({u2}))
Undated   == File(NoDate, Both({u1, u2}, {u3}))

CoreRequests ==
  { Upload(a1, Full, 2), Upload(a1, Collapsed, 2),
    [Upload(a1, Undated, 3) EXCEPT !.nameDate = 2],
    [Upload(a1, Collapsed, 3) EXCEPT !.manual = 3, !.allowPartial = TRUE] }

NoLegacy == [u \in {} |-> NoUpload]

(* Files that are not retained, one of which does not parse. *)

Garbage == [readable |-> FALSE, partial |-> FALSE, takenAt |-> NoDate,
            lists |-> NoLists]

Limited == [Full EXCEPT !.partial = TRUE]

FailureRequests ==
  { Upload(a1, Full, 1), Upload(a1, Garbage, 1), Upload(a1, Limited, 2),
    [Upload(a1, Limited, 2) EXCEPT !.allowPartial = TRUE] }

(* Two accounts and the same two files for both. *)

AccountRequests == {Upload(a, f, 3) : a \in {a1, a2}, f \in {Full, Collapsed}}

\* Neither the requests nor the properties of those runs tell them apart.
AccountSymmetry == Permutations({a1, a2})

(* A database that comes from before export dates: the older export was
   processed last and its file is kept, that of the other is not.            *)

OldLegacy ==
  [u \in {1, 2} |->
     IF u = 1 THEN [request |-> Upload(a1, Full, 2), processedAt |-> 2, kept |-> FALSE]
              ELSE [request |-> [Upload(a1, File(1, Both({u1}, {u2})), 3)
                                     EXCEPT !.nameDate = 2],
                    processedAt |-> 3, kept |-> TRUE]]

\* Undated and hand-dated files on top of it, those that fail, and another
\* account.
OldAndNewRequests ==
  FailureRequests
  \cup {Upload(a1, Undated, 3), [Upload(a1, Full, 3) EXCEPT !.manual = 2],
        Upload(a2, Full, 1)}
=============================================================================
