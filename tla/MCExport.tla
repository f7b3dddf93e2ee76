------------------------------ MODULE MCExport ------------------------------
(* Two people, two lists: follower parts of every shape and state, in every   *)
(* order, around a summary page, with limits small enough to be met.          *)
EXTENDS Export

CONSTANTS u1, u2

TwoLists == <<"followers", "following">>

Item(value, link, stamp) == [value |-> value, link |-> link, stamp |-> stamp]

Array(items) == [form |-> "array", items |-> items]
HTML(items)  == [form |-> "html", items |-> items]
Key(relationships, rank, isList, items) ==
  [relationships |-> relationships, rank |-> rank, isList |-> isList, items |-> items]
Object(keys) == [form |-> "object", keys |-> keys]

One       == <<Item(u1, u1, 1)>>
Two       == <<Item(u1, u1, 0), Item(Nobody, u2, 2)>>
Undated   == <<Item(u1, Nobody, 0), Item(Nobody, Nobody, 1), Item(u1, u1, 2)>>
SomeDocuments ==
  { Array(One), Array(Two), Array(Undated), Array(<<>>), HTML(Two), HTML(<<>>),
    Object({Key(TRUE, 2, TRUE, <<>>), Key(FALSE, 1, TRUE, One)}),
    Object({Key(FALSE, 1, FALSE, <<>>), Key(FALSE, 2, TRUE, Two)}),
    Object({Key(FALSE, 1, TRUE, <<>>)}),
    [form |-> "broken"], [form |-> "other"] }

File(name, rank, time, size, intact, content) ==
  [name |-> name, rank |-> rank, time |-> time, size |-> size,
   intact |-> intact, content |-> content]

Summary(generated, from, to) ==
  File("start_here", 3, 6, 1, TRUE,
       [owner |-> u1, generated |-> generated, from |-> from, to |-> to])

Parts ==
  {File("followers", rank, 4, 1, TRUE, doc) : rank \in {1, 2}, doc \in SomeDocuments}
  \cup { File("followers", 1, NoDate, 3, TRUE, Array(Two)),
         File("followers", 2, 4, 1, FALSE, Array(Two)) }

Others ==
  { File("following", 1, NoDate, 0, TRUE, Array(<<>>)),
    File("following", 1, 5, 1, TRUE, HTML(Two)),
    File("directory", 0, 7, 0, TRUE, [form |-> "other"]),
    File("other", 0, NoDate, 9, FALSE, [form |-> "other"]),
    Summary(5, NoDate, NoDate), Summary(NoDate, 1, 3), Summary(8, 1, 4),
    [Summary(5, 3, 3) EXCEPT !.intact = FALSE],
    [Summary(8, 1, 2) EXCEPT !.size = 2, !.content.owner = Nobody] }

Zipped(entries, intact) ==
  [form |-> "archive", intact |-> intact, entries |-> entries]

SomeFiles ==
  {[form |-> "empty"], Zipped(<<>>, FALSE)}
  \cup {[form |-> "bare", size |-> size, content |-> doc]
          : size \in {1, 4}, doc \in SomeDocuments}
  \cup {Zipped(s, TRUE) : s \in UNION {[1..n -> Parts \cup Others] : n \in 0..3}}
  \cup {Zipped(<<a, b, c, d>>, TRUE) :
          a \in {File("followers", 1, 4, 1, TRUE, Array(One))},
          b, c \in Others, d \in {Summary(8, 1, 4)} \cup Others}
=============================================================================
