------------------------- MODULE MCLibraryRequests -------------------------
(* A write of several kinds, a compressed write and a compressed login     *)
(* request beside a listing by one of several queries over three items.    *)
EXTENDS LibraryRequests, MCAccessRules

CONSTANTS r1, r2, r3

MCRequests == {r1, r2, r3}

Ask(route, credential, mutating, gzip) ==
  [route |-> route, user |-> owner, credential |-> credential,
   mutating |-> mutating, file |-> FALSE, gzip |-> gzip]

MCAsks(r) ==
  IF r = r1
  THEN {Ask("personal", k1, TRUE, FALSE), Ask("personal", k2, TRUE, TRUE),
        Ask("upload", nokey, FALSE, TRUE)}
  ELSE IF r = r2 THEN {Ask("personal", k1, TRUE, TRUE)}
  ELSE {Ask("public", nokey, FALSE, TRUE)}

MCTables == {TablesWith("members", "members", "member", {"library", "write"}, Absent)}

MCTypes == {"note", "book"}
MCTags == {"x", "y"}
MCCollections == {"c"}
MCTerms == {"t"}

Book(sort) == [type |-> "book", top |-> TRUE, deleted |-> FALSE, tags |-> {"x"},
               collections |-> {"c"}, text |-> {"t"}, fulltext |-> {}, sort |-> sort]
Note == [Book(None) EXCEPT !.type = "note", !.top = FALSE, !.tags = {"x", "y"},
                           !.text = {}, !.fulltext = {"t"}, !.collections = {}]
Trashed == [Book(2) EXCEPT !.deleted = TRUE, !.type = None]

MCContents == {Book(1)}
MCInitialItems == {(1 :> Note) @@ (2 :> Trashed) @@ (3 :> Book(2))}

AllItems == [notes |-> TRUE, trash |-> "with", q |-> None, everything |-> FALSE,
             include |-> {}, exclude |-> {}, tags |-> {}, top |-> FALSE,
             collection |-> None, descending |-> TRUE, start |-> 0,
             limit |-> PageLimit(1)]

MCQueries ==
  {AllItems,
   [AllItems EXCEPT !.notes = FALSE, !.descending = FALSE, !.limit = PageLimit(None),
                    !.top = TRUE, !.collection = "c", !.exclude = {"note"}],
   [AllItems EXCEPT !.q = "t", !.everything = TRUE, !.trash = "without", !.tags = {{"x"}, {"x", "y"}}]}
=============================================================================
