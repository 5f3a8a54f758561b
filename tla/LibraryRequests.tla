-------------------------- MODULE LibraryRequests --------------------------
(***************************************************************************)
(* Requests to one library, from arrival to answer: writes, compressed or  *)
(* not, that pass the middleware (RequestAdmission), and a client that     *)
(* reads a listing of items page by page (handlers/objects.rs,             *)
(* item_listing).  A page takes three statements and no transaction: the   *)
(* count, the rows, the library version for the header.  Writes commit     *)
(* between any two of them.  What a write does to the tables is in module  *)
(* LibraryStore; here it replaces or removes an item and takes the next    *)
(* version.                                                                *)
(***************************************************************************)
EXTENDS RequestAdmission, ItemQuery

CONSTANTS
  Contents,        \* the items that are ever written
  InitialItems,    \* the items a library may hold at first
  Queries          \* what the client lists, from its first page on

ASSUME LibraryAssumption ==
  /\ Contents \subseteq Item
  /\ InitialItems \subseteq [ItemKeys -> Item \cup {None}]
  /\ Queries \subseteq Query /\ \A q \in Queries : q.start = 0

VARIABLES
  version,   \* library.version
  items,     \* the items
  stamp,     \* the version of the last write to each key
  walk       \* the client's listing

allVars == <<vars, version, items, stamp, walk>>
library == <<version, items, stamp>>

(* `page` and `header` are of the page last received.  `quiet` records that *)
(* nothing was written since the first page was asked for, `got` all that  *)
(* was received while that holds.                                          *)
NoWalk(q) ==
  [stage |-> "asked", query |-> q, total |-> 0, page |-> <<>>, header |-> 0,
   got |-> <<>>, quiet |-> TRUE]

InitAll ==
  /\ Init
  /\ version = 1
  /\ items \in InitialItems
  /\ stamp = [k \in ItemKeys |-> 1]
  /\ walk \in {NoWalk(q) : q \in Queries}

---------------------------------------------------------------------------
(* The three statements of a page, and the answer.                         *)
Count ==
  /\ walk.stage = "asked"
  /\ walk' = [walk EXCEPT !.stage = "counted", !.total = Total(items, walk.query)]
  /\ UNCHANGED <<vars, library>>

Row(k) == [key |-> k, version |-> stamp[k]]

ReadPage ==
  /\ walk.stage = "counted"
  /\ LET keys == Page(items, walk.query) IN
       walk' = [walk EXCEPT !.stage = "read",
                  !.page = [i \in 1..Len(keys) |-> Row(keys[i])],
                  !.got = IF walk.quiet THEN @ \o keys ELSE @]
  /\ UNCHANGED <<vars, library>>

Respond ==
  /\ walk.stage = "read"
  /\ walk' = [walk EXCEPT !.stage = IF HasNext(walk.query, walk.total) THEN "more" ELSE "end",
                          !.header = version]
  /\ UNCHANGED <<vars, library>>

(* The client follows the link.                                            *)
Follow ==
  /\ walk.stage = "more"
  /\ walk' = [walk EXCEPT !.stage = "asked", !.query = NextQuery(walk.query)]
  /\ UNCHANGED <<vars, library>>

---------------------------------------------------------------------------
Change(k, item) ==
  /\ version' = version + 1
  /\ items' = [items EXCEPT ![k] = item]
  /\ stamp' = [stamp EXCEPT ![k] = version + 1]

(* A write handler commits; or it refuses, or only reads.                  *)
Write(r) ==
  /\ stage[r] = "handling" /\ ask[r].mutating
  /\ \E k \in ItemKeys, item \in Contents \cup {None} :
       items[k] # item /\ Change(k, item)
  /\ walk' = [walk EXCEPT !.quiet = FALSE, !.got = <<>>]
  /\ Move(r, "answered")
  /\ UNCHANGED <<db, ask, queue, free, jobs>>

(* The client writes an item back under the version of the page it has,    *)
(* If-Unmodified-Since-Version; the guard is LibraryStore's.               *)
Edit(k) ==
  /\ walk.stage \in {"more", "end"}
  /\ version = walk.header
  /\ \E i \in DOMAIN walk.page : walk.page[i].key = k
  /\ \E item \in Contents : Change(k, item)
  /\ walk' = [walk EXCEPT !.stage = "done"]
  /\ UNCHANGED vars

Listed == Count \/ ReadPage \/ Respond \/ Follow

NextAll ==
  \/ Next /\ UNCHANGED <<library, walk>>
  \/ Listed
  \/ \E r \in Requests : Write(r)
  \/ \E k \in ItemKeys : Edit(k)

SpecAll == InitAll /\ [][NextAll]_allVars

(* The server finishes a page it has begun and the client follows links.   *)
FairSpecAll == SpecAll /\ Fairness /\ WF_allVars(Listed)

---------------------------------------------------------------------------
(* While nothing is written, following the links to the end yields every   *)
(* matching item once and in order, as many as Total-Results says, and the *)
(* same items as format=keys: the count, the pages, the links and the key  *)
(* list agree on what matches and where a page begins.                     *)
WalkExact ==
  walk.quiet /\ walk.stage = "end" =>
    /\ walk.got = Listing(items, walk.query)
    /\ Len(walk.got) = walk.total
    /\ Ascending({walk.got[i] : i \in DOMAIN walk.got}) = KeyListing(items, walk.query)

(* A client that follows the links gets to the end, whatever is written    *)
(* meanwhile: every link leads on, also when the total shrinks or grows.   *)
WalkEnds == <>(walk.stage \in {"end", "done"})

(* A write accepted under the version of a page replaces nothing its       *)
(* author has not seen (README.md:19, "If-Unmodified-Since-Version writes  *)
(* stay coherent").                                                        *)
NoUnseenOverwrite ==
  [][\A k \in ItemKeys : Edit(k) =>
       \E i \in DOMAIN walk.page : walk.page[i] = Row(k)]_allVars
=============================================================================
