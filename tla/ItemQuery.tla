----------------------------- MODULE ItemQuery -----------------------------
(***************************************************************************)
(* The item query of the read API: query.rs, which parses it, and the SQL  *)
(* of store/objects.rs that answers it.                                    *)
(*                                                                         *)
(* `items` maps each key to its item or None.  An item is what the         *)
(* generated columns make of its document: its type (None when it has      *)
(* none), whether it is top-level and in the trash, its tags, the          *)
(* collections it is in, the terms its title, creators and date contain    *)
(* and those its full text contains, and the value of the sort field.      *)
(***************************************************************************)
EXTENDS Integers, Sequences, FiniteSets, Sorting

CONSTANTS
  ItemKeys,       \* keys, as numbers in the order of their text
  Types,          \* item types, "note" among them
  Tags, Collections, Terms,
  DefaultLimit,   \* 25 in the code
  MaxLimit,       \* 100 in the code
  None

ASSUME QueryAssumption ==
  /\ ItemKeys \subseteq Nat /\ IsFiniteSet(ItemKeys)
  /\ None \notin Types \cup Collections \cup Terms /\ None \notin Int
  /\ DefaultLimit \in 1..MaxLimit /\ MaxLimit \in Nat

Item == [type : Types \cup {None}, top : BOOLEAN, deleted : BOOLEAN,
         tags : SUBSET Tags, collections : SUBSET Collections,
         text : SUBSET Terms, fulltext : SUBSET Terms, sort : Nat \cup {None}]

(* ItemQuery, with the notes permission of the request.  `tags` is a set   *)
(* of groups of alternatives.                                              *)
Query == [notes : BOOLEAN, trash : {"without", "with", "only"},
          q : Terms \cup {None}, everything : BOOLEAN,
          include : SUBSET Types, exclude : SUBSET Types,
          tags : SUBSET (SUBSET Tags \ {{}}), top : BOOLEAN,
          collection : Collections \cup {None},
          descending : BOOLEAN, start : Nat, limit : 1..MaxLimit]

(* Parsing: a limit that is missing, no number or not positive is the      *)
(* default, a start that is negative is 0.                                 *)
PageLimit(n) ==
  IF n = None \/ n < 1 THEN DefaultLimit ELSE IF n > MaxLimit THEN MaxLimit ELSE n
PageStart(n) == IF n = None \/ n < 0 THEN 0 ELSE n

(* push_item_filters: one predicate for the count, the page and the keys.  *)
(* A comparison with a missing type is not true, so an item without a type *)
(* matches no list of types, included or excluded.                         *)
Found(item, q) ==
  q.q # None => q.q \in item.text \/ (q.everything /\ q.q \in item.fulltext)

OfType(item, q) ==
  /\ q.include # {} => item.type \in q.include
  /\ q.exclude # {} => item.type # None /\ item.type \notin q.exclude

Tagged(item, q) == \A group \in q.tags : group \cap item.tags # {}

Matches(item, q) ==
  /\ ~q.notes => item.type # "note"
  /\ q.trash = "only" => item.deleted
  /\ q.trash = "without" => ~item.deleted
  /\ Found(item, q) /\ OfType(item, q) /\ Tagged(item, q)
  /\ q.top => item.top
  /\ q.collection # None => q.collection \in item.collections

Matching(items, q) == {k \in ItemKeys : items[k] # None /\ Matches(items[k], q)}

(* order by <field> asc|desc nulls last, key asc                           *)
Precedes(items, q, j, k) ==
  LET a == items[j].sort
      b == items[k].sort
  IN \/ a # None /\ b = None
     \/ a # None /\ b # None /\ IF q.descending THEN a > b ELSE a < b
     \/ a = b /\ j < k

Listing(items, q) ==
  CHOOSE s \in [1..Cardinality(Matching(items, q)) -> Matching(items, q)] :
    \A i, j \in DOMAIN s : i < j => Precedes(items, q, s[i], s[j])

Total(items, q) == Cardinality(Matching(items, q))

(* limit .. offset ..                                                      *)
Window(rows, first, last) == SubSeq(rows, first, IF last < Len(rows) THEN last ELSE Len(rows))
MutantPage(items, q) == Window(Listing(items, q), q.start + 1, q.start + q.limit + 1)  \* mutant: one more
Page(items, q) == Window(Listing(items, q), q.start + 1, q.start + q.limit)

(* format=keys: everything that matches, by key.                           *)
KeyListing(items, q) == Ascending(Matching(items, q))

(* item_listing: the next page's link, while more rows remain.             *)
HasNext(q, total) == q.start + q.limit < total
MutantNextQuery(q) == q        \* mutant: the old start is kept
NextQuery(q) == [q EXCEPT !.start = PageStart(q.start + q.limit)]
=============================================================================
