----------------------------- MODULE Pagination -----------------------------
(***************************************************************************)
(* GET /api/users with a cursor (userUseCase.List, Repository.List,        *)
(* listUsers and listUsersPrev, NewBidirectionalCursorPage): a client      *)
(* walks the pages forward and back while rows enter and leave what the    *)
(* filter selects.                                                         *)
(*                                                                         *)
(* Every page is in ascending order of id, so a page is the set of its     *)
(* ids.  LIMIT is what SQL says it is: a leading part of the ordered rows, *)
(* all of them unless that is too many.                                    *)
(***************************************************************************)
EXTENDS Integers, FiniteSets

CONSTANTS
  RowIds,       \* ids, numbers in the order of the primary key
  Limits,       \* page sizes clients ask for
  DefaultLimit, \* page size when the request names none
  MaxLimit,     \* largest page
  NoCursor      \* no cursor

ASSUME PageInputs ==
  /\ RowIds \subseteq Int /\ IsFiniteSet(RowIds)
  /\ Limits \subseteq Int
  /\ DefaultLimit \in Nat \ {0} /\ MaxLimit \in Nat \ {0} /\ DefaultLimit <= MaxLimit
  /\ NoCursor \notin [id: RowIds, dir: {"next", "prev"}]

VARIABLES
  listed,       \* the rows the filter selects
  size,         \* the limit the client asks for
  page,         \* the page the client holds
  walking,      \* the client has gone from the first page forward only
  seen,         \* the ids of the pages of this walk
  stayed,       \* the rows that were listed all through this walk
  repeated,     \* some id came twice in this walk
  steady,       \* no row has entered or left since the page was fetched
  from          \* the page from which one step forward led to this one, if no
                \* row entered or left since it was fetched; else {}

pageVars == <<listed, size, page, walking, seen, stayed, repeated, steady, from>>

Cursors == [id: RowIds, dir: {"next", "prev"}]
Page == [items: SUBSET RowIds, hasMore: BOOLEAN, hasPrev: BOOLEAN,
         next: Cursors \cup {NoCursor}, prev: Cursors \cup {NoCursor}]

PageTypeOK ==
  /\ listed \subseteq RowIds /\ seen \subseteq RowIds /\ stayed \subseteq RowIds
  /\ from \subseteq RowIds /\ size \in Limits
  /\ page \in Page
  /\ walking \in BOOLEAN /\ repeated \in BOOLEAN /\ steady \in BOOLEAN

NormalizeLimit(limit) ==
  IF limit <= 0 THEN DefaultLimit ELSE IF limit > MaxLimit THEN MaxLimit ELSE limit

(* ORDER BY id ASC LIMIT k and ORDER BY id DESC LIMIT k of the rows S. *)
Lowest(S, k) ==
  { F \in SUBSET S : /\ \A x \in F, y \in S \ F : x < y
                     /\ Cardinality(F) <= k
                     /\ F # S => Cardinality(F) = k }
Highest(S, k) ==
  { F \in SUBSET S : /\ \A x \in F, y \in S \ F : x > y
                     /\ Cardinality(F) <= k
                     /\ F # S => Cardinality(F) = k }

ListUsers(c) == { i \in listed : c = NoCursor \/ i > c.id }
ListUsersPrev(c) == { i \in listed : c = NoCursor \/ i < c.id }

Backward(c) == c # NoCursor /\ c.dir = "prev"

(* Repository.List: one row more than the page. *)
RepoList(c, limit) ==
  IF Backward(c) THEN Highest(ListUsersPrev(c), limit + 1) ELSE Lowest(ListUsers(c), limit + 1)

(* Faulty variant: the extra row is cut off at the same end both ways. *)
TrimEnd(F, c, limit) == Lowest(F, limit)

(* The extra row is the last one going forward, the first one going back. *)
Trim(F, c, limit) == IF Backward(c) THEN Highest(F, limit) ELSE Lowest(F, limit)

FirstId(S) == CHOOSE i \in S : \A j \in S : i <= j
LastId(S) == CHOOSE i \in S : \A j \in S : i >= j

(* Faulty variant: the next page starts after the row that was only        *)
(* fetched to see whether there is more.                                   *)
NextCursorExtra(F, D) == [id |-> LastId(F), dir |-> "next"]

NextCursor(F, D) == [id |-> LastId(D), dir |-> "next"]
PrevCursor(F, D) == [id |-> FirstId(D), dir |-> "prev"]

(* F: the rows fetched; D: those of the page. *)
NewBidirectionalCursorPage(F, D, limit, c) ==
  LET extra == Cardinality(F) > limit
      more  == IF Backward(c) THEN TRUE ELSE extra
      back  == IF Backward(c) THEN extra ELSE c # NoCursor
  IN [items |-> D, hasMore |-> more, hasPrev |-> back,
      next |-> IF D # {} /\ more THEN NextCursor(F, D) ELSE NoCursor,
      prev |-> IF D # {} /\ back THEN PrevCursor(F, D) ELSE NoCursor]

(* userUseCase.List. *)
List(c) ==
  \E F \in RepoList(c, NormalizeLimit(size)) :
  \E D \in Trim(F, c, NormalizeLimit(size)) :
    page' = NewBidirectionalCursorPage(F, D, NormalizeLimit(size), c)

PageInit ==
  /\ listed \in SUBSET RowIds
  /\ size \in Limits
  /\ page = [items |-> {}, hasMore |-> FALSE, hasPrev |-> FALSE,
             next |-> NoCursor, prev |-> NoCursor]
  /\ walking = FALSE /\ repeated = FALSE /\ steady = FALSE
  /\ seen = {} /\ stayed = {} /\ from = {}

FirstPage ==
  /\ List(NoCursor)
  /\ walking' = TRUE /\ repeated' = FALSE
  /\ seen' = page'.items /\ stayed' = listed /\ steady' = TRUE /\ from' = {}
  /\ UNCHANGED <<listed, size>>

NextPage ==
  /\ page.next # NoCursor
  /\ List(page.next)
  /\ seen' = seen \cup page'.items
  /\ repeated' = (repeated \/ seen \cap page'.items # {})
  /\ steady' = TRUE /\ from' = IF steady THEN page.items ELSE {}
  /\ UNCHANGED <<listed, size, walking, stayed>>

PrevPage ==
  /\ page.prev # NoCursor
  /\ List(page.prev)
  /\ walking' = FALSE /\ repeated' = FALSE
  /\ seen' = {} /\ stayed' = {} /\ steady' = TRUE /\ from' = {}
  /\ UNCHANGED <<listed, size>>

(* A row is created, activated, renamed...: it enters or leaves the list. *)
RowEnters(i) ==
  /\ i \notin listed
  /\ listed' = listed \cup {i}
  /\ steady' = FALSE /\ from' = {}
  /\ UNCHANGED <<size, page, walking, seen, stayed, repeated>>

RowLeaves(i) ==
  /\ i \in listed
  /\ listed' = listed \ {i}
  /\ stayed' = stayed \ {i}
  /\ steady' = FALSE /\ from' = {}
  /\ UNCHANGED <<size, page, walking, seen, repeated>>

PageNext ==
  \/ FirstPage \/ NextPage \/ PrevPage
  \/ \E i \in RowIds : RowEnters(i) \/ RowLeaves(i)

PageSpec == PageInit /\ [][PageNext]_pageVars

(***************************************************************************)
(* Properties.                                                             *)
(***************************************************************************)
(* A walk forward shows no row twice, and when it has come from the first  *)
(* page to the page without has_more it has shown every row that was       *)
(* listed all the while, however other rows came and went between pages.   *)
WalkExact == walking => /\ ~repeated
                        /\ ~page.hasMore => stayed \subseteq seen

(* One page forward and one back is the same page again, if no row entered *)
(* or left: both cursors exclude their own row and the extra row is cut    *)
(* off at the far end.                                                     *)
ThereAndBack == [][PrevPage /\ from # {} => page'.items = from]_pageVars

(* The cursor is there whenever the page says there is more: a client that *)
(* trusts has_more can go on.                                              *)
MoreHasCursor == page.hasMore => page.next # NoCursor
=============================================================================
