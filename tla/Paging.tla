------------------------------- MODULE Paging -------------------------------
(***************************************************************************)
(* Lists that are read page by page: ListObjects with the iterator of      *)
(* cmd/ox/cmd/root, and GetObjectState with the loop of `ox ls' and `ox    *)
(* export' (internal/sqlite/sqlite.go:162-205, 283-402).  Each request is  *)
(* a query of its own, between which the index may change: a page goes on  *)
(* behind the last row of the page before.                                 *)
(*                                                                         *)
(* Rows are numbers in the order of the query (object ids, or names in a   *)
(* directory), and 0 is the empty cursor. One command is followed from its *)
(* start, with the part of the index that it reads. The versions of an     *)
(* object are as in IndexStore: they are added, or go with the object, and *)
(* their trees do not change.                                              *)
(***************************************************************************)
EXTENDS Integers, FiniteSetsExt

CONSTANTS
  Ids,         \* objects the index may have
  NumVersions, \* versions one of them may have
  State,       \* the names in each version's directory
  PageSizes,   \* page_size of requests
  MaxLimit,    \* 1000, which is defaultLimit as well
  MaxChanges,  \* bound: how often the index changes during the command
  MaxFaults    \* bound: how many queries fail

Head == 0
Versions == 1..NumVersions

ASSUME PagingAssumption ==
  /\ Ids \subseteq Nat \ {0} /\ IsFiniteSet(Ids)
  /\ NumVersions \in Nat \ {0}
  /\ State \in [Versions -> SUBSET (Nat \ {0})]
  /\ \A v \in Versions : IsFiniteSet(State[v])
  /\ PageSizes \subseteq Int
  /\ MaxLimit \in Nat \ {0}
  /\ MaxChanges \in Nat
  /\ MaxFaults \in Nat

VARIABLES
  objects,     \* ids in the index
  head,        \* the newest version of the object that is listed, 0 if it is
               \* not in the index
  cmd,         \* "objects": list of objects; "state": of a version's state
  pageSize,
  wanted,      \* the version asked for, or Head
  pc,          \* "next", "item" (a page has come for Next), "children" (between
               \* the two queries of GetObjectState), "page" (it has answered),
               \* "done", "failed"
  node,        \* the version whose directory node the first query has found
  asked,       \* the iterator has had an answer: results is not nil
  results,     \* the rows of the last page
  left,        \* those the client has not come to
  nextPage,
  out,         \* rows the client has listed
  kept, seen,  \* ids that were in the index all the time, or once (history)
  read,        \* versions that pages came from (history)
  cut,         \* the error of a query was dropped (history)
  changes, faults

indexVars == <<objects, head, kept, seen, changes>>
requestVars == <<cmd, pageSize, wanted>>
pageVars == <<asked, results, left, nextPage>>
vars == <<indexVars, requestVars, pc, node, pageVars, out, read, cut, faults>>

Init ==
  /\ \/ /\ cmd = "objects"
        /\ objects \in SUBSET Ids
        /\ head = 0 /\ wanted = Head
     \/ /\ cmd = "state"
        /\ objects = {}
        /\ head \in {0} \cup Versions
        /\ wanted \in {Head} \cup Versions
  /\ pageSize \in PageSizes
  /\ pc = "next"
  /\ node = 0
  /\ asked = FALSE
  /\ results = {}
  /\ left = {}
  /\ nextPage = 0
  /\ out = {}
  /\ kept = objects
  /\ seen = objects
  /\ read = {}
  /\ cut = FALSE
  /\ changes = 0
  /\ faults = 0

Fault == faults < MaxFaults /\ faults' = faults + 1
Listing == pc \notin {"done", "failed"}

-----------------------------------------------------------------------------
(* Slips that the code avoids, each a variant of one definition below: they *)
(* take no part in the specification.                                       *)

\* WHERE name >= cursor
FromCursor(rows, cursor) == {r \in rows : r >= cursor}

\* The cursor is the row that was read to see whether there are more.
CursorOfExtraRow(found, page) == Max(found)

\* The query of GetObjectState has no row more than the page.
NoExtraRow(lim) == lim

\* The iterator does not look whether there is a next page.
FetchAlways == ~asked \/ (left = {} /\ results # {})

-----------------------------------------------------------------------------
(* Queries *)

AfterCursor(rows, cursor) == {r \in rows : r > cursor}

\* ORDER BY ... LIMIT n, where a negative n is no limit
Limited(rows, n) ==
  IF n < 0 THEN rows ELSE {r \in rows : Cardinality({q \in rows : q < r}) < n}

ListLimit(size) == IF size < 1 \/ size > MaxLimit THEN MaxLimit ELSE size

StateLimit(size) == IF size = 0 \/ size > MaxLimit THEN MaxLimit ELSE size

CursorOf(found, page) == Max(page)

\* One row more than fits says that there is a next page.
Page(found, lim) ==
  LET more == Cardinality(found) = lim + 1
      page == IF more THEN found \ {Max(found)} ELSE found
  IN  [rows |-> page, next |-> IF more THEN CursorOf(found, page) ELSE 0]

ListObjects(size, cursor) ==
  LET lim == ListLimit(size) IN Page(Limited(AfterCursor(objects, cursor), lim + 1), lim)

ChildrenLimit(lim) == lim + 1

Children(v, size, cursor) ==
  Limited(AfterCursor(State[v], cursor), ChildrenLimit(StateLimit(size)))

-----------------------------------------------------------------------------
(* ListObjectsIterator, called by listObjects until it says io.EOF *)

NeedNextPage == ~asked \/ (nextPage # 0 /\ left = {} /\ results # {})

FetchPage ==
  /\ cmd = "objects" /\ pc = "next"
  /\ NeedNextPage
  /\ LET answer == ListObjects(pageSize, nextPage)
     IN  /\ results' = answer.rows
         /\ left' = answer.rows
         /\ nextPage' = answer.next
  /\ asked' = TRUE
  /\ pc' = "item"
  /\ UNCHANGED <<indexVars, requestVars, node, out, read, cut, faults>>

\* listObjects gives up.
FetchFails ==
  /\ cmd = "objects" /\ pc = "next"
  /\ NeedNextPage
  /\ Fault
  /\ pc' = "failed"
  /\ UNCHANGED <<indexVars, requestVars, node, pageVars, out, read, cut>>

InPage == cmd = "objects" /\ (pc = "item" \/ (pc = "next" /\ ~NeedNextPage))

ReturnItem ==
  /\ InPage
  /\ left # {}
  /\ out' = out \cup {Min(left)}
  /\ left' = left \ {Min(left)}
  /\ pc' = "next"
  /\ UNCHANGED <<indexVars, requestVars, node, asked, results, nextPage, read, cut, faults>>

ReturnEOF ==
  /\ InPage
  /\ left = {}
  /\ pc' = "done"
  /\ UNCHANGED <<indexVars, requestVars, node, pageVars, out, read, cut, faults>>

-----------------------------------------------------------------------------
(* GetObjectState, of a directory, called until there is no next page *)

Version == IF wanted = Head THEN head ELSE wanted

GetNodeByPath ==
  /\ cmd = "state" /\ pc = "next"
  /\ IF Version \in 1..head
       THEN node' = Version /\ pc' = "children"
       ELSE node' = node /\ pc' = "failed"
  /\ UNCHANGED <<indexVars, requestVars, pageVars, out, read, cut, faults>>

GetNodeFails ==
  /\ cmd = "state" /\ pc = "next"
  /\ Fault
  /\ pc' = "failed"
  /\ UNCHANGED <<indexVars, requestVars, node, pageVars, out, read, cut>>

\* result.Children[:lim] panics for a negative lim that has its row more.
SliceFails(found, lim) == lim < 0 /\ Cardinality(found) = lim + 1

AnswerWith(found) ==
  LET lim == StateLimit(pageSize)
      page == Page(found, lim)
  IN  IF SliceFails(found, lim)
        THEN pc' = "failed" /\ UNCHANGED <<pageVars, read>>
        ELSE /\ results' = page.rows
             /\ left' = page.rows
             /\ nextPage' = page.next
             /\ read' = read \cup {node}
             /\ pc' = "page"
             /\ UNCHANGED asked

GetChildren ==
  /\ cmd = "state" /\ pc = "children"
  /\ AnswerWith(Children(node, pageSize, nextPage))
  /\ UNCHANGED <<indexVars, requestVars, node, out, cut, faults>>

\* errFn(err) makes an error of which nothing is done, and rows.Err is not asked:
\* the rows that came before the error are taken for all.
ChildrenFail ==
  /\ cmd = "state" /\ pc = "children"
  /\ Fault
  /\ LET rows == Children(node, pageSize, nextPage)
     IN  \E n \in 0..Cardinality(rows) : AnswerWith(Limited(rows, n))
  /\ cut' = TRUE
  /\ UNCHANGED <<indexVars, requestVars, node, out>>

TakePage ==
  /\ pc = "page"
  /\ out' = out \cup left
  /\ left' = {}
  /\ pc' = IF nextPage = 0 THEN "done" ELSE "next"
  /\ UNCHANGED <<indexVars, requestVars, node, asked, results, nextPage, read, cut, faults>>

-----------------------------------------------------------------------------
(* The index changes: an indexing task commits. *)

Change == Listing /\ changes < MaxChanges /\ changes' = changes + 1
UnchangedClient ==
  UNCHANGED <<requestVars, pc, node, pageVars, out, read, cut, faults>>

ChangeObjects(ids) ==
  /\ cmd = "objects"
  /\ Change
  /\ objects' = ids
  /\ kept' = kept \cap ids
  /\ seen' = seen \cup ids
  /\ UNCHANGED head
  /\ UnchangedClient

\* Versions are added, or the object is removed, or indexed when it is not there.
ChangeVersions(v) ==
  /\ cmd = "state"
  /\ Change
  /\ v = 0 \/ v > head
  /\ head' = v
  /\ UNCHANGED <<objects, kept, seen>>
  /\ UnchangedClient

-----------------------------------------------------------------------------
Ended == ~Listing /\ UNCHANGED vars

ClientStep ==
  \/ FetchPage \/ FetchFails \/ ReturnItem \/ ReturnEOF
  \/ GetNodeByPath \/ GetNodeFails \/ GetChildren \/ ChildrenFail \/ TakePage

Next ==
  \/ ClientStep
  \/ \E ids \in SUBSET Ids : ChangeObjects(ids)
  \/ \E v \in {0} \cup Versions : ChangeVersions(v)
  \/ Ended

Spec == Init /\ [][Next]_vars

\* The client goes on, and the server answers.
FairSpec == Spec /\ WF_vars(ClientStep)

-----------------------------------------------------------------------------
Rows == Ids \cup UNION {State[v] : v \in Versions}

\* A page has no more rows than fit: "max 1000" (index.proto:60).  A negative
\* page_size of GetObjectState is no limit (sqlite.go:284-289).
PageFits == cmd = "objects" \/ pageSize >= 0 => Cardinality(results) <= MaxLimit

TypeOK ==
  /\ objects \subseteq Ids
  /\ head \in {0} \cup Versions
  /\ cmd \in {"objects", "state"}
  /\ pageSize \in PageSizes
  /\ wanted \in {Head} \cup Versions
  /\ pc \in {"next", "item", "children", "page", "done", "failed"}
  /\ node \in {0} \cup Versions
  /\ asked \in BOOLEAN
  /\ results \subseteq Rows /\ left \subseteq results
  /\ nextPage \in {0} \cup Rows
  /\ out \subseteq Rows
  /\ kept \subseteq objects /\ objects \subseteq seen /\ seen \subseteq Ids
  /\ read \subseteq Versions
  /\ cut \in BOOLEAN
  /\ changes \in 0..MaxChanges
  /\ faults \in 0..MaxFaults
  /\ PageFits

\* Rows are listed in order, none of them twice, although rows come and go
\* between two pages: what is still to come of a page is behind all that was
\* listed ("in lexigraphical order by ID", index.proto:24; sqlite.go:336-341).
ListedInOrder == \A o \in out, r \in left : o < r

\* A list of objects that comes to its end has all that were in the index all the
\* time, and none that never was (root.go:136-176, sqlite.go:163-187).
ObjectsComplete == cmd = "objects" /\ pc = "done" => kept \subseteq out /\ out \subseteq seen

\* The state of a version is listed as it is, whatever is indexed meanwhile, if no
\* error was dropped: also for the newest version, unless pages came from two
\* (export.go:113-144, sqlite.go:283-342).
StateComplete ==
  cmd = "state" /\ pc = "done" /\ ~cut =>
    /\ \A v \in Versions : read = {v} => out = State[v]
    /\ wanted # Head => read = {wanted}

\* What makes the three properties above inductive.  Of the rows that have come, the ones
\* behind the cursor are still to be asked for.
Come == out \cup left
Before(rows, cursor) == {r \in rows : cursor = 0 \/ r <= cursor}

CursorInv ==
  /\ ListedInOrder
  /\ nextPage # 0 => results # {} /\ \A r \in Come : r <= nextPage

\* Objects come and go: of those that stay, the ones before the cursor have come.
ObjectsInv ==
  cmd = "objects" =>
    /\ pc \in {"next", "item", "done", "failed"}
    /\ Come \subseteq seen
    /\ IF asked THEN Before(kept, nextPage) \subseteq Come
                ELSE Come = {} /\ nextPage = 0 /\ pc \in {"next", "failed"}
    /\ pc = "item" => left = results
    /\ pc = "done" => nextPage = 0 /\ left = {}

\* Rows of a version's state do not: exactly the ones before the cursor have come.
StateInv ==
  cmd = "state" =>
    /\ pc \in {"next", "children", "page", "done", "failed"}
    /\ pc # "page" => left = {}
    /\ pc \in {"next", "children"} /\ nextPage = 0 => read = {} /\ out = {}
    /\ nextPage # 0 \/ pc \in {"page", "done"} => read # {}
    /\ pc = "done" => nextPage = 0
    /\ pc = "children" => node \in Versions /\ (wanted # Head => node = wanted)
    /\ wanted # Head => read \subseteq {wanted}
    /\ ~cut => \A v \in Versions : read = {v} => Come = Before(State[v], nextPage)

PagingInv == TypeOK /\ CursorInv /\ ObjectsInv /\ StateInv

\* A command comes to its end: every page is behind the one before, and there is no
\* next page after the last row (root.go:168-176, sqlite.go:338-341).
ListingEnds == <>~Listing
=============================================================================
