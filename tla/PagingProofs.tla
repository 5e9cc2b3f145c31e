----------------------------- MODULE PagingProofs -----------------------------
(***************************************************************************)
(* Proofs about Paging, for every index, page size and number of changes:  *)
(* pages that are queried one by one, while rows come and go, make a list  *)
(* in order, with nothing twice and nothing missing that stayed.           *)
(***************************************************************************)
EXTENDS Paging, FiniteSetTheorems, WellFoundedInduction, TLAPS

-----------------------------------------------------------------------------
(* The ends of finite sets of numbers *)

LEMMA MinExists ==
  ASSUME NEW S, S \subseteq Nat, S # {}
  PROVE  \E x \in S : \A y \in S : x <= y
<1>1. \E x \in S : \A y \in S : ~(<<y, x>> \in OpToRel(<, Nat))
  BY NatLessThanWellFounded, WFMin, Zenon
<1>2. PICK x \in S : \A y \in S : ~(<<y, x>> \in OpToRel(<, Nat))
  BY <1>1, Zenon
<1>3. \A y \in S : ~(y < x)
  BY <1>2 DEF OpToRel
<1> QED
  BY <1>3

LEMMA MinIsLeast ==
  ASSUME NEW S, S \subseteq Nat, S # {}
  PROVE  Min(S) \in S /\ \A y \in S : Min(S) <= y
<1>1. \E x \in S : \A y \in S : x <= y
  BY MinExists
<1> DEFINE Least(x) == x \in S /\ \A y \in S : x <= y
<1>2. Least(Min(S))
  BY <1>1, Zenon DEF Min
<1> QED
  BY <1>2

\* Of all elements, the one with the fewest above it has none.
LEMMA MaxIsLargest ==
  ASSUME NEW S, S \subseteq Nat, S # {}, IsFiniteSet(S)
  PROVE  Max(S) \in S /\ \A y \in S : y <= Max(S)
<1> DEFINE Above(x) == {y \in S : y > x}
           sizes == {Cardinality(Above(x)) : x \in S}
<1>1. \A x \in S : IsFiniteSet(Above(x)) /\ Cardinality(Above(x)) \in Nat
  <2> SUFFICES ASSUME NEW x \in S PROVE IsFiniteSet(Above(x)) /\ Cardinality(Above(x)) \in Nat
    OBVIOUS
  <2>1. Above(x) \in SUBSET S
    OBVIOUS
  <2>2. IsFiniteSet(Above(x))
    BY <2>1, FS_Subset
  <2> QED
    BY <2>2, FS_CardinalityType
<1>2. PICK x \in S : \A z \in S : Cardinality(Above(x)) <= Cardinality(Above(z))
  <2>1. sizes \subseteq Nat /\ sizes # {}
    BY <1>1
  <2>2. PICK n \in sizes : \A m \in sizes : n <= m
    BY <2>1, MinExists
  <2> HIDE DEF Above
  <2> QED
    BY <2>2
<1>3. ASSUME NEW y \in S, y > x PROVE FALSE
  <2> DEFINE more == Above(x)
             fewer == Above(y)
  <2>1. fewer \in SUBSET more /\ y \in more /\ y \notin fewer
    <3>1. x \in Nat /\ y \in Nat /\ \A z \in S : z \in Nat
      OBVIOUS
    <3>2. \A z \in S : z > y => z > x
      BY <1>3, <3>1
    <3>3. fewer \in SUBSET more
      BY <3>2
    <3>4. y \in more /\ y \notin fewer
      BY <1>3, <3>1
    <3> QED
      BY <3>3, <3>4
  <2>2. /\ IsFiniteSet(more) /\ Cardinality(more) \in Nat /\ Cardinality(fewer) \in Nat
        /\ Cardinality(more) <= Cardinality(fewer)
    BY <1>1, <1>2
  <2> HIDE DEF more, fewer
  <2>3. Cardinality(fewer) <= Cardinality(more) /\ (Cardinality(more) = Cardinality(fewer) => more = fewer)
    BY <2>1, <2>2, FS_Subset
  <2> QED
    BY <2>1, <2>2, <2>3
<1>4. \A y \in S : x >= y
  BY <1>3
<1> DEFINE Largest(k) == k \in S /\ \A y \in S : k >= y
<1>5. Largest(Max(S))
  BY <1>4, Zenon DEF Max
<1> QED
  BY <1>5

-----------------------------------------------------------------------------
(* Pages *)

\* LIMIT takes the first rows: all, if there are not more than its number.
LEMMA LimitedIsPrefix ==
  ASSUME NEW rows, rows \subseteq Nat, IsFiniteSet(rows), NEW n \in Nat
  PROVE  /\ \A r \in Limited(rows, n), q \in rows : q <= r => q \in Limited(rows, n)
         /\ Cardinality(Limited(rows, n)) <= n
         /\ Cardinality(Limited(rows, n)) # n => Limited(rows, n) = rows
<1> DEFINE Below(r) == {q \in rows : q < r}
           taken == {r \in rows : Cardinality(Below(r)) < n}
<1>1. Limited(rows, n) = taken
  BY DEF Limited
<1>2. \A r \in rows : IsFiniteSet(Below(r)) /\ Cardinality(Below(r)) \in Nat
  <2> SUFFICES ASSUME NEW r \in rows PROVE IsFiniteSet(Below(r)) /\ Cardinality(Below(r)) \in Nat
    OBVIOUS
  <2>1. Below(r) \in SUBSET rows
    OBVIOUS
  <2>2. IsFiniteSet(Below(r))
    BY <2>1, FS_Subset
  <2> QED
    BY <2>2, FS_CardinalityType
<1>3. \A r \in taken, q \in rows : q <= r => q \in taken
  <2> SUFFICES ASSUME NEW r \in taken, NEW q \in rows, q <= r
               PROVE  Cardinality(Below(q)) < n
    OBVIOUS
  <2>2. r \in rows /\ Cardinality(Below(r)) < n
    OBVIOUS
  <2> HIDE DEF taken
  <2>1. Below(q) \in SUBSET Below(r)
    <3> SUFFICES ASSUME NEW x \in rows, x < q PROVE x < r
      OBVIOUS
    <3>1. x \in Nat /\ q \in Nat /\ r \in Nat
      BY <2>2
    <3> QED
      BY <3>1
  <2> HIDE DEF Below
  <2>3. Cardinality(Below(q)) <= Cardinality(Below(r))
    BY <1>2, <2>1, <2>2, FS_Subset
  <2> QED
    BY <1>2, <2>2, <2>3
<1>4. taken \in SUBSET rows /\ \A r \in rows : r \in taken <=> Cardinality(Below(r)) < n
  OBVIOUS
<1>5. IsFiniteSet(taken) /\ Cardinality(taken) \in Nat
  BY <1>4, FS_Subset, FS_CardinalityType
<1>6. Cardinality(taken) <= n
  <2>1. CASE taken = {}
    <3> HIDE DEF taken
    <3> QED
      BY <2>1, FS_EmptySet
  <2>2. CASE taken # {}
    <3>1. Max(taken) \in taken /\ \A r \in taken : r <= Max(taken)
      BY <1>4, <1>5, <2>2, MaxIsLargest
    <3>2. taken = Below(Max(taken)) \cup {Max(taken)}
      <4> DEFINE m == Max(taken)
      <4>1. m \in taken /\ \A r \in taken : r <= m
        BY <3>1
      <4> HIDE DEF m, taken
      <4>2. \A q \in rows : q < m => q \in taken
        BY <1>3, <1>4, <4>1
      <4>3. \A r \in taken : r \in rows /\ (r < m \/ r = m)
        BY <1>4, <4>1
      <4> QED
        BY <4>1, <4>2, <4>3 DEF m
    <3>3. Cardinality(taken) <= Cardinality(Below(Max(taken))) + 1
      <4>1. IsFiniteSet(Below(Max(taken))) /\ Cardinality(Below(Max(taken))) \in Nat
        BY <1>2, <1>4, <3>1
      <4> DEFINE below == Below(Max(taken))
                 m == Max(taken)
      <4>2. taken = below \cup {m} /\ IsFiniteSet(below) /\ Cardinality(below) \in Nat
        BY <3>2, <4>1
      <4> HIDE DEF below, m, taken
      <4>3. Cardinality(taken) = IF m \in below THEN Cardinality(below) ELSE Cardinality(below) + 1
        BY <4>2, FS_AddElement
      <4> QED
        BY <4>2, <4>3 DEF below, m
    <3>4. Cardinality(Below(Max(taken))) < n /\ Cardinality(Below(Max(taken))) \in Nat
      BY <1>2, <1>4, <3>1
    <3> HIDE DEF taken, Below
    <3> QED
      BY <1>5, <3>3, <3>4
  <2> QED
    BY <2>1, <2>2
<1>7. ASSUME Cardinality(taken) # n PROVE taken = rows
  <2> SUFFICES ASSUME rows \ taken # {} PROVE FALSE
    BY <1>4
  <2> DEFINE first == Min(rows \ taken)
  <2>1. first \in rows \ taken /\ \A q \in rows \ taken : first <= q
    <3> HIDE DEF taken
    <3> QED
      BY MinIsLeast
  <2> HIDE DEF first
  <2>2. Below(first) \in SUBSET taken
    <3> SUFFICES ASSUME NEW q \in rows, q < first PROVE q \in taken
      OBVIOUS
    <3> HIDE DEF taken
    <3> QED
      BY <2>1
  <2>3. Cardinality(Below(first)) <= Cardinality(taken)
    <3> HIDE DEF Below, taken
    <3> QED
      BY <1>5, <2>2, FS_Subset
  <2>4. ~(Cardinality(Below(first)) < n)
    BY <1>4, <2>1
  <2> HIDE DEF Below, taken
  <2> QED
    BY <1>2, <1>5, <1>6, <1>7, <2>1, <2>3, <2>4
<1> QED
  BY <1>1, <1>3, <1>6, <1>7, Zenon

\* One row more than fits is left out, and the cursor is the last of those that fit.
LEMMA PageOfFound ==
  ASSUME NEW found, found \subseteq Nat \ {0}, IsFiniteSet(found), NEW lim \in Int \ {0},
         ~SliceFails(found, lim)
  PROVE  LET page == Page(found, lim)
         IN  /\ page.rows \subseteq found
             /\ page.next = 0 => page.rows = found /\ Cardinality(found) # lim + 1
             /\ page.next # 0 =>
                  page.next \in page.rows /\ \A r \in found : r \in page.rows <=> r <= page.next
             /\ lim > 0 /\ Cardinality(found) <= lim + 1 => Cardinality(page.rows) <= lim
<1> DEFINE page == Page(found, lim)
           last == Max(found)
           fit == found \ {last}
<1>1. Cardinality(found) \in Nat
  BY FS_CardinalityType
<1>2. CASE Cardinality(found) # lim + 1
  <2>1. page = [rows |-> found, next |-> 0]
    BY <1>2 DEF Page
  <2>2. page.rows = found /\ page.next = 0
    BY <2>1
  <2> HIDE DEF page
  <2>3. lim > 0 /\ Cardinality(found) <= lim + 1 => Cardinality(found) <= lim
    BY <1>1, <1>2
  <2> QED
    BY <1>2, <2>2, <2>3 DEF page
<1>3. CASE Cardinality(found) = lim + 1
  <2>1. lim > 0
    BY <1>3 DEF SliceFails
  <2>2. found # {}
    BY <1>3, <2>1, FS_EmptySet
  <2>3. last \in found /\ \A r \in found : r <= last
    BY <2>2, MaxIsLargest
  <2>4. page = [rows |-> fit, next |-> Max(fit)]
    BY <1>3 DEF Page, CursorOf
  <2>5. page.rows = fit /\ page.next = Max(fit)
    BY <2>4
  <2> HIDE DEF last, page
  <2>6. IsFiniteSet(fit) /\ Cardinality(fit) = lim
    <3>1. IsFiniteSet(fit) /\ Cardinality(fit) = Cardinality(found) - 1
      BY <2>3, FS_RemoveElement
    <3> QED
      BY <1>3, <3>1
  <2>7. fit # {}
    BY <2>1, <2>6, FS_EmptySet
  <2>8. Max(fit) \in fit /\ \A r \in fit : r <= Max(fit)
    <3>1. fit \subseteq Nat
      OBVIOUS
    <3> HIDE DEF fit
    <3> QED
      BY <2>6, <2>7, <3>1, MaxIsLargest
  <2> DEFINE next == Max(fit)
  <2>9. next \in fit /\ next \in Nat /\ next # 0 /\ \A r \in fit : r <= next
    BY <2>8
  <2> HIDE DEF next
  <2>10. \A r \in found : r \in fit <=> r <= next
    <3> SUFFICES ASSUME NEW r \in found, r <= next PROVE r # last
      BY <2>9
    <3>1. next < last /\ next \in Nat /\ last \in Nat /\ r \in Nat
      BY <2>3, <2>9
    <3> QED
      BY <3>1
  <2>11. fit \subseteq found
    OBVIOUS
  <2>12. page.next = next
    BY <2>5 DEF next
  <2> HIDE DEF fit
  <2>13. Cardinality(page.rows) <= lim
    BY <2>5, <2>6
  <2> QED
    BY <2>5, <2>9, <2>10, <2>11, <2>12, <2>13 DEF page
<1> QED
  BY <1>2, <1>3

\* A page of the rows that a query without an error returns: the ones up to the cursor.
LEMMA PageIsPrefix ==
  ASSUME NEW rows, rows \subseteq Nat \ {0}, IsFiniteSet(rows), NEW lim \in Int \ {0},
         ~SliceFails(Limited(rows, lim + 1), lim)
  PROVE  LET page == Page(Limited(rows, lim + 1), lim)
         IN  /\ page.rows = Before(rows, page.next)
             /\ page.next # 0 => page.next \in page.rows
             /\ lim > 0 => Cardinality(page.rows) <= lim
<1> DEFINE found == Limited(rows, lim + 1)
           page == Page(found, lim)
<1>1. found \in SUBSET rows
  BY DEF Limited
<1>2. IsFiniteSet(found) /\ Cardinality(found) \in Nat
  BY <1>1, FS_Subset, FS_CardinalityType
<1>3. /\ \A r \in found, q \in rows : q <= r => q \in found
      /\ lim > 0 => Cardinality(found) <= lim + 1
      /\ Cardinality(found) # lim + 1 => found = rows
  <2>1. CASE lim + 1 < 0
    <3>1. found = rows
      BY <2>1 DEF Limited
    <3> QED
      BY <2>1, <3>1
  <2>2. CASE lim + 1 >= 0
    <3>1. lim + 1 \in Nat
      BY <2>2
    <3>2. /\ \A r \in found, q \in rows : q <= r => q \in found
          /\ Cardinality(found) <= lim + 1
          /\ Cardinality(found) # lim + 1 => found = rows
      BY <3>1, LimitedIsPrefix
    <3> QED
      BY <3>2
  <2> QED
    BY <2>1, <2>2
<1> HIDE DEF found
<1>4. /\ page.rows \subseteq found
      /\ page.next = 0 => page.rows = found /\ Cardinality(found) # lim + 1
      /\ page.next # 0 =>
           page.next \in page.rows /\ \A r \in found : r \in page.rows <=> r <= page.next
      /\ lim > 0 /\ Cardinality(found) <= lim + 1 => Cardinality(page.rows) <= lim
  <2>1. found \subseteq Nat \ {0} /\ ~SliceFails(found, lim)
    BY <1>1 DEF found
  <2> QED
    BY <1>2, <2>1, PageOfFound
<1> HIDE DEF page
<1>5. page.rows = Before(rows, page.next)
  <2>1. CASE page.next = 0
    BY <1>3, <1>4, <2>1 DEF Before
  <2>2. CASE page.next # 0
    <3>1. \A r \in rows : r <= page.next => r \in found
      BY <1>3, <1>4, <2>2
    <3> QED
      BY <1>1, <1>4, <2>2, <3>1 DEF Before
  <2> QED
    BY <2>1, <2>2
<1> QED
  BY <1>3, <1>4, <1>5 DEF page, found

-----------------------------------------------------------------------------
(* The invariant, step by step *)

LEMMA RowsAreNumbers ==
  /\ Rows \subseteq Nat \ {0}
  /\ \A v \in Versions : State[v] \subseteq Rows /\ IsFiniteSet(State[v])
  BY PagingAssumption DEF PagingAssumption, Rows

\* The page that came is behind the cursor, and the new cursor is at its end.
LEMMA PageGoesOn ==
  ASSUME PagingInv, left = {}, nextPage = 0 => out = {},
         out' = out, results' = left', left' \subseteq {r \in Rows : r > nextPage},
         nextPage' # 0 => nextPage' \in left' /\ \A r \in left' : r <= nextPage'
  PROVE  CursorInv'
<1>1. out \subseteq Nat \ {0} /\ left' \subseteq Nat \ {0} /\ nextPage \in Nat
  BY RowsAreNumbers DEF PagingInv, TypeOK
<1>2. \A o \in out : o <= nextPage
  BY DEF PagingInv, CursorInv, Come
<1>3. \A o \in out, r \in left' : o < r
  BY <1>1, <1>2
<1>4. ASSUME nextPage' # 0 PROVE results' # {} /\ \A r \in out \cup left' : r <= nextPage'
  <2>1. nextPage' \in left' /\ nextPage' \in Nat
    BY <1>1, <1>4
  <2>2. \A o \in out : o <= nextPage'
    BY <1>1, <1>3, <2>1
  <2> QED
    BY <1>4, <2>1, <2>2
<1> QED
  BY <1>3, <1>4 DEF CursorInv, ListedInOrder, Come

LEMMA InitPagingInv == Init => PagingInv
<1> SUFFICES ASSUME Init PROVE PagingInv
  OBVIOUS
<1>1. MaxLimit \in Nat /\ MaxChanges \in Nat /\ MaxFaults \in Nat
  BY PagingAssumption DEF PagingAssumption
<1>2. TypeOK
  <2>1. Cardinality({}) = 0
    BY FS_EmptySet
  <2>2. objects \subseteq Ids /\ head \in {0} \cup Versions /\ wanted \in {Head} \cup Versions
    BY DEF Init
  <2>3. changes \in 0..MaxChanges /\ faults \in 0..MaxFaults
    BY <1>1 DEF Init
  <2>4. PageFits
    BY <1>1, <2>1 DEF Init, PageFits
  <2> QED
    BY <2>2, <2>3, <2>4 DEF Init, TypeOK
<1>3. CursorInv /\ ObjectsInv /\ StateInv
  BY DEF Init, CursorInv, ListedInOrder, ObjectsInv, StateInv, Come, Before
<1> QED
  BY <1>2, <1>3 DEF PagingInv

LEMMA ListLimitFits ==
  ASSUME NEW size \in PageSizes
  PROVE  ListLimit(size) \in Nat \ {0} /\ ListLimit(size) <= MaxLimit
  BY PagingAssumption DEF PagingAssumption, ListLimit

LEMMA StateLimitFits ==
  ASSUME NEW size \in PageSizes
  PROVE  StateLimit(size) \in Int \ {0} /\ StateLimit(size) <= MaxLimit /\ (size >= 0 => StateLimit(size) > 0)
  BY PagingAssumption DEF PagingAssumption, StateLimit

\* Of the objects that stay, those up to the old cursor have come, and the page has
\* those between the two.
LEMMA FetchPageInv == ASSUME PagingInv, FetchPage PROVE PagingInv'
<1> DEFINE lim == ListLimit(pageSize)
           rows == AfterCursor(objects, nextPage)
           page == ListObjects(pageSize, nextPage)
<1>1. /\ cmd = "objects" /\ pc = "next" /\ NeedNextPage
      /\ results' = page.rows /\ left' = page.rows /\ nextPage' = page.next
      /\ asked' = TRUE /\ pc' = "item"
      /\ UNCHANGED <<indexVars, requestVars, node, out, read, cut, faults>>
  BY DEF FetchPage
<1>2. lim \in Nat \ {0} /\ lim <= MaxLimit
  BY ListLimitFits DEF PagingInv, TypeOK
<1>3. objects \in SUBSET Ids /\ IsFiniteSet(Ids) /\ Ids \subseteq Nat \ {0} /\ kept \subseteq objects /\ objects \subseteq seen
  BY PagingAssumption DEF PagingAssumption, PagingInv, TypeOK
<1>4. rows \in SUBSET objects /\ IsFiniteSet(rows)
  <2>1. rows \in SUBSET objects
    BY DEF AfterCursor
  <2> QED
    BY <1>3, <2>1, FS_Subset
<1>5. /\ page.rows = Before(rows, page.next)
      /\ page.next # 0 => page.next \in page.rows
      /\ Cardinality(page.rows) <= lim
  <2>1. page = Page(Limited(rows, lim + 1), lim)
    BY DEF ListObjects
  <2>2. ~SliceFails(Limited(rows, lim + 1), lim)
    BY <1>2 DEF SliceFails
  <2>3. rows \subseteq Nat \ {0}
    BY <1>3, <1>4
  <2> HIDE DEF rows, lim, page
  <2>4. lim \in Int \ {0} /\ lim > 0
    BY <1>2
  <2> QED
    BY <1>4, <2>1, <2>2, <2>3, <2>4, PageIsPrefix
<1>6. IsFiniteSet(page.rows) /\ Cardinality(page.rows) \in Nat
  <2>1. page.rows \in SUBSET rows
    BY <1>5 DEF Before
  <2> HIDE DEF page, rows
  <2> QED
    BY <1>4, <2>1, FS_Subset, FS_CardinalityType
<1>7. \A r \in objects : r \in rows <=> r > nextPage
  BY DEF AfterCursor
<1> HIDE DEF lim, rows, page
<1>8. left = {} /\ (nextPage = 0 => ~asked /\ out = {})
  BY <1>1 DEF NeedNextPage, PagingInv, ObjectsInv, Come
<1>9. nextPage \in Nat /\ nextPage' \in {0} \cup Rows /\ page.rows \subseteq Rows
  <2>1. page.rows \subseteq rows /\ rows \subseteq Rows
    BY <1>3, <1>4, <1>5 DEF Before, Rows
  <2>2. nextPage \in {0} \cup Rows
    BY DEF PagingInv, TypeOK
  <2>3. page.next # 0 => page.next \in Rows
    BY <1>5, <2>1
  <2>4. Rows \subseteq Nat
    BY RowsAreNumbers
  <2>5. nextPage' \in {0} \cup Rows
    BY <1>1, <2>3
  <2>6. page.rows \subseteq Rows
    BY <2>1
  <2>7. nextPage \in Nat
    BY <2>2, <2>4
  <2> QED
    BY <2>5, <2>6, <2>7
<1>10. TypeOK'
  <2>1. Cardinality(page.rows) <= MaxLimit
    BY <1>2, <1>5, <1>6, PagingAssumption DEF PagingAssumption
  <2>2. PageFits'
    BY <1>1, <2>1 DEF PageFits
  <2> QED
    BY <1>1, <1>9, <2>2 DEF PagingInv, TypeOK, indexVars, requestVars
<1>11. CursorInv'
  <2>1. page.rows \subseteq {r \in Rows : r > nextPage}
    BY <1>4, <1>5, <1>7, <1>9 DEF Before
  <2>2. nextPage' # 0 => nextPage' \in left' /\ \A r \in left' : r <= nextPage'
    BY <1>1, <1>5 DEF Before
  <2> QED
    BY <1>1, <1>8, <2>1, <2>2, PageGoesOn
<1>12. ObjectsInv'
  <2>1. Come' \subseteq seen'
    BY <1>1, <1>3, <1>4, <1>5 DEF PagingInv, ObjectsInv, Come, Before, indexVars
  <2>2. Before(kept', nextPage') \subseteq Come'
    <3> SUFFICES ASSUME NEW k \in kept, nextPage' = 0 \/ k <= nextPage'
                 PROVE  k \in out \cup page.rows
      BY <1>1 DEF Before, Come, indexVars
    <3>1. k \in objects /\ k \in Nat \ {0}
      BY <1>3
    <3>2. CASE k > nextPage
      BY <1>1, <1>5, <1>7, <3>1, <3>2 DEF Before
    <3>3. CASE ~(k > nextPage)
      <4>1. nextPage # 0 /\ k <= nextPage
        BY <1>9, <3>1, <3>3
      <4>2. asked
        BY <4>1, <1>1 DEF PagingInv, ObjectsInv
      <4> QED
        BY <1>1, <1>8, <4>1, <4>2 DEF PagingInv, ObjectsInv, Come, Before
    <3> QED
      BY <3>2, <3>3
  <2> QED
    BY <1>1, <2>1, <2>2 DEF ObjectsInv
<1>13. StateInv'
  BY <1>1 DEF StateInv, requestVars
<1> QED
  BY <1>10, <1>11, <1>12, <1>13 DEF PagingInv

LEMMA ReturnItemInv == ASSUME PagingInv, ReturnItem PROVE PagingInv'
<1> DEFINE item == Min(left)
<1>1. /\ cmd = "objects" /\ pc \in {"item", "next"} /\ pc' = "next" /\ left # {}
      /\ out' = out \cup {item} /\ left' = left \ {item}
      /\ UNCHANGED <<indexVars, requestVars, node, asked, results, nextPage, read, cut, faults>>
  BY DEF ReturnItem, InPage
<1>2. left \subseteq Nat
  BY RowsAreNumbers DEF PagingInv, TypeOK
<1>3. item \in left /\ \A r \in left : item <= r
  BY <1>1, <1>2, MinIsLeast
<1> HIDE DEF item
<1>4. Come' = Come
  BY <1>1, <1>3 DEF Come
<1>5. TypeOK'
  BY <1>1, <1>3 DEF PagingInv, TypeOK, PageFits, indexVars, requestVars
<1>6. CursorInv'
  <2>1. \A r \in left \ {item} : item < r
    BY <1>2, <1>3
  <2> QED
    BY <1>1, <1>4, <2>1 DEF PagingInv, CursorInv, ListedInOrder
<1>7. ObjectsInv' /\ StateInv'
  BY <1>1, <1>3, <1>4 DEF PagingInv, ObjectsInv, StateInv, indexVars, requestVars, Come
<1> QED
  BY <1>5, <1>6, <1>7 DEF PagingInv

\* A page without rows is the last one, as is one after which there is no other.
LEMMA ReturnEOFInv == ASSUME PagingInv, ReturnEOF PROVE PagingInv'
<1>1. /\ cmd = "objects" /\ pc' = "done" /\ left = {}
      /\ UNCHANGED <<indexVars, requestVars, node, pageVars, out, read, cut, faults>>
  BY DEF ReturnEOF, InPage
<1>2. asked /\ nextPage = 0
  BY DEF ReturnEOF, InPage, NeedNextPage, PagingInv, CursorInv, ObjectsInv
<1>3. TypeOK' /\ CursorInv'
  BY <1>1 DEF PagingInv, TypeOK, PageFits, CursorInv, ListedInOrder, Come, indexVars, requestVars, pageVars
<1>4. ObjectsInv' /\ StateInv'
  BY <1>1, <1>2 DEF PagingInv, ObjectsInv, StateInv, Come, indexVars, requestVars, pageVars
<1> QED
  BY <1>3, <1>4 DEF PagingInv

\* A request for a version's directory, whose rows do not change.
LEMMA GetNodeInv == ASSUME PagingInv, GetNodeByPath PROVE PagingInv'
<1>1. /\ cmd = "state" /\ pc = "next"
      /\ UNCHANGED <<indexVars, requestVars, pageVars, out, read, cut, faults>>
      /\ \/ /\ node' = Version /\ pc' = "children" /\ Version \in 1..head
         \/ node' = node /\ pc' = "failed"
  BY DEF GetNodeByPath
<1>2. Version \in 1..head => Version \in Versions /\ (wanted # Head => Version = wanted)
  <2>1. head \in {0} \cup Versions /\ NumVersions \in Nat
    BY PagingAssumption DEF PagingAssumption, PagingInv, TypeOK
  <2> QED
    BY <2>1 DEF Version, Versions
<1>3. TypeOK'
  BY <1>1, <1>2 DEF PagingInv, TypeOK, PageFits, indexVars, requestVars, pageVars
<1>4. CursorInv' /\ ObjectsInv'
  BY <1>1 DEF PagingInv, CursorInv, ListedInOrder, ObjectsInv, Come, requestVars, pageVars
<1>5. StateInv'
  BY <1>1, <1>2 DEF PagingInv, StateInv, Come, indexVars, requestVars, pageVars
<1> QED
  BY <1>3, <1>4, <1>5 DEF PagingInv

\* A page that came, whole or cut: rows of the version that are behind the cursor.
LEMMA AnswerInv ==
  ASSUME PagingInv, cmd = "state", pc = "children", NEW found,
         found \subseteq AfterCursor(State[node], nextPage),
         StateLimit(pageSize) > 0 => Cardinality(found) <= StateLimit(pageSize) + 1,
         ~cut' => found = Children(node, pageSize, nextPage),
         AnswerWith(found),
         cut' \in {cut, TRUE}, faults' \in 0..MaxFaults,
         UNCHANGED <<indexVars, requestVars, node, out>>
  PROVE  PagingInv'
<1> DEFINE lim == StateLimit(pageSize)
           rows == AfterCursor(State[node], nextPage)
           page == Page(found, lim)
<1>1. node \in Versions /\ (wanted # Head => node = wanted) /\ left = {}
  BY DEF PagingInv, StateInv
<1>2. lim \in Int \ {0} /\ lim <= MaxLimit /\ (pageSize >= 0 => lim > 0)
  BY StateLimitFits DEF PagingInv, TypeOK
<1>3. State[node] \in SUBSET Rows /\ IsFiniteSet(State[node]) /\ Rows \subseteq Nat \ {0}
  BY <1>1, RowsAreNumbers
<1>4. /\ rows \in SUBSET State[node] /\ IsFiniteSet(rows)
      /\ \A r \in State[node] : r \in rows <=> r > nextPage
  <2>1. rows \in SUBSET State[node]
    BY DEF AfterCursor
  <2> QED
    BY <1>3, <2>1, FS_Subset DEF AfterCursor
<1>5. found \in SUBSET rows /\ IsFiniteSet(found)
  BY <1>4, FS_Subset
<1>6. CASE SliceFails(found, lim)
  <2>1. pc' = "failed" /\ UNCHANGED <<pageVars, read>>
    BY <1>6 DEF AnswerWith
  <2>2. TypeOK'
    <3>1. cut' \in BOOLEAN
      BY DEF PagingInv, TypeOK
    <3> QED
      BY <2>1, <3>1 DEF PagingInv, TypeOK, PageFits, indexVars, requestVars, pageVars
  <2>3. CursorInv' /\ ObjectsInv'
    BY <2>1 DEF PagingInv, CursorInv, ListedInOrder, ObjectsInv, Come, requestVars, pageVars
  <2>4. StateInv'
    <3>1. ~cut' => ~cut
      BY DEF PagingInv, TypeOK
    <3> QED
      BY <1>1, <2>1, <3>1 DEF PagingInv, StateInv, Come, requestVars, pageVars
  <2> QED
    BY <2>2, <2>3, <2>4 DEF PagingInv
<1>7. CASE ~SliceFails(found, lim)
  <2>1. /\ results' = page.rows /\ left' = page.rows /\ nextPage' = page.next
        /\ read' = read \cup {node} /\ pc' = "page" /\ asked' = asked
    BY <1>7 DEF AnswerWith
  <2>2. /\ page.rows \subseteq found
        /\ page.next # 0 => page.next \in page.rows /\ \A r \in page.rows : r <= page.next
        /\ lim > 0 => Cardinality(page.rows) <= lim
    <3>1. found \subseteq Nat \ {0}
      BY <1>3, <1>4, <1>5
    <3>2. lim > 0 => Cardinality(found) <= lim + 1
      OBVIOUS
    <3> HIDE DEF lim
    <3> QED
      BY <1>2, <1>5, <1>7, <3>1, <3>2, PageOfFound
  <2>3. ~cut' => page.rows = Before(rows, page.next)
    <3> SUFFICES ASSUME ~cut' PROVE page.rows = Before(rows, page.next)
      OBVIOUS
    <3>1. found = Limited(rows, lim + 1)
      BY DEF Children, ChildrenLimit
    <3>2. rows \subseteq Nat \ {0} /\ ~SliceFails(Limited(rows, lim + 1), lim)
      BY <1>3, <1>4, <1>7, <3>1
    <3> HIDE DEF lim, rows
    <3> QED
      BY <1>2, <1>4, <3>1, <3>2, PageIsPrefix
  <2>4. IsFiniteSet(page.rows) /\ Cardinality(page.rows) \in Nat
    <3> HIDE DEF page
    <3> QED
      BY <1>5, <2>2, FS_Subset, FS_CardinalityType
  <2> HIDE DEF lim, page, rows
  <2>5. page.rows \subseteq Rows /\ page.rows \subseteq {r \in Rows : r > nextPage}
    <3> SUFFICES ASSUME NEW r \in page.rows PROVE r \in Rows /\ r > nextPage
      OBVIOUS
    <3>1. r \in rows
      BY <1>5, <2>2
    <3> QED
      BY <1>3, <1>4, <3>1
  <2>6. nextPage' \in {0} \cup Rows
    BY <2>1, <2>2, <2>5
  <2>7. TypeOK'
    <3>1. lim > 0 => Cardinality(page.rows) <= MaxLimit
      BY <1>2, <2>2, <2>4, PagingAssumption DEF PagingAssumption
    <3>2. PageFits'
      BY <1>2, <2>1, <3>1 DEF PageFits, requestVars
    <3>3. cut' \in BOOLEAN /\ read' \subseteq Versions
      BY <1>1, <2>1 DEF PagingInv, TypeOK
    <3> QED
      BY <2>1, <2>5, <2>6, <3>2, <3>3 DEF PagingInv, TypeOK, indexVars, requestVars
  <2>8. nextPage = 0 => read = {} /\ out = {}
    BY DEF PagingInv, StateInv
  <2>9. CursorInv'
    BY <1>1, <2>1, <2>2, <2>5, <2>8, PageGoesOn
  <2>10. ASSUME ~cut', NEW v \in Versions, read' = {v}
         PROVE  out \cup page.rows = Before(State[v], nextPage')
    <3>1. v = node /\ read \subseteq {v} /\ ~cut
      BY <2>1, <2>10 DEF PagingInv, TypeOK
    <3>2. page.rows = Before(rows, nextPage')
      BY <2>1, <2>3, <2>10
    <3>3. nextPage \in Nat /\ nextPage' \in Nat /\ State[node] \subseteq Nat \ {0}
      <4>1. nextPage \in {0} \cup Rows
        BY DEF PagingInv, TypeOK
      <4>2. Rows \subseteq Nat /\ State[node] \subseteq Nat \ {0}
        BY <1>3
      <4> QED
        BY <2>6, <4>1, <4>2
    <3>4. CASE nextPage = 0
      <4>1. rows = State[node]
        BY <1>4, <3>3, <3>4
      <4> QED
        BY <2>8, <3>1, <3>2, <3>4, <4>1
    <3>5. CASE nextPage # 0
      <4>1. read = {v}
        BY <3>1, <3>5 DEF PagingInv, StateInv
      <4>2. out = Before(State[node], nextPage)
        BY <1>1, <3>1, <4>1 DEF PagingInv, StateInv, Come
      <4>3. nextPage' = 0 \/ nextPage < nextPage'
        BY <2>1, <2>2, <2>5
      <4>4. \A r \in State[node] :
              (nextPage' = 0 \/ r <= nextPage') <=>
                r <= nextPage \/ (r > nextPage /\ (nextPage' = 0 \/ r <= nextPage'))
        BY <3>3, <4>3
      <4>5. \A r \in State[node] : r \in out <=> r <= nextPage
        BY <3>5, <4>2 DEF Before
      <4>6. \A r \in State[node] :
              r \in page.rows <=> r > nextPage /\ (nextPage' = 0 \/ r <= nextPage')
        BY <1>4, <3>2 DEF Before
      <4>7. out \subseteq State[node] /\ page.rows \subseteq State[node]
        BY <1>4, <3>2, <4>2 DEF Before
      <4>8. \A r \in State[node] :
              r \in out \cup page.rows <=> nextPage' = 0 \/ r <= nextPage'
        BY <4>4, <4>5, <4>6
      <4> QED
        BY <3>1, <4>7, <4>8 DEF Before
    <3> QED
      BY <3>4, <3>5
  <2>11. StateInv'
    <3>1. wanted # Head => read' \subseteq {wanted}
      BY <1>1, <2>1 DEF PagingInv, StateInv
    <3> QED
      BY <2>1, <2>10, <3>1 DEF StateInv, Come, requestVars
  <2>12. ObjectsInv'
    BY DEF ObjectsInv, requestVars
  <2> QED
    BY <2>7, <2>9, <2>11, <2>12 DEF PagingInv
<1> QED
  BY <1>6, <1>7

LEMMA GetChildrenInv ==
  ASSUME PagingInv, GetChildren \/ ChildrenFail PROVE PagingInv'
<1> DEFINE rows == AfterCursor(State[node], nextPage)
           lim == StateLimit(pageSize)
           children == Children(node, pageSize, nextPage)
<1>1. /\ cmd = "state" /\ pc = "children" /\ node \in Versions
      /\ UNCHANGED <<indexVars, requestVars, node, out>>
  BY DEF GetChildren, ChildrenFail, PagingInv, StateInv
<1>2. lim \in Int
  BY StateLimitFits DEF PagingInv, TypeOK
<1>3. rows \in SUBSET Nat /\ IsFiniteSet(rows)
  <2>1. rows \in SUBSET State[node]
    BY DEF AfterCursor
  <2>2. State[node] \subseteq Nat /\ IsFiniteSet(State[node])
    BY <1>1, RowsAreNumbers
  <2> HIDE DEF rows
  <2> QED
    BY <2>1, <2>2, FS_Subset
<1>4. children = Limited(rows, lim + 1)
  BY DEF Children, ChildrenLimit
<1> HIDE DEF rows, lim, children
<1>5. children \in SUBSET rows /\ IsFiniteSet(children) /\ Cardinality(children) \in Nat
  <2>1. children \in SUBSET rows
    BY <1>4 DEF Limited
  <2> QED
    BY <1>3, <2>1, FS_Subset, FS_CardinalityType
<1>6. lim > 0 => Cardinality(children) <= lim + 1
  <2> SUFFICES ASSUME lim > 0 PROVE Cardinality(children) <= lim + 1
    OBVIOUS
  <2>1. lim + 1 \in Nat
    BY <1>2
  <2> QED
    BY <1>3, <1>4, <2>1, LimitedIsPrefix
<1>7. PICK found :
        /\ found \in SUBSET children /\ AnswerWith(found)
        /\ \/ found = children /\ UNCHANGED <<cut, faults>>
           \/ cut' = TRUE /\ Fault
  <2>1. CASE GetChildren
    BY <2>1 DEF GetChildren, children
  <2>2. CASE ChildrenFail
    <3>1. PICK n \in 0..Cardinality(children) : AnswerWith(Limited(children, n))
      BY <2>2 DEF ChildrenFail, children
    <3>2. Limited(children, n) \in SUBSET children
      BY DEF Limited
    <3> QED
      BY <2>2, <3>1, <3>2 DEF ChildrenFail
  <2> QED
    BY <2>1, <2>2
<1>8. lim > 0 => Cardinality(found) <= lim + 1
  <2>1. Cardinality(found) <= Cardinality(children) /\ Cardinality(found) \in Nat
    BY <1>5, <1>7, FS_Subset, FS_CardinalityType
  <2> QED
    BY <1>2, <1>5, <1>6, <2>1
<1>9. faults' \in 0..MaxFaults /\ cut' \in {cut, TRUE} /\ (~cut' => found = children)
  <2>1. faults \in 0..MaxFaults /\ MaxFaults \in Nat
    BY PagingAssumption DEF PagingAssumption, PagingInv, TypeOK
  <2>2. Fault => faults' \in 0..MaxFaults
    BY <2>1 DEF Fault
  <2> QED
    BY <1>7, <2>1, <2>2
<1> QED
  BY <1>1, <1>5, <1>7, <1>8, <1>9, AnswerInv DEF rows, lim, children

LEMMA TakePageInv == ASSUME PagingInv, TakePage PROVE PagingInv'
<1>1. /\ pc = "page" /\ cmd = "state"
      /\ out' = out \cup left /\ left' = {} /\ pc' = IF nextPage = 0 THEN "done" ELSE "next"
      /\ UNCHANGED <<indexVars, requestVars, node, asked, results, nextPage, read, cut, faults>>
  BY DEF TakePage, PagingInv, TypeOK, ObjectsInv
<1>2. Come' = Come
  BY <1>1 DEF Come
<1>3. TypeOK'
  BY <1>1 DEF PagingInv, TypeOK, PageFits, indexVars, requestVars
<1>4. CursorInv' /\ ObjectsInv' /\ StateInv'
  BY <1>1, <1>2 DEF PagingInv, CursorInv, ListedInOrder, ObjectsInv, StateInv, indexVars, requestVars
<1> QED
  BY <1>3, <1>4 DEF PagingInv

LEMMA ListingFailsInv == ASSUME PagingInv, FetchFails \/ GetNodeFails PROVE PagingInv'
<1>1. /\ pc = "next" /\ pc' = "failed" /\ faults' \in 0..MaxFaults
      /\ UNCHANGED <<indexVars, requestVars, node, pageVars, out, read, cut>>
  BY PagingAssumption DEF PagingAssumption, FetchFails, GetNodeFails, Fault, PagingInv, TypeOK
<1>2. TypeOK'
  BY <1>1 DEF PagingInv, TypeOK, PageFits, indexVars, requestVars, pageVars
<1>3. CursorInv' /\ ObjectsInv' /\ StateInv'
  BY <1>1 DEF PagingInv, CursorInv, ListedInOrder, ObjectsInv, StateInv, Come,
              indexVars, requestVars, pageVars
<1> QED
  BY <1>2, <1>3 DEF PagingInv

\* Objects that go are not among those that stay, whatever comes with them.
LEMMA ChangeInv ==
  ASSUME PagingInv,
         \/ \E ids \in SUBSET Ids : ChangeObjects(ids)
         \/ \E v \in {0} \cup Versions : ChangeVersions(v)
  PROVE  PagingInv'
<1>1. /\ UNCHANGED <<requestVars, pc, node, pageVars, out, read, cut, faults>>
      /\ changes' \in 0..MaxChanges
      /\ objects' \subseteq Ids /\ head' \in {0} \cup Versions
      /\ kept' \subseteq objects' /\ objects' \subseteq seen' /\ seen' \subseteq Ids
      /\ kept' \subseteq kept /\ seen \subseteq seen'
  <2>1. CASE \E ids \in SUBSET Ids : ChangeObjects(ids)
    BY <2>1, PagingAssumption
       DEF PagingAssumption, ChangeObjects, Change, UnchangedClient, PagingInv, TypeOK
  <2>2. CASE \E v \in {0} \cup Versions : ChangeVersions(v)
    BY <2>2, PagingAssumption
       DEF PagingAssumption, ChangeVersions, Change, UnchangedClient, PagingInv, TypeOK
  <2> QED
    BY <2>1, <2>2
<1>2. TypeOK'
  BY <1>1 DEF PagingInv, TypeOK, PageFits, requestVars, pageVars
<1>3. CursorInv' /\ StateInv'
  BY <1>1 DEF PagingInv, CursorInv, ListedInOrder, StateInv, Come, requestVars, pageVars
<1>4. ObjectsInv'
  BY <1>1 DEF PagingInv, ObjectsInv, Come, Before, requestVars, pageVars
<1> QED
  BY <1>2, <1>3, <1>4 DEF PagingInv

LEMMA NextPagingInv == PagingInv /\ [Next]_vars => PagingInv'
<1> SUFFICES ASSUME PagingInv, [Next]_vars PROVE PagingInv'
  OBVIOUS
<1>1. CASE FetchPage
  BY <1>1, FetchPageInv
<1>2. CASE ReturnItem \/ ReturnEOF
  BY <1>2, ReturnItemInv, ReturnEOFInv
<1>3. CASE GetNodeByPath
  BY <1>3, GetNodeInv
<1>4. CASE GetChildren \/ ChildrenFail
  BY <1>4, GetChildrenInv
<1>5. CASE TakePage
  BY <1>5, TakePageInv
<1>6. CASE FetchFails \/ GetNodeFails
  BY <1>6, ListingFailsInv
<1>7. CASE \/ \E ids \in SUBSET Ids : ChangeObjects(ids)
           \/ \E v \in {0} \cup Versions : ChangeVersions(v)
  BY <1>7, ChangeInv
<1>8. CASE UNCHANGED vars
  BY <1>8 DEF vars, indexVars, requestVars, pageVars, PagingInv, TypeOK, PageFits, CursorInv,
              ListedInOrder, ObjectsInv, StateInv, Come
<1> QED
  BY <1>1, <1>2, <1>3, <1>4, <1>5, <1>6, <1>7, <1>8 DEF Next, ClientStep, Ended

\* What has come of a list is what is up to its cursor, and pages keep within 1000 rows,
\* as long as a negative page_size does not ask for more (sqlite.go:162-187, 283-342).
THEOREM PagingInvariant == Spec => []PagingInv
<1>1. Init => PagingInv
  BY InitPagingInv
<1>2. PagingInv /\ [Next]_vars => PagingInv'
  BY NextPagingInv
<1> QED
  BY <1>1, <1>2, PTL DEF Spec

\* Rows are listed in order and none twice, although each page is a query of its own and
\* the index changes in between (sqlite.go:162-187, 336-341).
THEOREM ListsInOrder == Spec => []ListedInOrder
<1>1. PagingInv => ListedInOrder
  BY DEF PagingInv, CursorInv
<1> QED
  BY <1>1, PagingInvariant, PTL

\* A list of objects that comes to its end has missed none that was there all the time
\* (root.go:136-176, sqlite.go:162-187).
THEOREM ListsAllObjects == Spec => []ObjectsComplete
<1>1. PagingInv => ObjectsComplete
  BY DEF PagingInv, ObjectsInv, ObjectsComplete, Come, Before
<1> QED
  BY <1>1, PagingInvariant, PTL

\* The state of a version comes whole in its pages, if no error was dropped
\* (export.go:113-144, sqlite.go:283-342).
THEOREM ListsWholeState == Spec => []StateComplete
<1>1. PagingInv => StateComplete
  <2> SUFFICES ASSUME PagingInv, cmd = "state", pc = "done", ~cut
               PROVE  /\ \A v \in Versions : read = {v} => out = State[v]
                      /\ wanted # Head => read = {wanted}
    BY DEF StateComplete
  <2>1. nextPage = 0 /\ left = {} /\ read # {}
    BY DEF PagingInv, StateInv
  <2> QED
    BY <2>1 DEF PagingInv, StateInv, Come, Before
<1> QED
  BY <1>1, PagingInvariant, PTL
=============================================================================
