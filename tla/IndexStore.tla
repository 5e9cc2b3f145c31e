------------------------------ MODULE IndexStore ------------------------------
(***************************************************************************)
(* The SQLite index (internal/sqlite): the tables of schema.sql and the    *)
(* transactions of tx.go that write them.  An inventory is indexed as a    *)
(* row, a row per version and a row per content file.  The trees of all    *)
(* versions of all objects share one graph of nodes, which are identified  *)
(* by their digest and never removed: a node that is there already is      *)
(* taken to have all its descendants.                                      *)
(*                                                                         *)
(* Digests are taken to be free of collisions, and names of files to have  *)
(* no newline, so a directory's digest stands for its entries              *)
(* (DigestsIdentify, VersionTree).  Stamps are the matter of               *)
(* ObjectRootSync: here any rows may be old.  File sizes are never given   *)
(* (tx.go:72).                                                             *)
(***************************************************************************)
EXTENDS ObjectVersions, Naturals, FiniteSetsExt, Sequences

CONSTANTS
  Paths,        \* object root paths
  Files, Dirs,  \* digests of files and of directories
  Names,        \* path elements
  Entries,      \* the entries of each directory, sorted by name
  Versions,     \* versions in inventories
  FilePaths,    \* content file paths, relative to the object root
  Inventories,  \* valid inventories: OCFL id, versions, manifest, which has all files
                \* of the versions and may have others
  NoInventory,
  ObjectIDs,
  FkModes,      \* whether a connection of the pool enforces foreign keys
  MaxId         \* bound: largest row id

Sums == Files \cup Dirs
Entry == [name : Names, child : Sums]
ContentFile == [file : Files, path : FilePaths]

\* What is in the tree of a directory: it is in every set that has the directory and,
\* with a directory, its entries.
Closed(sums) == \A d \in sums \cap Dirs : \A i \in DOMAIN Entries[d] : Entries[d][i].child \in sums
Tree == [d \in Dirs |-> {s \in Sums : \A sums \in SUBSET Sums : d \in sums /\ Closed(sums) => s \in sums}]

\* The files of an inventory's versions.
StateFiles ==
  [inv \in Inventories |->
     {f \in Files : \E n \in DOMAIN inv.versions : f \in Tree[inv.versions[n].root]}]

ASSUME StoreAssumption ==
  /\ Files \cap Dirs = {}
  /\ Entries \in [Dirs -> Seq(Entry)]
  /\ \A d \in Dirs : \A i, j \in DOMAIN Entries[d] :
       Entries[d][i].name = Entries[d][j].name => i = j
  /\ Versions \subseteq [root : Dirs, meta : {v.meta : v \in Versions},
                        fraction : {v.fraction : v \in Versions}, user : {v.user : v \in Versions}]
  /\ Inventories \subseteq
       [id : ObjectIDs, versions : Seq(Versions), manifest : SUBSET ContentFile]
  /\ \A inv \in Inventories : \A f \in StateFiles[inv] : \E m \in inv.manifest : m.file = f
  /\ NoInventory \notin Inventories
  /\ FkModes \subseteq BOOLEAN
  /\ FkModes # {}
  /\ MaxId \in Nat \ {0}

Ids == 1..MaxId
RootRow == [id : Ids, path : Paths]
InventoryRow == [id : Ids, root_id : Ids, inv : Inventories, at : Paths]
VersionRow == [inventory_id : Ids, num : Nat, version : Versions]
ContentRow == [inventory_id : Ids, file : Files, path : FilePaths]
NameRow == [parent : Dirs, name : Names, child : Sums]

\* The tables.  History: at is the path an inventory was indexed at last; reduced
\* are the inventory rows that were overwritten by an inventory that does not
\* extend them; orphaned says that a root was removed without its inventory.
Tables ==
  [roots : SUBSET RootRow, invs : SUBSET InventoryRow, vers : SUBSET VersionRow,
   cont : SUBSET ContentRow, nodes : SUBSET Sums, names : SUBSET NameRow,
   reduced : SUBSET Ids, orphaned : BOOLEAN]

EmptyTables ==
  [roots |-> {}, invs |-> {}, vers |-> {}, cont |-> {}, nodes |-> {}, names |-> {},
   reduced |-> {}, orphaned |-> FALSE]

VARIABLES
  db,      \* what is committed
  work,    \* what the transaction sees: db and its own writes
  pc,      \* "idle": no transaction; "open"; IndexObjectInventory is at
           \* "versions" or in a "tree"; "failed": a call has returned an error
  cur,     \* the inventory that is being indexed
  row,     \* its row
  todo,    \* its versions still to index
  ver,     \* the version whose tree is being added
  calls    \* calls of addPathtreeChild still to make

callVars == <<cur, row, todo, ver, calls>>
vars == <<db, work, pc, callVars>>

NoRow == 0

Init ==
  /\ db = EmptyTables
  /\ work = EmptyTables
  /\ pc = "idle"
  /\ cur = NoInventory
  /\ row = NoRow
  /\ todo = {}
  /\ ver = 0
  /\ calls = <<>>

-----------------------------------------------------------------------------
(* Slips that the code avoids, each a variant of one definition below: they *)
(* take no part in the specification.                                       *)

\* Foreign keys of inventories are matched with their own ids.
DependentsById(t, roots) == {i \in t.invs : \E r \in roots : r.id = i.id}

\* The name of a node that is known already is not added under a new parent.
InsertNameOfNewNode(names, c) == IF c.child \in work.nodes THEN names ELSE names \cup {c}

\* A version row that differs is left as it is without an error.
ChangedNever(old, new) == FALSE

\* A version's user is not looked at.
ChangedButUser(old, new) == \E v \in old : v.version.root # new.root \/ v.version.meta # new.meta

\* The primary key of the content paths is the node alone.
HasContentAnywhere(id, f) == \E c \in work.cont : c.file = f

-----------------------------------------------------------------------------
(* Queries *)

NodeDirChildren(t, d) ==
  {[name |-> n.name, child |-> n.child] : n \in {m \in t.names : m.parent = d}}

ListVersions(t, id) ==
  {[num |-> v.num, version |-> v.version] : v \in {w \in t.vers : w.inventory_id = id}}

GetInventoryPath(t, p) == {i \in t.invs : [id |-> i.root_id, path |-> p] \in t.roots}

\* What a reader gets of the object at a path: none, or one.
GetObjectByPath(t, p) ==
  {[inv |-> i.inv, versions |-> ListVersions(t, i.id)] : i \in GetInventoryPath(t, p)}

\* Where the content of a file may be had; the query returns one of them.
GetContentPath(t, f) ==
  LET Joined(r, c) == \E i \in t.invs : i.id = c.inventory_id /\ i.root_id = r.id
  IN  {<<x[1].path, x[2].path>> :
         x \in {y \in t.roots \X t.cont : y[2].file = f /\ Joined(y[1], y[2])}}

-----------------------------------------------------------------------------
(* Transactions *)

\* INTEGER PRIMARY KEY without AUTOINCREMENT: one more than the largest in use,
\* so that the id of a removed row may be given again.
NewId(rows) == IF rows = {} THEN 1 ELSE Max({r.id : r \in rows}) + 1

NewTx ==
  /\ pc = "idle"
  /\ pc' = "open"
  /\ UNCHANGED <<db, work, callVars>>

Commit ==
  /\ pc = "open"
  /\ db' = work
  /\ pc' = "idle"
  /\ UNCHANGED <<work, callVars>>

NoCall == cur' = NoInventory /\ row' = NoRow /\ todo' = {} /\ ver' = 0 /\ calls' = <<>>

\* Between any two statements one may fail, or the run may end, or the process.
Rollback ==
  /\ pc # "idle"
  /\ work' = db
  /\ pc' = "idle"
  /\ NoCall
  /\ UNCHANGED db

UpsertObjectRoot(t, p) ==
  IF \E r \in t.roots : r.path = p
    THEN t
    ELSE [t EXCEPT !.roots = @ \cup {[id |-> NewId(@), path |-> p]}]

RoomForRow(t) == NewId(t.roots) \in Ids /\ NewId(t.invs) \in Ids

IndexObjectRoot(p) ==
  /\ pc = "open"
  /\ RoomForRow(work)
  /\ work' = UpsertObjectRoot(work, p)
  /\ UNCHANGED <<db, pc, callVars>>

Dependents(t, roots) == {i \in t.invs : \E r \in roots : r.id = i.root_id}

\* ON DELETE CASCADE, on a connection that enforces it.
DeleteRoots(t, roots, enforced) ==
  LET dead == IF enforced THEN Dependents(t, roots) ELSE {}
      ids == {i.id : i \in dead}
  IN  [t EXCEPT !.roots = @ \ roots,
                !.invs = @ \ dead,
                !.vers = {v \in @ : v.inventory_id \notin ids},
                !.cont = {c \in @ : c.inventory_id \notin ids},
                !.reduced = @ \ ids,
                !.orphaned = @ \/ (~enforced /\ Dependents(t, roots) # {})]

\* In a transaction of its own (indexer.go:68-77), over any connection of the pool.
RemoveObjectsBefore(old, enforced) ==
  /\ pc = "open"
  /\ old \subseteq work.roots
  /\ work' = DeleteRoots(work, old, enforced)
  /\ UNCHANGED <<db, pc, callVars>>

-----------------------------------------------------------------------------
(* IndexObjectInventory *)

\* The old inventory's versions and content are part of the new one's.
Extends(new, old) ==
  /\ Len(old.versions) <= Len(new.versions)
  /\ old.manifest \subseteq new.manifest

Indexed(t, inv) == {i \in t.invs : i.inv.id = inv.id}

InventoryId(t, inv) ==
  IF Indexed(t, inv) = {} THEN NewId(t.invs) ELSE (CHOOSE i \in Indexed(t, inv) : TRUE).id

\* ON CONFLICT(ocfl_id) DO UPDATE: the row keeps its id, and so its versions.
UpsertInventory(t, p, inv) ==
  LET id == InventoryId(t, inv)
      root == CHOOSE r \in t.roots : r.path = p
  IN  [t EXCEPT !.invs = (@ \ Indexed(t, inv)) \cup
                           {[id |-> id, root_id |-> root.id, inv |-> inv, at |-> p]},
                !.reduced = IF \A i \in Indexed(t, inv) : Extends(inv, i.inv)
                              THEN @ ELSE @ \cup {id}]

\* UNIQUE(root_id): another object has the root.
RootTaken(t, p, inv) ==
  \E i \in t.invs \ Indexed(t, inv) : [id |-> i.root_id, path |-> p] \in t.roots

IndexObjectInventory(p, inv) ==
  /\ pc = "open"
  /\ RoomForRow(work)
  /\ LET t == UpsertObjectRoot(work, p)
     IN  \/ /\ RootTaken(t, p, inv)
            /\ work' = t
            /\ pc' = "failed"
            /\ UNCHANGED callVars
         \/ /\ ~RootTaken(t, p, inv)
            /\ work' = UpsertInventory(t, p, inv)
            /\ pc' = "versions"
            /\ cur' = inv
            /\ row' = InventoryId(t, inv)
            /\ todo' = DOMAIN inv.versions
            /\ UNCHANGED <<ver, calls>>
  /\ UNCHANGED db

GetNodeSum(sum) == sum \in work.nodes

\* A node that is new has its entries still to add, before all that waits.
ChildCalls(sum) ==
  IF GetNodeSum(sum) \/ sum \in Files
    THEN <<>>
    ELSE [i \in DOMAIN Entries[sum] |->
            [parent |-> sum, name |-> Entries[sum][i].name, child |-> Entries[sum][i].child]]

\* range inv.Versions: in any order.  The root node has no name.
AddPathtreeNodes(v) ==
  /\ pc = "versions"
  /\ v \in todo
  /\ LET root == cur.versions[v].root
     IN  /\ work' = [work EXCEPT !.nodes = @ \cup {root}]
         /\ calls' = ChildCalls(root)
  /\ ver' = v
  /\ pc' = "tree"
  /\ UNCHANGED <<db, cur, row, todo>>

\* INSERT OR IGNORE with PRIMARY KEY(parent_id, name)
InsertName(names, c) ==
  IF \E n \in names : n.parent = c.parent /\ n.name = c.name THEN names ELSE names \cup {c}

AddPathtreeChild ==
  /\ pc = "tree"
  /\ calls # <<>>
  /\ LET c == Head(calls)
     IN  /\ work' = [work EXCEPT !.nodes = @ \cup {c.child}, !.names = InsertName(@, c)]
         /\ calls' = ChildCalls(c.child) \o Tail(calls)
  /\ UNCHANGED <<db, pc, cur, row, todo, ver>>

GetVersion(id, num) == {v \in work.vers : v.inventory_id = id /\ v.num = num}

Changed(old, new) == \E v \in old : ~Agrees(v.version, new)

\* A version row is never updated; one that does not agree with the inventory is an error.
InsertVersion ==
  /\ pc = "tree"
  /\ calls = <<>>
  /\ LET new == cur.versions[ver]
         old == GetVersion(row, ver)
         added == [inventory_id |-> row, num |-> ver, version |-> new]
     IN  /\ work' = IF old = {} THEN [work EXCEPT !.vers = @ \cup {added}] ELSE work
         /\ pc' = IF Changed(old, new) THEN "failed" ELSE "versions"
  /\ todo' = todo \ {ver}
  /\ UNCHANGED <<db, cur, row, ver, calls>>

\* PRIMARY KEY(inventory_id, node_id): a file has one content path in an object.
HasContent(id, f) == \E c \in work.cont : c.inventory_id = id /\ c.file = f

\* INSERT OR IGNORE: of the paths of a file the first one that comes, in any order;
\* nothing for a file that is in no version.
InsertContent ==
  /\ pc = "versions"
  /\ todo = {}
  /\ LET fresh == {m.file : m \in cur.manifest} \cap {f \in work.nodes : ~HasContent(row, f)}
     IN  \E first \in [fresh -> FilePaths] :
           /\ \A f \in fresh : [file |-> f, path |-> first[f]] \in cur.manifest
           /\ work' = [work EXCEPT !.cont = @ \cup
                {[inventory_id |-> row, file |-> f, path |-> first[f]] : f \in fresh}]
  /\ pc' = "open"
  /\ NoCall
  /\ UNCHANGED db

-----------------------------------------------------------------------------
Next ==
  \/ NewTx
  \/ Commit
  \/ Rollback
  \/ \E p \in Paths : IndexObjectRoot(p)
  \/ \E old \in SUBSET work.roots, enforced \in FkModes : RemoveObjectsBefore(old, enforced)
  \/ \E p \in Paths, inv \in Inventories : IndexObjectInventory(p, inv)
  \/ \E v \in todo : AddPathtreeNodes(v)
  \/ AddPathtreeChild
  \/ InsertVersion
  \/ InsertContent

Spec == Init /\ [][Next]_vars

-----------------------------------------------------------------------------
Types ==
  /\ db \in Tables
  /\ work \in Tables
  /\ pc \in {"idle", "open", "versions", "tree", "failed"}
  /\ cur \in Inventories \cup {NoInventory}
  /\ row \in Ids \cup {NoRow}
  /\ todo \subseteq Nat
  /\ ver \in Nat
  /\ calls \in Seq(NameRow)

\* The keys of schema.sql, which SQLite enforces: no statement is refused by one of them,
\* but for the root of another object (RootTaken).
KeysAreUnique(t) ==
  /\ \A r, s \in t.roots : r.id = s.id \/ r.path = s.path => r = s
  /\ \A i, j \in t.invs : i.id = j.id \/ i.inv.id = j.inv.id \/ i.root_id = j.root_id => i = j
  /\ \A v, w \in t.vers : v.inventory_id = w.inventory_id /\ v.num = w.num => v = w
  /\ \A c, d \in t.cont : c.inventory_id = d.inventory_id /\ c.file = d.file => c = d
  /\ \A n, m \in t.names : n.parent = m.parent /\ n.name = m.name => n = m

EntrySet(d) == {Entries[d][i] : i \in DOMAIN Entries[d]}

\* Each directory of the index has the entries its digest stands for, and no
\* others, whatever was indexed, given up half way or removed: a node that is
\* there needs no second look (tx.go:217-246).
TreesComplete ==
  \A d \in db.nodes \cap Dirs :
    NodeDirChildren(db, d) = EntrySet(d) /\ \A e \in EntrySet(d) : e.child \in db.nodes

\* What makes TreesComplete inductive: in the transaction each entry of a known
\* directory is there or waits for its call, and nothing else is there.
Declared(rows) ==
  rows \subseteq {n \in NameRow : [name |-> n.name, child |-> n.child] \in EntrySet(n.parent)}

NamesOf(d) == {[parent |-> d, name |-> e.name, child |-> e.child] : e \in EntrySet(d)}

Complete(t, pending) ==
  \A d \in t.nodes \cap Dirs : \A n \in NamesOf(d) :
    n \in pending \/ (n \in t.names /\ n.child \in t.nodes)

Pending == {calls[k] : k \in DOMAIN calls}

CallsOfInventory ==
  /\ pc \in {"versions", "tree"} =>
       cur \in Inventories /\ row \in Ids /\ todo \subseteq DOMAIN cur.versions
  /\ pc = "tree" => ver \in DOMAIN cur.versions
  /\ pc # "tree" => calls = <<>>

TreeInv ==
  /\ Declared(db.names) /\ Complete(db, {})
  /\ Declared(work.names) /\ Complete(work, Pending)
  /\ Declared(Pending)
  /\ CallsOfInventory

\* An object is served with one version for each of its inventory, which has its tree
\* and agrees in all that insertVersion compares, and with no other, unless it was indexed
\* before with an inventory that the last one does not extend (tx.go:104-191,
\* sqlite.go:242-281).
VersionsMatch ==
  \A i \in db.invs : i.id \notin db.reduced =>
    LET served == ListVersions(db, i.id) IN
    /\ \A v \in served : v.num \in DOMAIN i.inv.versions
    /\ \A n \in DOMAIN i.inv.versions :
         /\ \E v \in served :
              {w \in served : w.num = n} = {v} /\ Agrees(v.version, i.inv.versions[n])
         /\ i.inv.versions[n].root \in db.nodes

\* A file of a version of an indexed object can be had, and wherever a file is said to
\* be, an indexed object has it there (tx.go:193-209), under the same condition and if
\* no root lost its inventory.  Not so a file of a manifest that is in no version: its
\* node, and with it its content path, depend on what else was indexed before.
ContentServed ==
  ~db.orphaned =>
    /\ \A i \in db.invs : i.id \notin db.reduced =>
         \A f \in StateFiles[i.inv] : GetContentPath(db, f) # {}
    /\ \A f \in Files : \A answer \in GetContentPath(db, f) :
         \E j \in db.invs :
           /\ j.at = answer[1]
           /\ j.id \notin db.reduced => [file |-> f, path |-> answer[2]] \in j.inv.manifest

\* An object is found at the path where it was indexed last and nowhere else, and
\* goes with its object root, unless a root was removed over a connection that
\* does not enforce foreign keys (sqlite.go:57-64).
ServedWhereIndexed ==
  ~db.orphaned =>
    \A i \in db.invs, p \in Paths :
      (\E o \in GetObjectByPath(db, p) : o.inv = i.inv) <=> p = i.at

\* What makes the three properties above inductive.  Rows belong to an inventory that is
\* there, so that one that gets a new id, or the id of a removed one, finds no rows.
RowsOwned(t) == \A r \in t.vers \cup t.cont : \E i \in t.invs : i.id = r.inventory_id

AtRoots(t) == ~t.orphaned => \A i \in t.invs : [id |-> i.root_id, path |-> i.at] \in t.roots

\* The versions nums of an inventory are there as they should be, and no row is for a
\* version that it does not have.
HasVersion(t, i, n) ==
  /\ \E v \in t.vers :
       v.inventory_id = i.id /\ v.num = n /\ Agrees(v.version, i.inv.versions[n])
  /\ i.inv.versions[n].root \in t.nodes

HasVersions(t, i, nums) ==
  /\ \A n \in nums : HasVersion(t, i, n)
  /\ \A v \in t.vers : v.inventory_id = i.id => v.num \in DOMAIN i.inv.versions

ContentOfManifest(t, i) ==
  \A c \in t.cont : c.inventory_id = i.id => [file |-> c.file, path |-> c.path] \in i.inv.manifest

HasFiles(t, i) ==
  \A f \in StateFiles[i.inv] : \E c \in t.cont : c.inventory_id = i.id /\ c.file = f

Served(t, i) ==
  i.id \notin t.reduced =>
    HasVersions(t, i, DOMAIN i.inv.versions) /\ ContentOfManifest(t, i) /\ HasFiles(t, i)

TableInv(t) == KeysAreUnique(t) /\ RowsOwned(t) /\ AtRoots(t)

\* In the transaction all but the inventory that is being indexed are served.
ServeInv ==
  /\ TableInv(db) /\ \A i \in db.invs : Served(db, i)
  /\ TableInv(work) /\ \A i \in work.invs : i.id # row => Served(work, i)
  /\ pc \in {"idle", "open"} => row = NoRow
  /\ pc \in {"versions", "tree"} =>
       \E i \in work.invs :
         /\ i.id = row /\ i.inv = cur
         /\ row \notin work.reduced =>
              HasVersions(work, i, DOMAIN cur.versions \ todo) /\ ContentOfManifest(work, i)
  /\ pc = "tree" => ver \in todo /\ cur.versions[ver].root \in work.nodes

-----------------------------------------------------------------------------
(* What the tables amount to for those who use them: Backend. *)

ListContent(t, id) ==
  {[file |-> c.file, path |-> c.path] : c \in {d \in t.cont : d.inventory_id = id}}

Rows(t, o) == {i.id : i \in {j \in t.invs : j.inv.id = o}}

ObservedRoots(t) == {r.path : r \in t.roots}

ObservedObjects(t) ==
  {x \in [path : Paths, inv : Inventories] : \E o \in GetObjectByPath(t, x.path) : o.inv = x.inv}

ObservedVersions(t) == [o \in ObjectIDs |-> UNION {ListVersions(t, id) : id \in Rows(t, o)}]

ObservedContent(t) == [o \in ObjectIDs |-> UNION {ListContent(t, id) : id \in Rows(t, o)}]

Observed(t) ==
  [roots |-> ObservedRoots(t), objects |-> ObservedObjects(t),
   versions |-> ObservedVersions(t), content |-> ObservedContent(t)]

Calling == pc \in {"versions", "tree"}

\* While an inventory is indexed all its versions are as good as there; after a failure
\* none of the writes will ever be seen.
View ==
  IF pc = "failed" THEN Observed(db)
  ELSE IF Calling THEN [Observed(work) EXCEPT !.versions[cur.id] = WithNew(@, cur)]
  ELSE Observed(work)

Contract ==
  INSTANCE Backend WITH
    index <- Observed(db),
    view <- View,
    phase <- IF Calling THEN "calling" ELSE pc,
    call <- IF Calling THEN cur ELSE NoInventory

\* No inventory is being indexed whose row was ever given to one that does not extend the
\* one before: its old versions and content would stay (tx.go:104-209 deletes no row).
Extending == row \notin work.reduced

\* The tables do what backend.go promises: no row id, given again or not, no half-done
\* call and no shared node shows in what is read, and an inventory is replaced as Backend
\* has it.  Exceptions are a transaction in which a root has lost its inventory, and the
\* calls for an object that was ever indexed with an inventory that does not extend the one
\* before.
ImplementsBackend ==
  /\ Contract!BackendInit
  /\ [][~work'.orphaned /\ Extending => Contract!BackendNext]_(Contract!backendVars)
=============================================================================
