--------------------------- MODULE IndexStoreProofs ---------------------------
(***************************************************************************)
(* Proofs about IndexStore, for every set of inventories and directories.  *)
(* Each directory in the committed index has the entries its digest stands *)
(* for, whatever was given up half way; and each object is served with the *)
(* versions and the content of its inventory, at the path where it was     *)
(* indexed last, also when a version is taken over that agrees only in     *)
(* what is compared.  But for the exceptions stated with                   *)
(* ImplementsBackend, the tables implement Backend.                        *)
(***************************************************************************)
EXTENDS IndexStore, SequenceTheorems, WellFoundedInduction, TLAPS

IInv == Types /\ TreeInv

\* What the writes of everything but nodes and names leave alone.
SameGraph(t, u) == u \in Tables /\ u.nodes = t.nodes /\ u.names = t.names

LEMMA UpsertObjectRootKeepsGraph ==
  ASSUME NEW t \in Tables, NEW p \in Paths, RoomForRow(t)
  PROVE  LET u == UpsertObjectRoot(t, p)
         IN  /\ SameGraph(t, u) /\ u.invs = t.invs
             /\ \E r \in u.roots : r.path = p
<1>1. CASE \E r \in t.roots : r.path = p
  BY <1>1 DEF UpsertObjectRoot, SameGraph
<1>2. CASE ~\E r \in t.roots : r.path = p
  <2> DEFINE new == [id |-> NewId(t.roots), path |-> p]
  <2>1. new \in RootRow
    BY DEF RoomForRow, RootRow
  <2>2. UpsertObjectRoot(t, p) = [t EXCEPT !.roots = t.roots \cup {new}]
    BY <1>2 DEF UpsertObjectRoot
  <2>3. new.path = p
    OBVIOUS
  <2> HIDE DEF new
  <2> QED
    BY <2>1, <2>2, <2>3 DEF Tables, SameGraph
<1> QED
  BY <1>1, <1>2

LEMMA DeleteRootsKeepsGraph ==
  ASSUME NEW t \in Tables, NEW roots, NEW enforced
  PROVE SameGraph(t, DeleteRoots(t, roots, enforced))
<1> DEFINE dead == IF enforced THEN Dependents(t, roots) ELSE {}
           ids == {i.id : i \in dead}
           vers == {v \in t.vers : v.inventory_id \notin ids}
           cont == {c \in t.cont : c.inventory_id \notin ids}
           orphaned == t.orphaned \/ (~enforced /\ Dependents(t, roots) # {})
<1>1. DeleteRoots(t, roots, enforced) =
        [t EXCEPT !.roots = t.roots \ roots, !.invs = t.invs \ dead, !.vers = vers,
                  !.cont = cont, !.reduced = t.reduced \ ids, !.orphaned = orphaned]
  BY Zenon DEF DeleteRoots
<1>2. vers \subseteq t.vers /\ cont \subseteq t.cont /\ orphaned \in BOOLEAN
  BY DEF Tables
<1> HIDE DEF dead, ids, vers, cont, orphaned
<1> QED
  BY <1>1, <1>2 DEF Tables, SameGraph

LEMMA InventoryIdType ==
  ASSUME NEW t \in Tables, NEW inv, NewId(t.invs) \in Ids
  PROVE  InventoryId(t, inv) \in Ids
<1>1. \A i \in Indexed(t, inv) : i.id \in Ids
  BY DEF Indexed, Tables, InventoryRow
<1> QED
  BY <1>1 DEF InventoryId

LEMMA UpsertInventoryKeepsGraph ==
  ASSUME NEW t \in Tables, NEW p \in Paths, NEW inv \in Inventories,
         NewId(t.invs) \in Ids, \E r \in t.roots : r.path = p
  PROVE SameGraph(t, UpsertInventory(t, p, inv))
<1> DEFINE id == InventoryId(t, inv)
           root == CHOOSE r \in t.roots : r.path = p
           new == [id |-> id, root_id |-> root.id, inv |-> inv, at |-> p]
           invs == (t.invs \ Indexed(t, inv)) \cup {new}
           reduced == IF \A i \in Indexed(t, inv) : Extends(inv, i.inv)
                        THEN t.reduced ELSE t.reduced \cup {id}
<1>1. UpsertInventory(t, p, inv) = [t EXCEPT !.invs = invs, !.reduced = reduced]
  BY Zenon DEF UpsertInventory
<1>2. id \in Ids
  BY InventoryIdType
<1>3. root.id \in Ids
  <2>1. root \in t.roots
    OBVIOUS
  <2> QED
    BY <2>1 DEF Tables, RootRow
<1>4. new \in InventoryRow
  BY <1>2, <1>3 DEF InventoryRow
<1>5. invs \in SUBSET InventoryRow /\ reduced \in SUBSET Ids
  BY <1>2, <1>4 DEF Tables
<1> HIDE DEF invs, reduced
<1> QED
  BY <1>1, <1>5 DEF Tables, SameGraph

LEMMA InitIInv == Init => IInv
  BY DEF Init, EmptyTables, IInv, TreeInv, Types, Tables, Declared, Complete, Pending,
         CallsOfInventory

\* A step that leaves the graph of the transaction and the calls alone.
LEMMA KeepIInv ==
  ASSUME IInv, db' = db, SameGraph(work, work'), calls' = calls, Types', CallsOfInventory'
  PROVE IInv'
  BY DEF IInv, TreeInv, SameGraph, Declared, Complete, Pending

LEMMA TxIInv == ASSUME IInv, NewTx \/ Commit \/ Rollback PROVE IInv'
<1>1. CASE NewTx
  BY <1>1 DEF NewTx, callVars, IInv, TreeInv, Types, Declared, Complete, Pending, CallsOfInventory
<1>2. CASE Commit
  BY <1>2 DEF Commit, callVars, IInv, TreeInv, Types, Declared, Complete, Pending, CallsOfInventory
<1>3. CASE Rollback
  BY <1>3 DEF Rollback, NoCall, IInv, TreeInv, Types, Declared, Complete, Pending, CallsOfInventory
<1> QED
  BY <1>1, <1>2, <1>3

LEMMA RootsIInv ==
  ASSUME IInv,
         \/ \E p \in Paths : IndexObjectRoot(p)
         \/ \E old \in SUBSET work.roots, enforced \in FkModes : RemoveObjectsBefore(old, enforced)
  PROVE  IInv'
<1>1. work \in Tables
  BY DEF IInv, Types
<1>2. SameGraph(work, work') /\ UNCHANGED <<db, pc, callVars>>
  BY <1>1, UpsertObjectRootKeepsGraph, DeleteRootsKeepsGraph
     DEF IndexObjectRoot, RemoveObjectsBefore
<1>3. Types' /\ CallsOfInventory'
  BY <1>2 DEF IInv, TreeInv, Types, CallsOfInventory, callVars, SameGraph
<1> QED
  BY <1>2, <1>3, KeepIInv DEF callVars

LEMMA InventoryIInv ==
  ASSUME IInv, NEW p \in Paths, NEW inv \in Inventories, IndexObjectInventory(p, inv)
  PROVE  IInv'
<1> DEFINE t == UpsertObjectRoot(work, p)
<1>1. work \in Tables /\ RoomForRow(work)
  BY DEF IndexObjectInventory, IInv, Types
<1>2. SameGraph(work, t) /\ t.invs = work.invs /\ \E r \in t.roots : r.path = p
  BY <1>1, UpsertObjectRootKeepsGraph
<1>3. t \in Tables /\ NewId(t.invs) \in Ids
  BY <1>1, <1>2 DEF SameGraph, RoomForRow
<1>4. SameGraph(t, UpsertInventory(t, p, inv)) /\ InventoryId(t, inv) \in Ids
  BY <1>2, <1>3, UpsertInventoryKeepsGraph, InventoryIdType
<1> HIDE DEF t
<1>5. SameGraph(work, work') /\ UNCHANGED <<db, ver, calls>>
  BY <1>2, <1>4 DEF IndexObjectInventory, callVars, SameGraph, t
<1>6. /\ pc' = "failed" /\ UNCHANGED callVars
      \/ /\ pc' = "versions" /\ cur' = inv /\ row' \in Ids
         /\ todo' = DOMAIN inv.versions
  BY <1>4 DEF IndexObjectInventory, t
<1>7. inv.versions \in Seq(Versions) /\ DOMAIN inv.versions \subseteq Nat
  <2>1. inv.versions \in Seq(Versions)
    BY StoreAssumption DEF StoreAssumption
  <2> QED
    BY <2>1
<1>8. pc = "open"
  BY DEF IndexObjectInventory
<1>9. Types' /\ CallsOfInventory'
  BY <1>5, <1>6, <1>7, <1>8
     DEF IInv, TreeInv, Types, CallsOfInventory, callVars, SameGraph
<1> QED
  BY <1>5, <1>9, KeepIInv

LEMMA VersionOfInventory ==
  ASSUME NEW inv \in Inventories, NEW v \in DOMAIN inv.versions
  PROVE  inv.versions[v] \in Versions /\ v \in Nat /\ inv.versions[v].root \in Dirs
<1>1. inv.versions \in Seq(Versions)
  BY StoreAssumption DEF StoreAssumption
<1>2. inv.versions[v] \in Versions /\ v \in Nat
  BY <1>1
<1>3. inv.versions[v] \in [root : Dirs, meta : {w.meta : w \in Versions},
                           fraction : {w.fraction : w \in Versions}, user : {w.user : w \in Versions}]
  BY <1>2, StoreAssumption DEF StoreAssumption
<1> QED
  BY <1>2, <1>3

LEMMA InsertVersionIInv == ASSUME IInv, InsertVersion PROVE IInv'
<1> DEFINE new == [inventory_id |-> row, num |-> ver, version |-> cur.versions[ver]]
<1>1. cur \in Inventories /\ row \in Ids /\ ver \in DOMAIN cur.versions /\ calls = <<>>
  BY DEF InsertVersion, IInv, TreeInv, CallsOfInventory
<1>2. new \in VersionRow
  BY <1>1, VersionOfInventory DEF VersionRow
<1> HIDE DEF new
<1>3. work' = work \/ work' = [work EXCEPT !.vers = work.vers \cup {new}]
  BY DEF InsertVersion, GetVersion, new
<1>4. SameGraph(work, work')
  BY <1>2, <1>3 DEF IInv, Types, Tables, SameGraph
<1>5. pc' \in {"versions", "failed"} /\ todo' \subseteq todo /\ UNCHANGED <<db, cur, row, ver, calls>>
  BY DEF InsertVersion
<1>6. pc = "tree"
  BY DEF InsertVersion
<1>7. Types' /\ CallsOfInventory'
  BY <1>1, <1>4, <1>5, <1>6 DEF IInv, TreeInv, Types, CallsOfInventory, SameGraph
<1> QED
  BY <1>4, <1>5, <1>7, KeepIInv

LEMMA InsertContentIInv == ASSUME IInv, InsertContent PROVE IInv'
<1>1. cur \in Inventories /\ row \in Ids /\ calls = <<>>
  BY DEF InsertContent, IInv, TreeInv, CallsOfInventory
<1>2. PICK rows : rows \subseteq ContentRow /\ work' = [work EXCEPT !.cont = work.cont \cup rows]
  <2>1. cur.manifest \subseteq ContentFile
    BY <1>1, StoreAssumption DEF StoreAssumption
  <2> DEFINE fresh == {m.file : m \in cur.manifest} \cap {f \in work.nodes : ~HasContent(row, f)}
  <2>2. PICK first \in [fresh -> FilePaths] :
          work' = [work EXCEPT !.cont = work.cont \cup
            {[inventory_id |-> row, file |-> f, path |-> first[f]] : f \in fresh}]
    BY Zenon DEF InsertContent
  <2>3. fresh \subseteq Files
    BY <2>1 DEF ContentFile
  <2> HIDE DEF fresh
  <2> DEFINE rows == {[inventory_id |-> row, file |-> f, path |-> first[f]] : f \in fresh}
  <2>4. rows \subseteq ContentRow
    BY <1>1, <2>3 DEF ContentRow
  <2> QED
    BY <2>2, <2>4
<1>3. SameGraph(work, work')
  BY <1>2 DEF IInv, Types, Tables, SameGraph
<1>4. pc' = "open" /\ db' = db /\ NoCall
  BY DEF InsertContent
<1>5. Types' /\ CallsOfInventory'
  BY <1>3, <1>4 DEF NoCall, IInv, TreeInv, Types, CallsOfInventory, SameGraph
<1>6. calls' = calls
  BY <1>1, <1>4 DEF NoCall
<1> QED
  BY <1>3, <1>4, <1>5, <1>6, KeepIInv

\* The calls for a node are the names of its entries, if it is new.
LEMMA ChildCallsAreNames ==
  ASSUME IInv, NEW sum \in Sums
  PROVE  /\ ChildCalls(sum) \in Seq(NameRow)
         /\ \A k \in DOMAIN ChildCalls(sum) : sum \in Dirs /\ ChildCalls(sum)[k] \in NamesOf(sum)
         /\ sum \in Dirs \ work.nodes =>
              \A n \in NamesOf(sum) : \E k \in DOMAIN ChildCalls(sum) : n = ChildCalls(sum)[k]
<1>1. CASE sum \in work.nodes \cup Files
  <2>1. ChildCalls(sum) = <<>>
    BY <1>1 DEF ChildCalls, GetNodeSum
  <2>2. sum \notin Dirs \ work.nodes
    BY <1>1, StoreAssumption DEF StoreAssumption
  <2> QED
    BY <2>1, <2>2
<1>2. CASE sum \notin work.nodes \cup Files
  <2>1. sum \in Dirs /\ Entries[sum] \in Seq(Entry)
    BY <1>2, StoreAssumption DEF StoreAssumption, Sums
  <2>2. \A i \in DOMAIN Entries[sum] : Entries[sum][i] \in Entry
    BY <2>1
  <2> DEFINE N(i) == [parent |-> sum, name |-> Entries[sum][i].name, child |-> Entries[sum][i].child]
  <2>3. ChildCalls(sum) = [i \in 1..Len(Entries[sum]) |-> N(i)]
    BY <1>2, <2>1 DEF ChildCalls, GetNodeSum
  <2>4. \A i \in 1..Len(Entries[sum]) : N(i) \in NameRow /\ N(i) \in NamesOf(sum)
    BY <2>1, <2>2 DEF NameRow, Entry, NamesOf, EntrySet
  <2>5. \A n \in NamesOf(sum) : \E i \in 1..Len(Entries[sum]) : n = N(i)
    BY <2>1 DEF NamesOf, EntrySet
  <2>6. Len(Entries[sum]) \in Nat
    BY <2>1
  <2> HIDE DEF N
  <2>7. ChildCalls(sum) \in Seq(NameRow) /\ DOMAIN ChildCalls(sum) = 1..Len(Entries[sum])
    BY <2>3, <2>4, <2>6
  <2> QED
    BY <2>1, <2>3, <2>4, <2>5, <2>7
<1> QED
  BY <1>1, <1>2

LEMMA NamesAreDeclared ==
  ASSUME NEW d \in Dirs PROVE Declared(NamesOf(d))
<1>1. Entries[d] \in Seq(Entry)
  BY StoreAssumption DEF StoreAssumption
<1>2. \A e \in EntrySet(d) : e \in Entry
  BY <1>1 DEF EntrySet
<1>3. \A e \in EntrySet(d) : e = [name |-> e.name, child |-> e.child]
  BY <1>2 DEF Entry
<1> QED
  BY <1>2, <1>3 DEF Declared, NamesOf, NameRow, Entry

\* A name that is declared is in the table or can be added: its key is not taken.
LEMMA InsertNameAdds ==
  ASSUME NEW names, Declared(names), NEW c \in NameRow, Declared({c})
  PROVE  InsertName(names, c) = names \cup {c}
<1> SUFFICES ASSUME NEW n \in names, n.parent = c.parent, n.name = c.name
             PROVE  n = c
  BY DEF InsertName
<1>1. n \in NameRow /\ n.parent \in Dirs
  BY DEF Declared, NameRow
<1>2. PICK i \in DOMAIN Entries[c.parent] :
        Entries[c.parent][i] = [name |-> n.name, child |-> n.child]
  BY DEF Declared, EntrySet
<1>3. PICK j \in DOMAIN Entries[c.parent] :
        Entries[c.parent][j] = [name |-> c.name, child |-> c.child]
  BY DEF Declared, EntrySet
<1>4. i = j
  <2>1. Entries[c.parent][i].name = Entries[c.parent][j].name
    BY <1>2, <1>3
  <2> QED
    BY <1>1, <2>1, StoreAssumption DEF StoreAssumption
<1>5. n.child = c.child
  <2>1. Entries[c.parent][i].child = n.child /\ Entries[c.parent][i].child = c.child
    BY <1>2, <1>3, <1>4
  <2> QED
    BY <2>1
<1> QED
  BY <1>1, <1>5 DEF NameRow

LEMMA AddPathtreeNodesIInv ==
  ASSUME IInv, NEW v \in todo, AddPathtreeNodes(v) PROVE IInv'
<1> DEFINE root == cur.versions[v].root
<1>1. /\ cur \in Inventories /\ row \in Ids /\ todo \subseteq DOMAIN cur.versions
      /\ calls = <<>> /\ pc = "versions"
  BY DEF AddPathtreeNodes, IInv, TreeInv, CallsOfInventory
<1>2. v \in Nat /\ root \in Dirs /\ root \in Sums
  BY <1>1, VersionOfInventory DEF Sums
<1>3. /\ work' = [work EXCEPT !.nodes = work.nodes \cup {root}]
      /\ calls' = ChildCalls(root)
      /\ ver' = v /\ pc' = "tree" /\ UNCHANGED <<db, cur, row, todo>>
  BY DEF AddPathtreeNodes
<1> HIDE DEF root
<1>4. /\ work' \in Tables
      /\ work'.nodes = work.nodes \cup {root}
      /\ work'.names = work.names
  BY <1>2, <1>3 DEF IInv, Types, Tables
<1>5. Types' /\ CallsOfInventory'
  BY <1>1, <1>2, <1>3, <1>4, ChildCallsAreNames DEF IInv, TreeInv, Types, CallsOfInventory
<1>6. Declared(work'.names) /\ Declared(Pending')
  <2>1. Pending' \subseteq NamesOf(root)
    BY <1>2, <1>3, ChildCallsAreNames DEF Pending
  <2> QED
    BY <1>2, <1>4, <2>1, NamesAreDeclared DEF Declared, IInv, TreeInv
<1>7. Complete(work', Pending')
  <2> SUFFICES ASSUME NEW d \in work'.nodes \cap Dirs, NEW n \in NamesOf(d)
               PROVE  n \in Pending' \/ (n \in work'.names /\ n.child \in work'.nodes)
    BY DEF Complete
  <2>1. CASE d \in work.nodes
    <3>1. Pending = {}
      BY <1>1 DEF Pending
    <3> QED
      BY <1>4, <2>1, <3>1 DEF IInv, TreeInv, Complete
  <2>2. CASE d \notin work.nodes
    <3>1. d = root
      BY <1>4, <2>2
    <3> QED
      BY <1>2, <1>3, <2>2, <3>1, ChildCallsAreNames DEF Pending
  <2> QED
    BY <2>1, <2>2
<1> QED
  BY <1>3, <1>5, <1>6, <1>7 DEF IInv, TreeInv

LEMMA AddPathtreeChildIInv == ASSUME IInv, AddPathtreeChild PROVE IInv'
<1> DEFINE c == Head(calls)
           new == ChildCalls(c.child)
           rest == Tail(calls)
<1>1. /\ cur \in Inventories /\ row \in Ids /\ pc = "tree"
      /\ calls \in Seq(NameRow) /\ calls # <<>>
  BY DEF AddPathtreeChild, IInv, TreeInv, Types, CallsOfInventory
<1>2. c \in NameRow /\ c \in Pending /\ c.child \in Sums
  <2>1. c = calls[1] /\ 1 \in DOMAIN calls /\ c \in NameRow
    BY <1>1
  <2> HIDE DEF c
  <2> QED
    BY <2>1 DEF Pending, NameRow
<1>3. /\ work' = [work EXCEPT !.nodes = work.nodes \cup {c.child},
                              !.names = InsertName(work.names, c)]
      /\ calls' = new \o rest
      /\ UNCHANGED <<db, pc, cur, row, todo, ver>>
  BY DEF AddPathtreeChild
<1>4. InsertName(work.names, c) = work.names \cup {c}
  <2>1. Declared({c}) /\ Declared(work.names)
    BY <1>2 DEF IInv, TreeInv, Declared
  <2> QED
    BY <1>2, <2>1, InsertNameAdds
<1>5. new \in Seq(NameRow) /\ rest \in Seq(NameRow)
  BY <1>1, <1>2, ChildCallsAreNames, HeadTailProperties
<1>6. Pending = {c} \cup {rest[k] : k \in DOMAIN rest}
  <2>1. /\ Len(rest) = Len(calls) - 1 /\ Len(calls) \in Nat \ {0}
        /\ DOMAIN rest = 1..Len(rest) /\ DOMAIN calls = 1..Len(calls)
        /\ \A k \in 1..Len(rest) : rest[k] = calls[k+1]
        /\ c = calls[1]
    BY <1>1, <1>5, HeadTailProperties
  <2>2. \A k \in 1..Len(calls) : k = 1 \/ (k - 1 \in 1..Len(rest) /\ calls[k] = rest[k-1])
    BY <2>1
  <2>3. \A k \in 1..Len(rest) : k + 1 \in 1..Len(calls)
    BY <2>1
  <2> HIDE DEF c, rest
  <2>4. Pending \subseteq {c} \cup {rest[k] : k \in DOMAIN rest}
    BY <2>1, <2>2 DEF Pending
  <2>5. {rest[k] : k \in DOMAIN rest} \subseteq Pending
    BY <2>1, <2>3 DEF Pending
  <2> QED
    BY <1>2, <2>4, <2>5
<1>7. /\ calls' \in Seq(NameRow)
      /\ Pending' = {new[k] : k \in DOMAIN new} \cup {rest[k] : k \in DOMAIN rest}
  <2> HIDE DEF new, rest
  <2>1. /\ calls' \in Seq(NameRow) /\ DOMAIN calls' = 1..(Len(new) + Len(rest))
        /\ DOMAIN new = 1..Len(new) /\ DOMAIN rest = 1..Len(rest)
        /\ Len(new) \in Nat /\ Len(rest) \in Nat
    BY <1>3, <1>5, ConcatProperties
  <2>2. \A k \in 1..(Len(new) + Len(rest)) :
          calls'[k] = IF k <= Len(new) THEN new[k] ELSE rest[k - Len(new)]
    BY <1>3, <1>5, ConcatProperties
  <2>3. \A k \in 1..(Len(new) + Len(rest)) :
          k \in 1..Len(new) \/ k - Len(new) \in 1..Len(rest)
    BY <2>1
  <2>4. \A k \in 1..Len(rest) : /\ k + Len(new) \in 1..(Len(new) + Len(rest))
                                /\ calls'[k + Len(new)] = rest[k]
    BY <2>1, <2>2
  <2>5. \A k \in 1..Len(new) : k \in 1..(Len(new) + Len(rest)) /\ calls'[k] = new[k]
    BY <2>1, <2>2
  <2>6. Pending' \subseteq {new[k] : k \in DOMAIN new} \cup {rest[k] : k \in DOMAIN rest}
    <3> SUFFICES ASSUME NEW k \in 1..(Len(new) + Len(rest))
                 PROVE  calls'[k] \in {new[i] : i \in DOMAIN new} \cup {rest[i] : i \in DOMAIN rest}
      BY <2>1 DEF Pending
    <3>1. CASE k <= Len(new)
      BY <2>1, <2>2, <3>1
    <3>2. CASE ~(k <= Len(new))
      BY <2>1, <2>2, <2>3, <3>2
    <3> QED
      BY <3>1, <3>2
  <2>7. {new[k] : k \in DOMAIN new} \cup {rest[k] : k \in DOMAIN rest} \subseteq Pending'
    BY <2>1, <2>4, <2>5 DEF Pending
  <2> QED
    BY <2>1, <2>6, <2>7
<1>8. /\ work' \in Tables
      /\ work'.nodes = work.nodes \cup {c.child}
      /\ work'.names = work.names \cup {c}
  <2>1. work.names \cup {c} \in SUBSET NameRow /\ work.nodes \cup {c.child} \in SUBSET Sums
    BY <1>2 DEF IInv, Types, Tables
  <2> HIDE DEF c
  <2> QED
    BY <1>3, <1>4, <2>1 DEF IInv, Types, Tables
<1>9. Types' /\ CallsOfInventory'
  BY <1>1, <1>3, <1>7, <1>8 DEF IInv, TreeInv, Types, CallsOfInventory
<1>10. /\ \A k \in DOMAIN new : c.child \in Dirs /\ new[k] \in NamesOf(c.child)
       /\ c.child \in Dirs \ work.nodes => NamesOf(c.child) \subseteq {new[k] : k \in DOMAIN new}
  BY <1>2, ChildCallsAreNames
<1> HIDE DEF c, new, rest
<1>11. Declared(work'.names) /\ Declared(Pending')
  <2>1. Declared({new[k] : k \in DOMAIN new})
    BY <1>10, NamesAreDeclared DEF Declared
  <2> QED
    BY <1>2, <1>6, <1>7, <1>8, <2>1 DEF Declared, IInv, TreeInv
<1>12. Complete(work', Pending')
  <2> SUFFICES ASSUME NEW d \in work'.nodes \cap Dirs, NEW n \in NamesOf(d)
               PROVE  n \in Pending' \/ (n \in work'.names /\ n.child \in work'.nodes)
    BY DEF Complete
  <2>1. CASE d \in work.nodes
    BY <1>6, <1>7, <1>8, <2>1 DEF IInv, TreeInv, Complete
  <2>2. CASE d \notin work.nodes
    BY <1>7, <1>8, <1>10, <2>2
  <2> QED
    BY <2>1, <2>2
<1> QED
  BY <1>3, <1>9, <1>11, <1>12 DEF IInv, TreeInv

LEMMA NextIInv == IInv /\ [Next]_vars => IInv'
<1> SUFFICES ASSUME IInv, [Next]_vars PROVE IInv'
  OBVIOUS
<1>1. CASE NewTx \/ Commit \/ Rollback
  BY <1>1, TxIInv
<1>2. CASE \/ \E p \in Paths : IndexObjectRoot(p)
           \/ \E old \in SUBSET work.roots, enforced \in FkModes : RemoveObjectsBefore(old, enforced)
  BY <1>2, RootsIInv
<1>3. CASE \E p \in Paths, inv \in Inventories : IndexObjectInventory(p, inv)
  BY <1>3, InventoryIInv
<1>4. CASE \E v \in todo : AddPathtreeNodes(v)
  BY <1>4, AddPathtreeNodesIInv
<1>5. CASE AddPathtreeChild
  BY <1>5, AddPathtreeChildIInv
<1>6. CASE InsertVersion
  BY <1>6, InsertVersionIInv
<1>7. CASE InsertContent
  BY <1>7, InsertContentIInv
<1>8. CASE UNCHANGED vars
  BY <1>8 DEF vars, callVars, IInv, Types, TreeInv, Declared, Complete, Pending, CallsOfInventory
<1> QED
  BY <1>1, <1>2, <1>3, <1>4, <1>5, <1>6, <1>7, <1>8 DEF Next

\* The transaction and the index keep their types, and what the transaction has
\* added to the trees is complete but for the calls that are still to be made.
THEOREM StoreInvariant == Spec => []IInv
<1>1. Init => IInv
  BY InitIInv
<1>2. IInv /\ [Next]_vars => IInv'
  BY NextIInv
<1> QED
  BY <1>1, <1>2, PTL DEF Spec

LEMMA CompleteTrees == ASSUME IInv PROVE TreesComplete
<1> SUFFICES ASSUME NEW d \in db.nodes \cap Dirs
             PROVE  /\ NodeDirChildren(db, d) = EntrySet(d)
                    /\ \A e \in EntrySet(d) : e.child \in db.nodes
  BY DEF TreesComplete
<1>1. \A e \in EntrySet(d) : e \in Entry
  BY StoreAssumption DEF StoreAssumption, EntrySet
<1>2. \A e \in EntrySet(d) : LET n == [parent |-> d, name |-> e.name, child |-> e.child]
                             IN  n \in db.names /\ n.child \in db.nodes
  BY DEF IInv, TreeInv, Complete, NamesOf
<1>3. \A e \in EntrySet(d) : e = [name |-> e.name, child |-> e.child] /\ e.child \in db.nodes
  <2> SUFFICES ASSUME NEW e \in EntrySet(d)
               PROVE  e = [name |-> e.name, child |-> e.child] /\ e.child \in db.nodes
    OBVIOUS
  <2>1. e = [name |-> e.name, child |-> e.child]
    BY <1>1 DEF Entry
  <2> DEFINE n == [parent |-> d, name |-> e.name, child |-> e.child]
  <2>2. n.child \in db.nodes /\ n.child = e.child
    BY <1>2
  <2> HIDE DEF n
  <2> QED
    BY <2>1, <2>2
<1>4. EntrySet(d) \subseteq NodeDirChildren(db, d)
  <2> SUFFICES ASSUME NEW e \in EntrySet(d) PROVE e \in NodeDirChildren(db, d)
    OBVIOUS
  <2> DEFINE n == [parent |-> d, name |-> e.name, child |-> e.child]
  <2>1. n \in db.names /\ n.parent = d /\ n.name = e.name /\ n.child = e.child
    BY <1>2
  <2> HIDE DEF n
  <2> QED
    BY <1>3, <2>1 DEF NodeDirChildren
<1>5. NodeDirChildren(db, d) \subseteq EntrySet(d)
  BY DEF NodeDirChildren, IInv, TreeInv, Declared
<1> QED
  BY <1>3, <1>4, <1>5

\* Every directory of the committed index has exactly the entries of its digest,
\* so that the states of all versions are served as they are (tx.go:217-246).
THEOREM TreesStayComplete == Spec => []TreesComplete
<1>1. IInv => TreesComplete
  BY CompleteTrees
<1> QED
  BY <1>1, StoreInvariant, PTL

-----------------------------------------------------------------------------
\* Row ids.  The largest of a set of ids exists, so that a new id is above all in use.

LEMMA MinExists ==
  ASSUME NEW S, S \subseteq Nat, S # {}
  PROVE  \E x \in S : \A y \in S : x <= y
<1>1. \E x \in S : \A y \in S : ~(<<y, x>> \in OpToRel(<, Nat))
  BY NatLessThanWellFounded, WFMin, Zenon
<1>2. PICK x \in S : \A y \in S : ~(<<y, x>> \in OpToRel(<, Nat))
  BY <1>1, Zenon
<1>3. \A y \in S : ~(y < x)
  BY <1>2 DEF OpToRel
<1> QED
  BY <1>3

LEMMA IdsAreNumbers == Ids \subseteq Nat /\ NoRow \notin Ids
  BY StoreAssumption DEF StoreAssumption, Ids, NoRow

LEMMA MaxOfIds ==
  ASSUME NEW S, S \subseteq Ids, S # {}
  PROVE  Max(S) \in S /\ \A y \in S : y <= Max(S)
<1> DEFINE T == {MaxId - y : y \in S}
<1>1. T \subseteq Nat /\ T # {}
  BY StoreAssumption DEF StoreAssumption, Ids
<1> HIDE DEF T
<1>2. PICK x \in T : \A z \in T : x <= z
  BY <1>1, MinExists
<1>3. PICK m \in S : x = MaxId - m
  BY DEF T
<1>4. \A y \in S : MaxId - y \in T /\ y \in Int /\ MaxId \in Int
  BY StoreAssumption DEF StoreAssumption, Ids, T
<1>5. \A y \in S : m >= y
  BY <1>2, <1>3, <1>4
<1> DEFINE Largest(k) == k \in S /\ \A y \in S : k >= y
<1>6. Largest(Max(S))
  BY <1>5, Zenon DEF Max
<1> QED
  BY <1>4, <1>6

LEMMA NewIdIsNew ==
  ASSUME NEW rows, \A r \in rows : r.id \in Ids
  PROVE  \A r \in rows : r.id # NewId(rows)
<1> SUFFICES ASSUME NEW r \in rows PROVE r.id # NewId(rows)
  OBVIOUS
<1> DEFINE S == {q.id : q \in rows}
<1>1. S \subseteq Ids /\ r.id \in S
  OBVIOUS
<1>2. NewId(rows) = Max(S) + 1
  BY DEF NewId
<1> HIDE DEF S
<1>3. Max(S) \in S /\ r.id <= Max(S)
  BY <1>1, MaxOfIds
<1>4. Max(S) \in Nat /\ r.id \in Nat
  BY <1>1, <1>3, IdsAreNumbers
<1> HIDE DEF Ids
<1> QED
  BY <1>2, <1>3, <1>4

-----------------------------------------------------------------------------
\* ServeInv, statement by statement: what a statement writes keeps the keys unique, the
\* rows owned and the inventories at their roots, and an inventory that is served is
\* served still.

StoreIInv == IInv /\ ServeInv

LEMMA StillHasVersions ==
  ASSUME NEW t, NEW u, NEW i, NEW nums, u.vers = t.vers, t.nodes \subseteq u.nodes
  PROVE  HasVersions(t, i, nums) => HasVersions(u, i, nums)
  BY DEF HasVersions, HasVersion

LEMMA StillServed ==
  ASSUME NEW t, NEW u, NEW i, u.vers = t.vers, u.cont = t.cont, t.nodes \subseteq u.nodes,
         i.id \in t.reduced => i.id \in u.reduced
  PROVE  Served(t, i) => Served(u, i)
<1>1. HasVersions(t, i, DOMAIN i.inv.versions) => HasVersions(u, i, DOMAIN i.inv.versions)
  BY StillHasVersions
<1> QED
  BY <1>1 DEF Served, ContentOfManifest, HasFiles

\* A directory has one entry of a name, whatever the order its names were added in.
LEMMA NamesAreUnique ==
  ASSUME NEW names, Declared(names)
  PROVE  \A n, m \in names : n.parent = m.parent /\ n.name = m.name => n = m
<1> SUFFICES ASSUME NEW n \in names, NEW m \in names, n.parent = m.parent, n.name = m.name
             PROVE  n = m
  OBVIOUS
<1>1. m \in NameRow /\ Declared({m})
  BY DEF Declared
<1>2. InsertName({n}, m) = {n} \cup {m}
  <2>1. Declared({n})
    BY DEF Declared
  <2> QED
    BY <1>1, <2>1, InsertNameAdds
<1>3. InsertName({n}, m) = {n}
  BY DEF InsertName
<1> QED
  BY <1>2, <1>3

LEMMA RootServes ==
  ASSUME NEW t \in Tables, NEW p \in Paths, RoomForRow(t), TableInv(t)
  PROVE  LET u == UpsertObjectRoot(t, p)
         IN  /\ TableInv(u)
             /\ u.invs = t.invs /\ u.vers = t.vers /\ u.cont = t.cont /\ u.nodes = t.nodes
             /\ u.reduced = t.reduced
<1>1. CASE \E r \in t.roots : r.path = p
  BY <1>1 DEF UpsertObjectRoot
<1>2. CASE ~\E r \in t.roots : r.path = p
  <2> DEFINE new == [id |-> NewId(t.roots), path |-> p]
             u == [t EXCEPT !.roots = t.roots \cup {new}]
  <2>1. UpsertObjectRoot(t, p) = u
    BY <1>2 DEF UpsertObjectRoot
  <2>2. \A r \in t.roots : r.id # new.id /\ r.path # new.path
    <3>1. \A r \in t.roots : r.id \in Ids
      BY DEF Tables, RootRow
    <3> QED
      BY <1>2, <3>1, NewIdIsNew
  <2> HIDE DEF new
  <2>3. /\ u.roots = t.roots \cup {new}
        /\ u.invs = t.invs /\ u.vers = t.vers /\ u.cont = t.cont /\ u.nodes = t.nodes
        /\ u.names = t.names /\ u.reduced = t.reduced /\ u.orphaned = t.orphaned
    BY DEF Tables
  <2> HIDE DEF u
  <2>4. TableInv(u)
    BY <2>2, <2>3 DEF TableInv, KeysAreUnique, RowsOwned, AtRoots
  <2> QED
    BY <2>1, <2>3, <2>4
<1> QED
  BY <1>1, <1>2

\* Rows that go with their root, and inventories that outlive it without foreign keys.
LEMMA DeleteServes ==
  ASSUME NEW t \in Tables, NEW roots \in SUBSET t.roots, NEW enforced \in BOOLEAN, TableInv(t)
  PROVE  LET u == DeleteRoots(t, roots, enforced)
         IN  TableInv(u) /\ u.invs \subseteq t.invs /\ \A i \in u.invs : Served(t, i) => Served(u, i)
<1> DEFINE dead == IF enforced THEN Dependents(t, roots) ELSE {}
           ids == {i.id : i \in dead}
           vers == {v \in t.vers : v.inventory_id \notin ids}
           cont == {c \in t.cont : c.inventory_id \notin ids}
           orphaned == t.orphaned \/ (~enforced /\ Dependents(t, roots) # {})
           u == [t EXCEPT !.roots = t.roots \ roots, !.invs = t.invs \ dead, !.vers = vers,
                          !.cont = cont, !.reduced = t.reduced \ ids, !.orphaned = orphaned]
<1>1. DeleteRoots(t, roots, enforced) = u
  BY Zenon DEF DeleteRoots
<1>2. dead \subseteq t.invs
  BY DEF Dependents
<1>3. \A i \in t.invs : i \notin dead => i.id \notin ids
  BY <1>2 DEF TableInv, KeysAreUnique
<1>4. ~orphaned => ~t.orphaned /\ \A i \in t.invs \ dead : \A r \in roots : r.id # i.root_id
  BY DEF Dependents
<1>5. /\ vers \subseteq t.vers /\ \A v \in t.vers : v \notin vers => v.inventory_id \in ids
      /\ \A v \in vers : v.inventory_id \notin ids
      /\ cont \subseteq t.cont /\ \A c \in t.cont : c \notin cont => c.inventory_id \in ids
      /\ \A c \in cont : c.inventory_id \notin ids
  OBVIOUS
<1>6. \A i \in dead : i.id \in ids
  OBVIOUS
<1> HIDE DEF dead, ids, vers, cont, orphaned
<1>7. /\ u.roots = t.roots \ roots /\ u.invs = t.invs \ dead /\ u.vers = vers /\ u.cont = cont
      /\ u.nodes = t.nodes /\ u.names = t.names
      /\ u.reduced = t.reduced \ ids /\ u.orphaned = orphaned
  BY DEF Tables
<1> HIDE DEF u
<1>8. KeysAreUnique(u)
  BY <1>5, <1>7 DEF TableInv, KeysAreUnique
<1>9. RowsOwned(u)
  BY <1>5, <1>6, <1>7 DEF TableInv, RowsOwned
<1>10. AtRoots(u)
  BY <1>4, <1>7 DEF TableInv, AtRoots
<1>11. ASSUME NEW i \in u.invs, Served(t, i) PROVE Served(u, i)
  <2>1. i.id \notin ids /\ (i.id \notin u.reduced => i.id \notin t.reduced)
    BY <1>3, <1>7
  <2>2. \A nums : HasVersions(t, i, nums) => HasVersions(u, i, nums)
    <3> SUFFICES ASSUME NEW nums, HasVersions(t, i, nums) PROVE HasVersions(u, i, nums)
      OBVIOUS
    <3>1. \A v \in t.vers : v.inventory_id = i.id => v \in u.vers
      BY <1>5, <1>7, <2>1
    <3> QED
      BY <1>5, <1>7, <3>1 DEF HasVersions, HasVersion
  <2>3. ContentOfManifest(t, i) => ContentOfManifest(u, i)
    BY <1>5, <1>7 DEF ContentOfManifest
  <2>4. HasFiles(t, i) => HasFiles(u, i)
    BY <1>5, <1>7, <2>1 DEF HasFiles
  <2> QED
    BY <1>11, <2>1, <2>2, <2>3, <2>4 DEF Served
<1> QED
  BY <1>1, <1>7, <1>8, <1>9, <1>10, <1>11 DEF TableInv

\* The row that is updated, if there is one, is the one of the object.
LEMMA InventoryRowIsOwn ==
  ASSUME NEW t \in Tables, NEW inv \in Inventories, TableInv(t)
  PROVE  LET id == InventoryId(t, inv)
         IN  /\ \A i \in Indexed(t, inv) : i.id = id
             /\ \A i \in t.invs \ Indexed(t, inv) : i.id # id /\ i.inv.id # inv.id
<1>1. Indexed(t, inv) \subseteq t.invs
  BY DEF Indexed
<1>2. \A i, j \in Indexed(t, inv) : i = j
  BY DEF Indexed, TableInv, KeysAreUnique
<1>3. \A i \in t.invs \ Indexed(t, inv) : i.inv.id # inv.id
  BY DEF Indexed
<1>4. CASE Indexed(t, inv) = {}
  <2>1. InventoryId(t, inv) = NewId(t.invs)
    BY <1>4 DEF InventoryId
  <2>2. \A i \in t.invs : i.id # NewId(t.invs)
    <3>1. \A i \in t.invs : i.id \in Ids
      BY DEF Tables, InventoryRow
    <3> QED
      BY <3>1, NewIdIsNew
  <2> QED
    BY <1>3, <1>4, <2>1, <2>2
<1>5. CASE Indexed(t, inv) # {}
  <2>1. PICK i \in Indexed(t, inv) : InventoryId(t, inv) = i.id
    BY <1>5, Zenon DEF InventoryId
  <2> QED
    BY <1>1, <1>2, <1>3, <2>1 DEF TableInv, KeysAreUnique
<1> QED
  BY <1>4, <1>5

\* The row of an object that is indexed again takes over the versions and the content of
\* the inventory before, which the new one has; a new row finds none.
LEMMA UpsertInventoryServes ==
  ASSUME NEW t \in Tables, NEW p \in Paths, NEW inv \in Inventories, TableInv(t),
         \E r \in t.roots : r.path = p, ~RootTaken(t, p, inv), \A i \in t.invs : Served(t, i)
  PROVE  LET u == UpsertInventory(t, p, inv)
             id == InventoryId(t, inv)
         IN  /\ TableInv(u)
             /\ \A i \in u.invs : i.id # id => Served(u, i)
             /\ \E i \in u.invs :
                  /\ i.id = id /\ i.inv = inv
                  /\ id \notin u.reduced => HasVersions(u, i, {}) /\ ContentOfManifest(u, i)
<1> DEFINE id == InventoryId(t, inv)
           old == Indexed(t, inv)
           root == CHOOSE r \in t.roots : r.path = p
           new == [id |-> id, root_id |-> root.id, inv |-> inv, at |-> p]
           invs == (t.invs \ old) \cup {new}
           reduced == IF \A i \in old : Extends(inv, i.inv) THEN t.reduced ELSE t.reduced \cup {id}
           u == [t EXCEPT !.invs = invs, !.reduced = reduced]
<1>1. UpsertInventory(t, p, inv) = u
  BY Zenon DEF UpsertInventory
<1>2. /\ \A i \in old : i.id = id
      /\ \A i \in t.invs \ old : i.id # id /\ i.inv.id # inv.id
  BY InventoryRowIsOwn
<1>3. root \in t.roots /\ root = [id |-> root.id, path |-> p]
  <2>1. root \in t.roots /\ root.path = p
    BY Zenon
  <2>2. root \in RootRow
    BY <2>1 DEF Tables
  <2> HIDE DEF root
  <2> QED
    BY <2>1, <2>2 DEF RootRow
<1> HIDE DEF root
<1>4. \A i \in t.invs \ old : i.root_id # root.id
  BY <1>3 DEF RootTaken
<1>5. new.id = id /\ new.root_id = root.id /\ new.inv = inv /\ new.at = p
  OBVIOUS
<1>6. old \subseteq t.invs
  BY DEF Indexed
<1>7. /\ t.reduced \subseteq reduced
      /\ id \notin reduced => \A i \in old : Extends(inv, i.inv)
  OBVIOUS
<1> HIDE DEF id, old, new, reduced
<1>8. /\ u.invs = (t.invs \ old) \cup {new} /\ u.reduced = reduced
      /\ u.roots = t.roots /\ u.vers = t.vers /\ u.cont = t.cont
      /\ u.nodes = t.nodes /\ u.names = t.names /\ u.orphaned = t.orphaned
  BY DEF Tables
<1> HIDE DEF u
<1>9. KeysAreUnique(u)
  BY <1>2, <1>4, <1>5, <1>8 DEF TableInv, KeysAreUnique
<1>10. RowsOwned(u)
  BY <1>2, <1>5, <1>8 DEF TableInv, RowsOwned
<1>11. AtRoots(u)
  BY <1>3, <1>5, <1>8 DEF TableInv, AtRoots
<1>12. ASSUME NEW i \in u.invs, i.id # id PROVE Served(u, i)
  <2>1. i \in t.invs
    BY <1>5, <1>8, <1>12
  <2> QED
    BY <1>7, <1>8, <2>1, StillServed
<1>13. ASSUME id \notin u.reduced PROVE HasVersions(u, new, {}) /\ ContentOfManifest(u, new)
  <2>1. CASE old = {}
    <3>1. \A r \in t.vers \cup t.cont : r.inventory_id # id
      BY <1>2, <2>1 DEF TableInv, RowsOwned
    <3> QED
      BY <1>5, <1>8, <3>1 DEF HasVersions, HasVersion, ContentOfManifest
  <2>2. CASE old # {}
    <3>1. PICK i \in old : i \in t.invs /\ i.id = id /\ Extends(inv, i.inv)
      BY <1>2, <1>6, <1>7, <1>8, <1>13, <2>2
    <3>2. HasVersions(t, i, DOMAIN i.inv.versions) /\ ContentOfManifest(t, i)
      BY <1>7, <1>8, <1>13, <3>1 DEF Served
    <3>3. DOMAIN i.inv.versions \subseteq DOMAIN inv.versions
      <4>1. i.inv \in Inventories
        BY <3>1 DEF Tables, InventoryRow
      <4>2. i.inv.versions \in Seq(Versions) /\ inv.versions \in Seq(Versions)
        BY <4>1, StoreAssumption DEF StoreAssumption
      <4>3. Len(i.inv.versions) <= Len(inv.versions)
        BY <3>1 DEF Extends
      <4> QED
        BY <4>2, <4>3
    <3>4. HasVersions(u, new, {})
      BY <1>5, <1>8, <3>1, <3>2, <3>3 DEF HasVersions, HasVersion
    <3>5. ContentOfManifest(u, new)
      BY <1>5, <1>8, <3>1, <3>2 DEF ContentOfManifest, Extends
    <3> QED
      BY <3>4, <3>5
  <2> QED
    BY <2>1, <2>2
<1> QED
  BY <1>1, <1>5, <1>8, <1>9, <1>10, <1>11, <1>12, <1>13 DEF TableInv, id

LEMMA InitStoreIInv == Init => StoreIInv
<1> SUFFICES ASSUME Init PROVE ServeInv
  BY InitIInv DEF StoreIInv
<1>1. TableInv(EmptyTables)
  BY DEF EmptyTables, TableInv, KeysAreUnique, RowsOwned, AtRoots
<1> QED
  BY <1>1 DEF Init, ServeInv, EmptyTables

LEMMA TxServeInv == ASSUME StoreIInv, NewTx \/ Commit \/ Rollback PROVE ServeInv'
<1>1. CASE NewTx
  BY <1>1 DEF NewTx, callVars, StoreIInv, ServeInv
<1>2. CASE Commit
  <2>1. row = NoRow /\ \A i \in work.invs : i.id \in Ids
    BY <1>2 DEF Commit, StoreIInv, ServeInv, IInv, Types, Tables, InventoryRow
  <2> QED
    BY <1>2, <2>1, IdsAreNumbers DEF Commit, callVars, StoreIInv, ServeInv
<1>3. CASE Rollback
  BY <1>3 DEF Rollback, NoCall, StoreIInv, ServeInv
<1> QED
  BY <1>1, <1>2, <1>3

\* When no inventory is being indexed, all are served.
LEMMA AllServed ==
  ASSUME StoreIInv, pc \in {"idle", "open"}
  PROVE  row = NoRow /\ \A i \in work.invs : Served(work, i)
<1>1. \A i \in work.invs : i.id \in Ids
  BY DEF StoreIInv, IInv, Types, Tables, InventoryRow
<1> QED
  BY <1>1, IdsAreNumbers DEF StoreIInv, ServeInv

LEMMA RootsServeInv ==
  ASSUME StoreIInv,
         \/ \E p \in Paths : IndexObjectRoot(p)
         \/ \E old \in SUBSET work.roots, enforced \in FkModes : RemoveObjectsBefore(old, enforced)
  PROVE  ServeInv'
<1>1. work \in Tables /\ pc = "open" /\ UNCHANGED <<db, pc, callVars>>
  BY DEF StoreIInv, IInv, Types, IndexObjectRoot, RemoveObjectsBefore
<1>2. row = NoRow /\ TableInv(work) /\ \A i \in work.invs : Served(work, i)
  BY <1>1, AllServed DEF StoreIInv, ServeInv
<1>3. TableInv(work') /\ \A i \in work'.invs : Served(work', i)
  <2>1. CASE \E p \in Paths : IndexObjectRoot(p)
    <3>1. PICK p \in Paths : RoomForRow(work) /\ work' = UpsertObjectRoot(work, p)
      BY <2>1 DEF IndexObjectRoot
    <3>2. /\ TableInv(work')
          /\ work'.invs = work.invs /\ work'.vers = work.vers /\ work'.cont = work.cont
          /\ work'.nodes = work.nodes /\ work'.reduced = work.reduced
      BY <1>1, <1>2, <3>1, RootServes
    <3>3. \A i \in work.invs : Served(work', i)
      BY <1>2, <3>2, StillServed
    <3> QED
      BY <3>2, <3>3
  <2>2. CASE \E old \in SUBSET work.roots, enforced \in FkModes : RemoveObjectsBefore(old, enforced)
    <3>1. PICK old \in SUBSET work.roots, enforced \in BOOLEAN :
            work' = DeleteRoots(work, old, enforced)
      BY <2>2, StoreAssumption DEF RemoveObjectsBefore, StoreAssumption
    <3>2. /\ TableInv(work') /\ work'.invs \subseteq work.invs
          /\ \A i \in work'.invs : Served(work, i) => Served(work', i)
      BY <1>1, <1>2, <3>1, DeleteServes
    <3> QED
      BY <1>2, <3>2
  <2> QED
    BY <2>1, <2>2
<1> QED
  BY <1>1, <1>2, <1>3 DEF StoreIInv, ServeInv, callVars

LEMMA InventoryServeInv ==
  ASSUME StoreIInv, NEW p \in Paths, NEW inv \in Inventories, IndexObjectInventory(p, inv)
  PROVE  ServeInv'
<1> DEFINE t == UpsertObjectRoot(work, p)
<1>1. work \in Tables /\ RoomForRow(work) /\ pc = "open" /\ db' = db
  BY DEF IndexObjectInventory, StoreIInv, IInv, Types
<1>2. row = NoRow /\ TableInv(work) /\ \A i \in work.invs : Served(work, i)
  BY <1>1, AllServed DEF StoreIInv, ServeInv
<1>3. /\ t \in Tables /\ TableInv(t) /\ t.invs = work.invs /\ \E r \in t.roots : r.path = p
      /\ \A i \in t.invs : Served(t, i)
  <2>1. /\ TableInv(t)
        /\ t.invs = work.invs /\ t.vers = work.vers /\ t.cont = work.cont
        /\ t.nodes = work.nodes /\ t.reduced = work.reduced
    BY <1>1, <1>2, RootServes
  <2>2. t \in Tables /\ \E r \in t.roots : r.path = p
    BY <1>1, UpsertObjectRootKeepsGraph DEF SameGraph
  <2> HIDE DEF t
  <2>3. \A i \in t.invs : Served(t, i)
    BY <1>2, <2>1, StillServed
  <2> QED
    BY <2>1, <2>2, <2>3
<1> HIDE DEF t
<1>4. CASE work' = t /\ pc' = "failed" /\ UNCHANGED callVars
  BY <1>1, <1>2, <1>3, <1>4 DEF callVars, StoreIInv, ServeInv
<1>5. CASE /\ ~RootTaken(t, p, inv)
           /\ work' = UpsertInventory(t, p, inv)
           /\ pc' = "versions" /\ cur' = inv /\ row' = InventoryId(t, inv)
           /\ todo' = DOMAIN inv.versions
  <2>1. /\ TableInv(work')
        /\ \A i \in work'.invs : i.id # row' => Served(work', i)
        /\ \E i \in work'.invs :
             /\ i.id = row' /\ i.inv = inv
             /\ row' \notin work'.reduced => HasVersions(work', i, {}) /\ ContentOfManifest(work', i)
    BY <1>3, <1>5, UpsertInventoryServes
  <2>2. DOMAIN cur'.versions \ todo' = {}
    BY <1>5
  <2> QED
    BY <1>1, <1>5, <2>1, <2>2 DEF StoreIInv, ServeInv
<1> QED
  BY <1>4, <1>5 DEF IndexObjectInventory, t

\* Adding to the trees takes nothing from anyone.
LEMMA TreeServes ==
  ASSUME NEW t, NEW u, TableInv(t), Declared(u.names),
         u.roots = t.roots, u.invs = t.invs, u.vers = t.vers, u.cont = t.cont,
         u.orphaned = t.orphaned
  PROVE  TableInv(u)
<1>1. \A n, m \in u.names : n.parent = m.parent /\ n.name = m.name => n = m
  BY NamesAreUnique
<1> QED
  BY <1>1 DEF TableInv, KeysAreUnique, RowsOwned, AtRoots

LEMMA TreeServeInv ==
  ASSUME StoreIInv, (\E v \in todo : AddPathtreeNodes(v)) \/ AddPathtreeChild, Declared(work'.names)
  PROVE  ServeInv'
<1>1. work \in Tables /\ TableInv(work) /\ pc \in {"versions", "tree"} /\ pc' = "tree"
  BY DEF StoreIInv, IInv, Types, ServeInv, AddPathtreeNodes, AddPathtreeChild
<1>2. PICK nodes, names : work' = [work EXCEPT !.nodes = work.nodes \cup nodes, !.names = names]
  <2>1. CASE \E v \in todo : AddPathtreeNodes(v)
    <3>1. PICK v \in todo : work' = [work EXCEPT !.nodes = work.nodes \cup {cur.versions[v].root}]
      BY <2>1 DEF AddPathtreeNodes
    <3>2. work' = [work EXCEPT !.nodes = work.nodes \cup {cur.versions[v].root}, !.names = work.names]
      BY <1>1, <3>1 DEF Tables
    <3> QED
      BY <3>2
  <2>2. CASE AddPathtreeChild
    BY <2>2, Zenon DEF AddPathtreeChild
  <2> QED
    BY <2>1, <2>2
<1>3. /\ work'.roots = work.roots /\ work'.invs = work.invs /\ work'.vers = work.vers
      /\ work'.cont = work.cont /\ work'.reduced = work.reduced
      /\ work'.orphaned = work.orphaned /\ work.nodes \subseteq work'.nodes
  BY <1>1, <1>2 DEF Tables
<1>4. TableInv(work')
  BY <1>1, <1>3, TreeServes
<1>5. \A i : Served(work, i) => Served(work', i)
  <2> SUFFICES ASSUME NEW i PROVE Served(work, i) => Served(work', i)
    OBVIOUS
  <2> QED
    BY <1>3, StillServed
<1>6. UNCHANGED <<db, cur, row, todo>>
  BY DEF AddPathtreeNodes, AddPathtreeChild
<1>7. PICK i \in work.invs :
        /\ i.id = row /\ i.inv = cur
        /\ row \notin work.reduced =>
             HasVersions(work, i, DOMAIN cur.versions \ todo) /\ ContentOfManifest(work, i)
  BY <1>1 DEF StoreIInv, ServeInv
<1>8. row \notin work'.reduced =>
        HasVersions(work', i, DOMAIN cur.versions \ todo) /\ ContentOfManifest(work', i)
  BY <1>3, <1>7, StillHasVersions DEF ContentOfManifest
<1>9. ver' \in todo /\ cur.versions[ver'].root \in work'.nodes
  <2>1. CASE \E v \in todo : AddPathtreeNodes(v)
    <3>1. PICK v \in todo : ver' = v /\ work' = [work EXCEPT !.nodes = @ \cup {cur.versions[v].root}]
      BY <2>1 DEF AddPathtreeNodes
    <3> QED
      BY <1>1, <3>1 DEF Tables
  <2>2. CASE AddPathtreeChild
    BY <1>3, <2>2 DEF AddPathtreeChild, StoreIInv, ServeInv
  <2> QED
    BY <2>1, <2>2
<1> QED
  BY <1>1, <1>3, <1>4, <1>5, <1>6, <1>7, <1>8, <1>9 DEF StoreIInv, ServeInv

\* A row that is already there is the inventory's, or the call fails.
LEMMA InsertVersionServeInv == ASSUME StoreIInv, InsertVersion PROVE ServeInv'
<1> DEFINE new == [inventory_id |-> row, num |-> ver, version |-> cur.versions[ver]]
           old == GetVersion(row, ver)
           changed == Changed(old, cur.versions[ver])
<1>1. /\ work \in Tables /\ TableInv(work) /\ pc = "tree" /\ ver \in todo /\ ver \in DOMAIN cur.versions
      /\ cur.versions[ver].root \in work.nodes
  BY DEF InsertVersion, StoreIInv, ServeInv, IInv, Types, TreeInv, CallsOfInventory
<1>2. PICK i \in work.invs :
        /\ i.id = row /\ i.inv = cur
        /\ row \notin work.reduced =>
             HasVersions(work, i, DOMAIN cur.versions \ todo) /\ ContentOfManifest(work, i)
  BY <1>1 DEF StoreIInv, ServeInv
<1>3. /\ work' = IF old = {} THEN [work EXCEPT !.vers = work.vers \cup {new}] ELSE work
      /\ pc' = IF changed THEN "failed" ELSE "versions"
      /\ todo' = todo \ {ver} /\ UNCHANGED <<db, cur, row, ver, calls>>
  BY DEF InsertVersion
<1>4. new.inventory_id = row /\ new.num = ver /\ new.version = cur.versions[ver]
  OBVIOUS
<1>5. old = {v \in work.vers : v.inventory_id = row /\ v.num = ver}
  BY DEF GetVersion
<1>6. ~changed => \A v \in old : Agrees(v.version, cur.versions[ver])
  BY DEF Changed
<1> HIDE DEF new, old, changed
<1>7. /\ work'.roots = work.roots /\ work'.invs = work.invs /\ work'.cont = work.cont
      /\ work'.nodes = work.nodes /\ work'.names = work.names
      /\ work'.reduced = work.reduced /\ work'.orphaned = work.orphaned
      /\ work'.vers = IF old = {} THEN work.vers \cup {new} ELSE work.vers
  BY <1>1, <1>3 DEF Tables
<1>8. TableInv(work')
  <2>1. KeysAreUnique(work')
    BY <1>1, <1>4, <1>5, <1>7 DEF TableInv, KeysAreUnique
  <2>2. RowsOwned(work')
    BY <1>1, <1>2, <1>4, <1>7 DEF TableInv, RowsOwned
  <2>3. AtRoots(work')
    BY <1>1, <1>7 DEF TableInv, AtRoots
  <2> QED
    BY <2>1, <2>2, <2>3 DEF TableInv
<1>9. ASSUME NEW j \in work'.invs, j.id # row PROVE Served(work', j)
  <2>1. Served(work, j)
    BY <1>7, <1>9 DEF StoreIInv, ServeInv
  <2>2. \A nums : HasVersions(work, j, nums) => HasVersions(work', j, nums)
    BY <1>4, <1>7, <1>9 DEF HasVersions, HasVersion
  <2>3. ContentOfManifest(work, j) => ContentOfManifest(work', j)
    BY <1>7 DEF ContentOfManifest
  <2>4. HasFiles(work, j) => HasFiles(work', j)
    BY <1>7 DEF HasFiles
  <2> QED
    BY <1>7, <2>1, <2>2, <2>3, <2>4 DEF Served
<1>10. ASSUME ~changed, row \notin work'.reduced
       PROVE  HasVersions(work', i, DOMAIN cur.versions \ todo') /\ ContentOfManifest(work', i)
  <2>1. HasVersions(work, i, DOMAIN cur.versions \ todo) /\ ContentOfManifest(work, i)
    BY <1>2, <1>7, <1>10
  <2>2. \E v \in work'.vers :
          v.inventory_id = row /\ v.num = ver /\ Agrees(v.version, cur.versions[ver])
    <3>1. CASE old = {}
      BY <1>4, <1>7, <3>1 DEF Agrees
    <3>2. CASE old # {}
      BY <1>5, <1>6, <1>7, <1>10, <3>2
    <3> QED
      BY <3>1, <3>2
  <2>3. work.vers \subseteq work'.vers /\ \A v \in work'.vers : v = new \/ v \in work.vers
    BY <1>7
  <2>4. DOMAIN cur.versions \ todo' = (DOMAIN cur.versions \ todo) \cup {ver}
    BY <1>1, <1>3
  <2>5. ASSUME NEW n \in DOMAIN cur.versions \ todo' PROVE HasVersion(work', i, n)
    <3>1. CASE n = ver
      BY <1>1, <1>2, <1>7, <2>2, <3>1 DEF HasVersion
    <3>2. CASE n # ver
      <4>1. HasVersion(work, i, n)
        BY <2>1, <2>4, <2>5, <3>2 DEF HasVersions
      <4> QED
        BY <1>7, <2>3, <4>1 DEF HasVersion
    <3> QED
      BY <3>1, <3>2
  <2>6. ASSUME NEW v \in work'.vers, v.inventory_id = i.id PROVE v.num \in DOMAIN i.inv.versions
    BY <1>1, <1>2, <1>4, <2>1, <2>3, <2>6 DEF HasVersions
  <2>7. ContentOfManifest(work', i)
    BY <1>7, <2>1 DEF ContentOfManifest
  <2> QED
    BY <2>5, <2>6, <2>7 DEF HasVersions
<1> QED
  BY <1>2, <1>3, <1>7, <1>8, <1>9, <1>10 DEF StoreIInv, ServeInv

\* With all calls made, every file below a directory of the index is a node.
LEMMA TreeIsIndexed ==
  ASSUME IInv, calls = <<>>, NEW d \in work.nodes \cap Dirs
  PROVE  Tree[d] \subseteq work.nodes
<1>1. Complete(work, {})
  BY DEF IInv, TreeInv, Pending
<1>2. Closed(work.nodes)
  <2> SUFFICES ASSUME NEW e \in work.nodes \cap Dirs, NEW k \in DOMAIN Entries[e]
               PROVE  Entries[e][k].child \in work.nodes
    BY DEF Closed
  <2> DEFINE n == [parent |-> e, name |-> Entries[e][k].name, child |-> Entries[e][k].child]
  <2>1. n \in NamesOf(e)
    BY DEF NamesOf, EntrySet
  <2>2. n.child = Entries[e][k].child
    OBVIOUS
  <2> HIDE DEF n
  <2> QED
    BY <1>1, <2>1, <2>2 DEF Complete
<1>3. work.nodes \in SUBSET Sums
  BY DEF IInv, Types, Tables
<1> QED
  BY <1>2, <1>3 DEF Tree

\* The rows that are inserted: one for each file of the manifest that is a node and has none.
LEMMA RowsInserted ==
  ASSUME work \in Tables, InsertContent
  PROVE  \E rows :
           /\ work'.roots = work.roots /\ work'.invs = work.invs /\ work'.vers = work.vers
           /\ work'.nodes = work.nodes /\ work'.names = work.names
           /\ work'.reduced = work.reduced /\ work'.orphaned = work.orphaned
           /\ work'.cont = work.cont \cup rows
           /\ \A c \in rows : /\ c.inventory_id = row
                              /\ [file |-> c.file, path |-> c.path] \in cur.manifest
                              /\ ~\E d \in work.cont : d.inventory_id = row /\ d.file = c.file
           /\ \A c, d \in rows : c.file = d.file => c = d
           /\ \A f \in work.nodes : (\E m \in cur.manifest : m.file = f) =>
                \E c \in work'.cont : c.inventory_id = row /\ c.file = f
<1> DEFINE fresh == {m.file : m \in cur.manifest} \cap {f \in work.nodes : ~HasContent(row, f)}
<1>1. PICK first \in [fresh -> FilePaths] :
        /\ \A f \in fresh : [file |-> f, path |-> first[f]] \in cur.manifest
        /\ work' = [work EXCEPT !.cont = work.cont \cup
             {[inventory_id |-> row, file |-> f, path |-> first[f]] : f \in fresh}]
  BY Zenon DEF InsertContent
<1> DEFINE rows == {[inventory_id |-> row, file |-> f, path |-> first[f]] : f \in fresh}
<1>2. /\ \A c \in rows : c.inventory_id = row /\ c.file \in fresh
                         /\ [file |-> c.file, path |-> c.path] \in cur.manifest
      /\ \A c, d \in rows : c.file = d.file => c = d
      /\ \A f \in fresh : \E c \in rows : c.inventory_id = row /\ c.file = f
  <2> DEFINE R(f) == [inventory_id |-> row, file |-> f, path |-> first[f]]
  <2>1. \A f \in fresh : R(f).inventory_id = row /\ R(f).file = f /\ R(f).path = first[f]
    OBVIOUS
  <2>2. \A c : c \in rows <=> \E f \in fresh : c = R(f)
    OBVIOUS
  <2> HIDE DEF R, rows, fresh
  <2> QED
    BY <1>1, <2>1, <2>2
<1>3. \A f \in fresh : ~\E c \in work.cont : c.inventory_id = row /\ c.file = f
  BY DEF HasContent
<1>4. \A f \in work.nodes : (\E m \in cur.manifest : m.file = f) =>
        f \in fresh \/ \E c \in work.cont : c.inventory_id = row /\ c.file = f
  BY DEF HasContent
<1> HIDE DEF rows, fresh
<1>5. /\ work'.roots = work.roots /\ work'.invs = work.invs /\ work'.vers = work.vers
      /\ work'.nodes = work.nodes /\ work'.names = work.names
      /\ work'.reduced = work.reduced /\ work'.orphaned = work.orphaned
      /\ work'.cont = work.cont \cup rows
  BY <1>1 DEF Tables, rows
<1>6. \A f \in work.nodes : (\E m \in cur.manifest : m.file = f) =>
        \E c \in work'.cont : c.inventory_id = row /\ c.file = f
  BY <1>2, <1>4, <1>5
<1>7. ASSUME NEW c \in rows
      PROVE  /\ c.inventory_id = row
             /\ [file |-> c.file, path |-> c.path] \in cur.manifest
             /\ ~\E d \in work.cont : d.inventory_id = row /\ d.file = c.file
  <2>1. c.file \in fresh /\ c.inventory_id = row /\ [file |-> c.file, path |-> c.path] \in cur.manifest
    BY <1>2
  <2> QED
    BY <1>3, <2>1
<1> QED
  BY <1>2, <1>5, <1>6, <1>7, Zenon

\* Each file of the versions is a node by now, and in the manifest.
LEMMA FilesInserted ==
  ASSUME IInv, InsertContent, \A n \in DOMAIN cur.versions : cur.versions[n].root \in work.nodes
  PROVE  \A f \in StateFiles[cur] : \E c \in work'.cont : c.inventory_id = row /\ c.file = f
<1> SUFFICES ASSUME NEW f \in StateFiles[cur]
             PROVE  \E c \in work'.cont : c.inventory_id = row /\ c.file = f
  OBVIOUS
<1>1. work \in Tables /\ cur \in Inventories /\ calls = <<>>
  BY DEF InsertContent, IInv, Types, TreeInv, CallsOfInventory
<1>2. PICK n \in DOMAIN cur.versions : f \in Tree[cur.versions[n].root]
  BY <1>1 DEF StateFiles
<1>3. cur.versions[n].root \in work.nodes /\ cur.versions[n].root \in Dirs
  BY <1>1, VersionOfInventory
<1>4. f \in work.nodes
  BY <1>1, <1>2, <1>3, TreeIsIndexed
<1>5. \E m \in cur.manifest : m.file = f
  BY <1>1, StoreAssumption DEF StoreAssumption
<1> QED
  BY <1>1, <1>4, <1>5, RowsInserted

LEMMA InsertContentServeInv == ASSUME StoreIInv, InsertContent PROVE ServeInv'
<1>1. /\ IInv /\ work \in Tables /\ TableInv(work) /\ pc = "versions" /\ todo = {}
      /\ cur \in Inventories
  BY DEF InsertContent, StoreIInv, ServeInv, IInv, Types, TreeInv, CallsOfInventory
<1>2. PICK i \in work.invs :
        /\ i.id = row /\ i.inv = cur
        /\ row \notin work.reduced =>
             HasVersions(work, i, DOMAIN cur.versions) /\ ContentOfManifest(work, i)
  <2>1. DOMAIN cur.versions \ todo = DOMAIN cur.versions
    BY <1>1
  <2> QED
    BY <1>1, <2>1 DEF StoreIInv, ServeInv
<1>3. PICK rows :
        /\ work'.roots = work.roots /\ work'.invs = work.invs /\ work'.vers = work.vers
        /\ work'.nodes = work.nodes /\ work'.names = work.names
        /\ work'.reduced = work.reduced /\ work'.orphaned = work.orphaned
        /\ work'.cont = work.cont \cup rows
        /\ \A c \in rows : /\ c.inventory_id = row
                           /\ [file |-> c.file, path |-> c.path] \in cur.manifest
                           /\ ~\E d \in work.cont : d.inventory_id = row /\ d.file = c.file
        /\ \A c, d \in rows : c.file = d.file => c = d
  BY <1>1, RowsInserted
<1>4. pc' = "open" /\ row' = NoRow /\ db' = db
  BY DEF InsertContent, NoCall
<1>5. TableInv(work')
  <2>1. KeysAreUnique(work')
    <3>1. \A c, d \in work.cont : c.inventory_id = d.inventory_id /\ c.file = d.file => c = d
      BY <1>1 DEF TableInv, KeysAreUnique
    <3>2. \A c \in work.cont, d \in rows : ~(c.inventory_id = d.inventory_id /\ c.file = d.file)
      BY <1>3
    <3>3. \A c, d \in work'.cont : c.inventory_id = d.inventory_id /\ c.file = d.file => c = d
      BY <1>3, <3>1, <3>2
    <3> QED
      BY <1>1, <1>3, <3>3 DEF TableInv, KeysAreUnique
  <2>2. RowsOwned(work')
    BY <1>1, <1>2, <1>3 DEF TableInv, RowsOwned
  <2>3. AtRoots(work')
    BY <1>1, <1>3, Zenon DEF TableInv, AtRoots
  <2> QED
    BY <2>1, <2>2, <2>3 DEF TableInv
<1>6. ASSUME NEW j \in work'.invs PROVE Served(work', j)
  <2>1. \A nums : HasVersions(work, j, nums) => HasVersions(work', j, nums)
    BY <1>3 DEF HasVersions, HasVersion
  <2>2. CASE j.id # row
    <3>1. Served(work, j)
      BY <1>3, <2>2 DEF StoreIInv, ServeInv
    <3>2. ContentOfManifest(work, j) => ContentOfManifest(work', j)
      BY <1>3, <2>2 DEF ContentOfManifest
    <3>3. HasFiles(work, j) => HasFiles(work', j)
      BY <1>3 DEF HasFiles
    <3> QED
      BY <1>3, <2>1, <3>1, <3>2, <3>3 DEF Served
  <2>3. CASE j.id = row
    <3>1. j = i
      BY <1>1, <1>2, <1>3, <2>3 DEF TableInv, KeysAreUnique
    <3> SUFFICES ASSUME row \notin work.reduced
                 PROVE  /\ HasVersions(work', i, DOMAIN cur.versions)
                        /\ ContentOfManifest(work', i) /\ HasFiles(work', i)
      BY <1>2, <1>3, <3>1 DEF Served
    <3>2. HasVersions(work', i, DOMAIN cur.versions) /\ ContentOfManifest(work', i)
      BY <1>2, <1>3, <2>1, <3>1 DEF ContentOfManifest
    <3>3. \A f \in StateFiles[cur] : \E c \in work'.cont : c.inventory_id = row /\ c.file = f
      <4>1. \A n \in DOMAIN cur.versions : cur.versions[n].root \in work.nodes
        BY <1>2 DEF HasVersions, HasVersion
      <4> QED
        BY <1>1, <4>1, FilesInserted
    <3>4. HasFiles(work', i)
      BY <1>2, <3>3 DEF HasFiles
    <3> QED
      BY <3>2, <3>4
  <2> QED
    BY <2>2, <2>3
<1> QED
  BY <1>4, <1>5, <1>6 DEF StoreIInv, ServeInv

LEMMA NextStoreIInv == StoreIInv /\ [Next]_vars => StoreIInv'
<1> SUFFICES ASSUME StoreIInv, [Next]_vars PROVE StoreIInv'
  OBVIOUS
<1>1. IInv'
  BY NextIInv DEF StoreIInv
<1> SUFFICES ServeInv'
  BY <1>1 DEF StoreIInv
<1>2. CASE NewTx \/ Commit \/ Rollback
  BY <1>2, TxServeInv
<1>3. CASE \/ \E p \in Paths : IndexObjectRoot(p)
           \/ \E old \in SUBSET work.roots, enforced \in FkModes : RemoveObjectsBefore(old, enforced)
  BY <1>3, RootsServeInv
<1>4. CASE \E p \in Paths, inv \in Inventories : IndexObjectInventory(p, inv)
  BY <1>4, InventoryServeInv
<1>5. CASE (\E v \in todo : AddPathtreeNodes(v)) \/ AddPathtreeChild
  BY <1>1, <1>5, TreeServeInv DEF IInv, TreeInv
<1>6. CASE InsertVersion
  BY <1>6, InsertVersionServeInv
<1>7. CASE InsertContent
  BY <1>7, InsertContentServeInv
<1>8. CASE UNCHANGED vars
  BY <1>8 DEF vars, callVars, StoreIInv, ServeInv
<1> QED
  BY <1>2, <1>3, <1>4, <1>5, <1>6, <1>7, <1>8 DEF Next

\* Between any two statements, the keys of the tables are unique, rows belong to an
\* inventory, inventories to a root, and all inventories but the one that is being
\* indexed have their versions and content (tx.go:104-209).
THEOREM ServeInvariant == Spec => []StoreIInv
<1>1. Init => StoreIInv
  BY InitStoreIInv
<1>2. StoreIInv /\ [Next]_vars => StoreIInv'
  BY NextStoreIInv
<1> QED
  BY <1>1, <1>2, PTL DEF Spec

LEMMA CommittedIsServed ==
  ASSUME StoreIInv
  PROVE  /\ db \in Tables /\ TableInv(db)
         /\ \A i \in db.invs : i.id \notin db.reduced =>
              HasVersions(db, i, DOMAIN i.inv.versions) /\ ContentOfManifest(db, i) /\ HasFiles(db, i)
  BY DEF StoreIInv, IInv, Types, ServeInv, Served

LEMMA AllVersionsMatch == ASSUME StoreIInv PROVE VersionsMatch
<1> SUFFICES ASSUME NEW i \in db.invs, i.id \notin db.reduced
             PROVE  LET served == ListVersions(db, i.id) IN
                    /\ \A v \in served : v.num \in DOMAIN i.inv.versions
                    /\ \A n \in DOMAIN i.inv.versions :
                         /\ \E v \in served :
                              {w \in served : w.num = n} = {v} /\ Agrees(v.version, i.inv.versions[n])
                         /\ i.inv.versions[n].root \in db.nodes
  BY DEF VersionsMatch
<1>1. HasVersions(db, i, DOMAIN i.inv.versions) /\ KeysAreUnique(db)
  BY CommittedIsServed DEF TableInv
<1> DEFINE Answer(v) == [num |-> v.num, version |-> v.version]
           served == ListVersions(db, i.id)
<1>2. served = {Answer(v) : v \in {w \in db.vers : w.inventory_id = i.id}}
  BY DEF ListVersions
<1>3. \A v : Answer(v).num = v.num /\ Answer(v).version = v.version
  OBVIOUS
<1> HIDE DEF Answer, served
<1>4. \A v \in served : v.num \in DOMAIN i.inv.versions
  BY <1>1, <1>2, <1>3 DEF HasVersions
<1>5. ASSUME NEW n \in DOMAIN i.inv.versions
      PROVE  /\ \E v \in served :
                  {w \in served : w.num = n} = {v} /\ Agrees(v.version, i.inv.versions[n])
             /\ i.inv.versions[n].root \in db.nodes
  <2>1. HasVersion(db, i, n)
    BY <1>1 DEF HasVersions
  <2>2. PICK v \in db.vers : v.inventory_id = i.id /\ v.num = n /\ Agrees(v.version, i.inv.versions[n])
    BY <2>1 DEF HasVersion
  <2>3. \A w \in db.vers : w.inventory_id = i.id /\ w.num = n => w = v
    BY <1>1, <2>2 DEF KeysAreUnique
  <2>4. Answer(v) \in served /\ Answer(v).num = n /\ Agrees(Answer(v).version, i.inv.versions[n])
    BY <1>2, <1>3, <2>2
  <2>5. \A w \in served : w.num = n => w = Answer(v)
    BY <1>2, <1>3, <2>3
  <2>6. {w \in served : w.num = n} = {Answer(v)}
    BY <2>4, <2>5
  <2> QED
    BY <2>1, <2>4, <2>6 DEF HasVersion
<1> QED
  BY <1>4, <1>5 DEF served

\* An object is listed with one version for each of its inventory, which has its tree and
\* agrees with it in all that is compared, and with no other, if every inventory it was
\* indexed with before was extended (tx.go:104-191).
THEOREM ServesVersions == Spec => []VersionsMatch
<1>1. StoreIInv => VersionsMatch
  BY AllVersionsMatch
<1> QED
  BY <1>1, ServeInvariant, PTL

\* A row's root is the one at the path where the inventory was indexed last.
LEMMA RootOfRow ==
  ASSUME StoreIInv, ~db.orphaned, NEW i \in db.invs
  PROVE  /\ [id |-> i.root_id, path |-> i.at] \in db.roots
         /\ \A r \in db.roots : r.id = i.root_id => r.path = i.at
<1> DEFINE root == [id |-> i.root_id, path |-> i.at]
<1>1. root \in db.roots
  BY CommittedIsServed DEF TableInv, AtRoots
<1>2. root.id = i.root_id /\ root.path = i.at
  OBVIOUS
<1> HIDE DEF root
<1>3. \A r \in db.roots : r.id = i.root_id => r = root
  BY <1>1, <1>2, CommittedIsServed DEF TableInv, KeysAreUnique
<1> QED
  BY <1>1, <1>2, <1>3 DEF root

LEMMA AllContentServed == ASSUME StoreIInv PROVE ContentServed
<1> SUFFICES ASSUME ~db.orphaned
             PROVE  /\ \A i \in db.invs : i.id \notin db.reduced =>
                         \A f \in StateFiles[i.inv] : GetContentPath(db, f) # {}
                    /\ \A f \in Files : \A answer \in GetContentPath(db, f) :
                         \E j \in db.invs :
                           /\ j.at = answer[1]
                           /\ j.id \notin db.reduced =>
                                [file |-> f, path |-> answer[2]] \in j.inv.manifest
  BY DEF ContentServed
<1> DEFINE Joined(r, c) == \E i \in db.invs : i.id = c.inventory_id /\ i.root_id = r.id
<1>1. \A f : GetContentPath(db, f) =
        {<<x[1].path, x[2].path>> : x \in {y \in db.roots \X db.cont : y[2].file = f /\ Joined(y[1], y[2])}}
  BY DEF GetContentPath
<1>2. \A f, r, c : r \in db.roots /\ c \in db.cont /\ c.file = f /\ Joined(r, c) =>
        GetContentPath(db, f) # {}
  <2> SUFFICES ASSUME NEW f, NEW r \in db.roots, NEW c \in db.cont, c.file = f, Joined(r, c)
               PROVE  GetContentPath(db, f) # {}
    OBVIOUS
  <2> DEFINE pairs == {y \in db.roots \X db.cont : y[2].file = f /\ Joined(y[1], y[2])}
  <2>1. <<r, c>> \in pairs
    OBVIOUS
  <2>2. GetContentPath(db, f) = {<<x[1].path, x[2].path>> : x \in pairs}
    BY DEF GetContentPath
  <2> HIDE DEF pairs
  <2> QED
    BY <2>1, <2>2
<1>3. ASSUME NEW i \in db.invs, i.id \notin db.reduced, NEW f \in StateFiles[i.inv]
      PROVE  GetContentPath(db, f) # {}
  <2> DEFINE r == [id |-> i.root_id, path |-> i.at]
  <2>1. r \in db.roots /\ r.id = i.root_id
    BY RootOfRow
  <2>2. PICK c \in db.cont : c.inventory_id = i.id /\ c.file = f
    BY <1>3, CommittedIsServed DEF HasFiles
  <2> HIDE DEF r
  <2>3. Joined(r, c)
    BY <2>1, <2>2
  <2> HIDE DEF Joined
  <2> QED
    BY <1>2, <2>1, <2>2, <2>3
<1>4. ASSUME NEW f \in Files, NEW answer \in GetContentPath(db, f)
      PROVE  \E j \in db.invs :
               /\ j.at = answer[1]
               /\ j.id \notin db.reduced => [file |-> f, path |-> answer[2]] \in j.inv.manifest
  <2>1. PICK r \in db.roots, c \in db.cont :
          c.file = f /\ Joined(r, c) /\ answer[1] = r.path /\ answer[2] = c.path
    BY <1>1, <1>4
  <2>2. PICK j \in db.invs : j.id = c.inventory_id /\ j.root_id = r.id
    BY <2>1
  <2>3. j.at = r.path
    BY <2>2, RootOfRow
  <2>4. j.id \notin db.reduced => [file |-> c.file, path |-> c.path] \in j.inv.manifest
    BY <2>2, CommittedIsServed DEF ContentOfManifest
  <2> QED
    BY <2>1, <2>3, <2>4
<1> QED
  BY <1>3, <1>4

\* Every file of a version of an indexed object has a content path, and a content path
\* that is returned leads to an object that has the file there (tx.go:193-209,
\* sqlite.go:263-281), whatever else is indexed, moved or removed.
THEOREM ServesContent == Spec => []ContentServed
<1>1. StoreIInv => ContentServed
  BY AllContentServed
<1> QED
  BY <1>1, ServeInvariant, PTL

LEMMA ServedAtItsPath == ASSUME StoreIInv PROVE ServedWhereIndexed
<1> SUFFICES ASSUME ~db.orphaned, NEW i \in db.invs, NEW p \in Paths
             PROVE  (\E o \in GetObjectByPath(db, p) : o.inv = i.inv) <=> p = i.at
  BY DEF ServedWhereIndexed
<1>1. (\E o \in GetObjectByPath(db, p) : o.inv = i.inv) <=>
        \E j \in db.invs : j.inv = i.inv /\ [id |-> j.root_id, path |-> p] \in db.roots
  <2> DEFINE Object(j) == [inv |-> j.inv, versions |-> ListVersions(db, j.id)]
  <2>1. GetObjectByPath(db, p) = {Object(j) : j \in GetInventoryPath(db, p)}
    BY DEF GetObjectByPath
  <2>2. \A j : Object(j).inv = j.inv
    OBVIOUS
  <2> HIDE DEF Object
  <2> QED
    BY <2>1, <2>2 DEF GetInventoryPath
<1>2. \A j \in db.invs : j.inv = i.inv => j = i
  BY CommittedIsServed DEF TableInv, KeysAreUnique
<1>3. [id |-> i.root_id, path |-> p] \in db.roots <=> p = i.at
  <2> DEFINE r == [id |-> i.root_id, path |-> p]
  <2>1. r.id = i.root_id /\ r.path = p
    OBVIOUS
  <2>2. r \in db.roots => p = i.at
    <3> HIDE DEF r
    <3> QED
      BY <2>1, RootOfRow
  <2> QED
    BY <2>2, RootOfRow
<1> QED
  BY <1>1, <1>2, <1>3

\* Foreign keys in force, an object is found where it was indexed last and nowhere else,
\* and is gone with its root (sqlite.go:57-64, tx.go:104-137).
THEOREM ServesAtItsPath == Spec => []ServedWhereIndexed
<1>1. StoreIInv => ServedWhereIndexed
  BY ServedAtItsPath
<1> QED
  BY <1>1, ServeInvariant, PTL

-----------------------------------------------------------------------------
(* What is read of the tables is what Backend promises, statement by statement. *)

\* The rows of an object, by its OCFL id.
Owned(t, o, rows) == {w \in rows : \E i \in t.invs : i.inv.id = o /\ i.id = w.inventory_id}

Numbered(rows) == {[num |-> v.num, version |-> v.version] : v \in rows}
Located(rows) == {[file |-> c.file, path |-> c.path] : c \in rows}

LEMMA ObservedRows ==
  ASSUME NEW t
  PROVE  /\ ObservedVersions(t) = [o \in ObjectIDs |-> Numbered(Owned(t, o, t.vers))]
         /\ ObservedContent(t) = [o \in ObjectIDs |-> Located(Owned(t, o, t.cont))]
<1> DEFINE N(v) == [num |-> v.num, version |-> v.version]
           L(c) == [file |-> c.file, path |-> c.path]
<1>1. \A id : ListVersions(t, id) = {N(v) : v \in {w \in t.vers : w.inventory_id = id}}
  BY DEF ListVersions
<1>2. \A id : ListContent(t, id) = {L(c) : c \in {w \in t.cont : w.inventory_id = id}}
  BY DEF ListContent
<1>3. \A o, id : id \in Rows(t, o) <=> \E i \in t.invs : i.inv.id = o /\ i.id = id
  BY DEF Rows
<1>4. \A rows : Numbered(rows) = {N(v) : v \in rows} /\ Located(rows) = {L(c) : c \in rows}
  BY DEF Numbered, Located
<1> HIDE DEF N, L
<1>5. ASSUME NEW o
      PROVE  UNION {ListVersions(t, id) : id \in Rows(t, o)} = Numbered(Owned(t, o, t.vers))
  BY <1>1, <1>3, <1>4 DEF Owned
<1>6. ASSUME NEW o
      PROVE  UNION {ListContent(t, id) : id \in Rows(t, o)} = Located(Owned(t, o, t.cont))
  <2>1. \A id, x : x \in ListContent(t, id) <=> \E c \in t.cont : c.inventory_id = id /\ x = L(c)
    BY <1>2
  <2>2. \A x : x \in Located(Owned(t, o, t.cont)) <=>
          \E c \in t.cont : (\E i \in t.invs : i.inv.id = o /\ i.id = c.inventory_id) /\ x = L(c)
    BY <1>4 DEF Owned
  <2> QED
    BY <1>3, <2>1, <2>2
<1> QED
  BY <1>5, <1>6 DEF ObservedVersions, ObservedContent

LEMMA SameRows ==
  ASSUME NEW t, NEW u,
         \A o \in ObjectIDs : /\ Owned(u, o, u.vers) = Owned(t, o, t.vers)
                              /\ Owned(u, o, u.cont) = Owned(t, o, t.cont)
  PROVE  ObservedVersions(u) = ObservedVersions(t) /\ ObservedContent(u) = ObservedContent(t)
<1>1. /\ ObservedVersions(t) = [o \in ObjectIDs |-> Numbered(Owned(t, o, t.vers))]
      /\ ObservedContent(t) = [o \in ObjectIDs |-> Located(Owned(t, o, t.cont))]
  BY ObservedRows
<1>2. /\ ObservedVersions(u) = [o \in ObjectIDs |-> Numbered(Owned(u, o, u.vers))]
      /\ ObservedContent(u) = [o \in ObjectIDs |-> Located(Owned(u, o, u.cont))]
  BY ObservedRows
<1>3. \A o \in ObjectIDs : /\ Numbered(Owned(u, o, u.vers)) = Numbered(Owned(t, o, t.vers))
                          /\ Located(Owned(u, o, u.cont)) = Located(Owned(t, o, t.cont))
  OBVIOUS
<1> QED
  BY <1>1, <1>2, <1>3, Zenon

\* An object is observed at the path of its row's root.
LEMMA ObservedAtRoots ==
  ASSUME NEW t \in Tables
  PROVE  \A x : x \in ObservedObjects(t) <=>
           /\ x \in [path : Paths, inv : Inventories]
           /\ \E i \in t.invs, r \in t.roots : r.id = i.root_id /\ r.path = x.path /\ i.inv = x.inv
<1> SUFFICES ASSUME NEW x \in [path : Paths, inv : Inventories]
             PROVE  (\E o \in GetObjectByPath(t, x.path) : o.inv = x.inv) <=>
                      \E i \in t.invs, r \in t.roots :
                        r.id = i.root_id /\ r.path = x.path /\ i.inv = x.inv
  BY DEF ObservedObjects
<1> DEFINE Answer(i) == [inv |-> i.inv, versions |-> ListVersions(t, i.id)]
           root(i) == [id |-> i.root_id, path |-> x.path]
<1>1. GetObjectByPath(t, x.path) = {Answer(i) : i \in GetInventoryPath(t, x.path)}
  BY DEF GetObjectByPath
<1>2. \A i : Answer(i).inv = i.inv
  OBVIOUS
<1>3. GetInventoryPath(t, x.path) = {i \in t.invs : root(i) \in t.roots}
  BY DEF GetInventoryPath
<1>4. \A i : root(i).id = i.root_id /\ root(i).path = x.path
  OBVIOUS
<1>5. \A i, r : r \in t.roots /\ r.id = i.root_id /\ r.path = x.path => r = root(i)
  BY DEF Tables, RootRow
<1> HIDE DEF Answer, root
<1> QED
  BY <1>1, <1>2, <1>3, <1>4, <1>5

LEMMA SameObjects ==
  ASSUME NEW t, NEW u, u.roots = t.roots, u.invs = t.invs
  PROVE  ObservedObjects(u) = ObservedObjects(t)
<1>1. \A w, x : x \in ObservedObjects(w) <=>
        /\ x \in [path : Paths, inv : Inventories]
        /\ \E i \in GetInventoryPath(w, x.path) : i.inv = x.inv
  <2> TAKE w, x
  <2> DEFINE Answer(i) == [inv |-> i.inv, versions |-> ListVersions(w, i.id)]
  <2>1. GetObjectByPath(w, x.path) = {Answer(i) : i \in GetInventoryPath(w, x.path)}
    BY DEF GetObjectByPath
  <2>2. \A i : Answer(i).inv = i.inv
    OBVIOUS
  <2> HIDE DEF Answer
  <2>3. (\E o \in GetObjectByPath(w, x.path) : o.inv = x.inv) <=>
          \E i \in GetInventoryPath(w, x.path) : i.inv = x.inv
    BY <2>1, <2>2
  <2> QED
    BY <2>3 DEF ObservedObjects
<1>2. \A p : GetInventoryPath(u, p) = GetInventoryPath(t, p)
  BY DEF GetInventoryPath
<1>3. \A x : x \in ObservedObjects(u) <=> x \in ObservedObjects(t)
  BY <1>1, <1>2
<1> QED
  BY <1>3, Zenon

LEMMA SameObserved ==
  ASSUME NEW t, NEW u, u.roots = t.roots, u.invs = t.invs, u.vers = t.vers, u.cont = t.cont
  PROVE  Observed(u) = Observed(t)
<1>1. ObservedObjects(u) = ObservedObjects(t)
  BY SameObjects
<1>2. ObservedVersions(u) = ObservedVersions(t) /\ ObservedContent(u) = ObservedContent(t)
  <2>1. \A o, rows : Owned(u, o, rows) = Owned(t, o, rows)
    BY DEF Owned
  <2>2. \A o \in ObjectIDs : /\ Owned(u, o, u.vers) = Owned(t, o, t.vers)
                             /\ Owned(u, o, u.cont) = Owned(t, o, t.cont)
    BY <2>1
  <2> QED
    BY <2>2, SameRows
<1>3. ObservedRoots(u) = ObservedRoots(t)
  BY DEF ObservedRoots
<1> QED
  BY <1>1, <1>2, <1>3 DEF Observed

LEMMA MoreVersions ==
  ASSUME NEW t, NEW id \in ObjectIDs, NEW inv
  PROVE  [Observed(t) EXCEPT !.versions[id] = WithNew(@, inv)] =
           [roots |-> ObservedRoots(t), objects |-> ObservedObjects(t),
            versions |-> [o \in ObjectIDs |-> IF o = id THEN WithNew(Numbered(Owned(t, o, t.vers)), inv)
                                              ELSE Numbered(Owned(t, o, t.vers))],
            content |-> ObservedContent(t)]
<1> DEFINE N == [o \in ObjectIDs |-> Numbered(Owned(t, o, t.vers))]
           M == [o \in ObjectIDs |-> IF o = id THEN WithNew(Numbered(Owned(t, o, t.vers)), inv)
                                     ELSE Numbered(Owned(t, o, t.vers))]
<1>1. ObservedVersions(t) = N
  BY ObservedRows
<1>2. [N EXCEPT ![id] = WithNew(@, inv)] = M
  OBVIOUS
<1>3. [ObservedVersions(t) EXCEPT ![id] = WithNew(@, inv)] = M
  BY <1>1, <1>2
<1> HIDE DEF N, M
<1>4. [Observed(t) EXCEPT !.versions[id] = WithNew(@, inv)] =
        [roots |-> ObservedRoots(t), objects |-> ObservedObjects(t),
         versions |-> [ObservedVersions(t) EXCEPT ![id] = WithNew(@, inv)],
         content |-> ObservedContent(t)]
  BY DEF Observed
<1> QED
  BY <1>3, <1>4 DEF M

\* A version of the inventory that was not there is one that is there from the start.
LEMMA WithNewAbsorbs ==
  ASSUME NEW versions, NEW inv, NEW v \in VersionsOf(inv), \A w \in versions : w.num # v.num
  PROVE  WithNew(versions \cup {v}, inv) = WithNew(versions, inv)
<1>1. \A u \in VersionsOf(inv) : u.num = v.num => u = v
  <2> SUFFICES ASSUME NEW n \in DOMAIN inv.versions, NEW m \in DOMAIN inv.versions,
                      v = [num |-> m, version |-> inv.versions[m]], n = v.num
               PROVE  [num |-> n, version |-> inv.versions[n]] = v
    BY DEF VersionsOf
  <2> QED
    OBVIOUS
<1> QED
  BY <1>1 DEF WithNew

LEMMA WithNewOfAll ==
  ASSUME NEW versions, NEW inv,
         \A n \in DOMAIN inv.versions : \E w \in versions : w.num = n
  PROVE  WithNew(versions, inv) = versions
<1>1. \A u \in VersionsOf(inv) : u.num \in DOMAIN inv.versions
  BY DEF VersionsOf
<1> QED
  BY <1>1 DEF WithNew

\* A new root has no object yet: its id is in no inventory row.
LEMMA RootObserved ==
  ASSUME NEW t \in Tables, TableInv(t), ~t.orphaned, NEW p \in Paths, RoomForRow(t)
  PROVE  Observed(UpsertObjectRoot(t, p)) = [Observed(t) EXCEPT !.roots = @ \cup {p}]
<1>1. CASE \E r \in t.roots : r.path = p
  <2>1. UpsertObjectRoot(t, p) = t
    BY <1>1 DEF UpsertObjectRoot
  <2>2. ObservedRoots(t) \cup {p} = ObservedRoots(t)
    BY <1>1 DEF ObservedRoots
  <2> QED
    BY <2>1, <2>2 DEF Observed
<1>2. CASE ~\E r \in t.roots : r.path = p
  <2> DEFINE new == [id |-> NewId(t.roots), path |-> p]
             u == [t EXCEPT !.roots = t.roots \cup {new}]
  <2>1. UpsertObjectRoot(t, p) = u
    BY <1>2 DEF UpsertObjectRoot
  <2>2. \A r \in t.roots : r.id # new.id
    <3>1. \A r \in t.roots : r.id \in Ids
      BY DEF Tables, RootRow
    <3> QED
      BY <3>1, NewIdIsNew
  <2>3. \A i \in t.invs : i.root_id # new.id
    <3> SUFFICES ASSUME NEW i \in t.invs PROVE i.root_id # new.id
      OBVIOUS
    <3> DEFINE root == [id |-> i.root_id, path |-> i.at]
    <3>1. root \in t.roots /\ root.id = i.root_id
      BY DEF TableInv, AtRoots
    <3> HIDE DEF root, new
    <3> QED
      BY <2>2, <3>1
  <2>4. new \in RootRow /\ new.path = p
    BY DEF RoomForRow, RootRow
  <2> HIDE DEF new
  <2>5. /\ u \in Tables
        /\ u.roots = t.roots \cup {new} /\ u.invs = t.invs /\ u.vers = t.vers /\ u.cont = t.cont
    BY <2>4 DEF Tables
  <2> HIDE DEF u
  <2>6. ObservedObjects(u) = ObservedObjects(t)
    <3>1. \A x : x \in ObservedObjects(u) <=> x \in ObservedObjects(t)
      BY <2>3, <2>5, ObservedAtRoots
    <3> QED
      BY <3>1, Zenon
  <2>7. ObservedRoots(u) = ObservedRoots(t) \cup {p}
    BY <2>4, <2>5 DEF ObservedRoots
  <2>8. ObservedVersions(u) = ObservedVersions(t) /\ ObservedContent(u) = ObservedContent(t)
    BY <2>5, SameRows DEF Owned
  <2> QED
    BY <2>1, <2>6, <2>7, <2>8 DEF Observed
<1> QED
  BY <1>1, <1>2

\* What a removal with foreign keys takes away are the objects at the roots, with all rows.
LEMMA DeleteObserved ==
  ASSUME NEW t \in Tables, TableInv(t), NEW old \in SUBSET t.roots
  PROVE  LET u == DeleteRoots(t, old, TRUE)
             paths == {r.path : r \in old}
             gone == {x.inv.id : x \in {y \in ObservedObjects(t) : y.path \in paths}}
         IN  Observed(u) =
               [roots |-> ObservedRoots(t) \ paths,
                objects |-> {x \in ObservedObjects(t) : x.path \notin paths},
                versions |-> [o \in ObjectIDs |-> IF o \in gone THEN {} ELSE ObservedVersions(t)[o]],
                content |-> [o \in ObjectIDs |-> IF o \in gone THEN {} ELSE ObservedContent(t)[o]]]
<1> DEFINE u == DeleteRoots(t, old, TRUE)
           paths == {r.path : r \in old}
           gone == {x.inv.id : x \in {y \in ObservedObjects(t) : y.path \in paths}}
           dead == Dependents(t, old)
           ids == {i.id : i \in dead}
           vers == {v \in t.vers : v.inventory_id \notin ids}
           cont == {c \in t.cont : c.inventory_id \notin ids}
<1>1. /\ u \in Tables
      /\ u.roots = t.roots \ old /\ u.invs = t.invs \ dead /\ u.vers = vers /\ u.cont = cont
  <2>1. u \in Tables
    BY DeleteRootsKeepsGraph DEF SameGraph
  <2>2. u = [t EXCEPT !.roots = t.roots \ old, !.invs = t.invs \ dead, !.vers = vers, !.cont = cont,
                      !.reduced = t.reduced \ ids, !.orphaned = t.orphaned \/ (~TRUE /\ dead # {})]
    BY Zenon DEF DeleteRoots
  <2> HIDE DEF u, dead, ids, vers, cont
  <2> QED
    BY <2>1, <2>2 DEF Tables
<1>2. \A i : i \in dead <=> i \in t.invs /\ \E r \in old : r.id = i.root_id
  BY DEF Dependents
<1>3. \A r, s \in t.roots : r.path = s.path => r = s
  BY DEF TableInv, KeysAreUnique
<1>4. \A i, j \in t.invs : i.id = j.id \/ i.inv.id = j.inv.id => i = j
  BY DEF TableInv, KeysAreUnique
<1>5. \A i \in t.invs : i \in dead <=> i.id \in ids
  BY <1>2, <1>4
<1>6. \A p : p \in paths <=> \E r \in old : r.path = p
  OBVIOUS
<1>7. \A x : x \in ObservedObjects(t) <=>
        /\ x \in [path : Paths, inv : Inventories]
        /\ \E i \in t.invs, r \in t.roots : r.id = i.root_id /\ r.path = x.path /\ i.inv = x.inv
  BY ObservedAtRoots
<1>8. \A o : o \in gone <=> \E x \in ObservedObjects(t) : x.path \in paths /\ x.inv.id = o
  OBVIOUS
<1>9. /\ \A v : v \in vers <=> v \in t.vers /\ v.inventory_id \notin ids
      /\ \A c : c \in cont <=> c \in t.cont /\ c.inventory_id \notin ids
  OBVIOUS
<1> HIDE DEF u, paths, gone, dead, ids, vers, cont
<1>10. \A i \in t.invs : i \in dead <=> i.inv.id \in gone
  <2> SUFFICES ASSUME NEW i \in t.invs PROVE i \in dead <=> i.inv.id \in gone
    OBVIOUS
  <2>1. ASSUME i \in dead PROVE i.inv.id \in gone
    <3>1. PICK r \in old : r.id = i.root_id
      BY <1>2, <2>1
    <3> DEFINE x == [path |-> r.path, inv |-> i.inv]
    <3>2. x \in [path : Paths, inv : Inventories] /\ x.path = r.path /\ x.inv = i.inv
      BY DEF Tables, RootRow, InventoryRow
    <3> HIDE DEF x
    <3> QED
      BY <1>6, <1>7, <1>8, <3>1, <3>2
  <2>2. ASSUME i.inv.id \in gone PROVE i \in dead
    <3>1. PICK j \in t.invs, r \in old : r.id = j.root_id /\ j.inv.id = i.inv.id
      BY <1>3, <1>6, <1>7, <1>8, <2>2
    <3> QED
      BY <1>2, <1>4, <3>1
  <2> QED
    BY <2>1, <2>2
<1>11. ObservedRoots(u) = ObservedRoots(t) \ paths
  BY <1>1, <1>3, <1>6 DEF ObservedRoots
<1>12. ObservedObjects(u) = {x \in ObservedObjects(t) : x.path \notin paths}
  <2>1. \A x : x \in ObservedObjects(u) <=>
          /\ x \in [path : Paths, inv : Inventories]
          /\ \E i \in u.invs, r \in u.roots : r.id = i.root_id /\ r.path = x.path /\ i.inv = x.inv
    BY <1>1, ObservedAtRoots
  <2>2. \A r, s \in t.roots : r.id = s.id => r = s
    BY DEF TableInv, KeysAreUnique
  <2>3. \A x : x \in ObservedObjects(u) <=> x \in ObservedObjects(t) /\ x.path \notin paths
    BY <1>1, <1>2, <1>3, <1>6, <1>7, <2>1, <2>2
  <2> QED
    BY <2>3
<1>13. ASSUME NEW o \in ObjectIDs
       PROVE  /\ o \in gone => Owned(u, o, u.vers) = {} /\ Owned(u, o, u.cont) = {}
              /\ o \notin gone => /\ Owned(u, o, u.vers) = Owned(t, o, t.vers)
                                  /\ Owned(u, o, u.cont) = Owned(t, o, t.cont)
  <2>1. o \in gone => \A i \in u.invs : i.inv.id # o
    BY <1>1, <1>10
  <2>2. o \notin gone => \A i \in t.invs : i.inv.id = o => i \in u.invs /\ i.id \notin ids
    BY <1>1, <1>5, <1>10
  <2>3. u.invs \subseteq t.invs
    BY <1>1
  <2> QED
    BY <1>1, <1>9, <2>1, <2>2, <2>3 DEF Owned
<1>14. Numbered({}) = {} /\ Located({}) = {}
  BY DEF Numbered, Located
<1>15. /\ ObservedVersions(u) = [o \in ObjectIDs |-> IF o \in gone THEN {} ELSE ObservedVersions(t)[o]]
       /\ ObservedContent(u) = [o \in ObjectIDs |-> IF o \in gone THEN {} ELSE ObservedContent(t)[o]]
  <2>1. \A w : /\ ObservedVersions(w) = [o \in ObjectIDs |-> Numbered(Owned(w, o, w.vers))]
               /\ ObservedContent(w) = [o \in ObjectIDs |-> Located(Owned(w, o, w.cont))]
    BY ObservedRows
  <2> QED
    BY <1>13, <1>14, <2>1
<1> QED
  BY <1>11, <1>12, <1>15 DEF Observed, u, paths, gone

\* The object of the inventory is at the new path and nowhere else, with what its row has.
LEMMA InventoryObserved ==
  ASSUME NEW t \in Tables, TableInv(t), NEW p \in Paths, NEW inv \in Inventories,
         \E r \in t.roots : r.path = p, NewId(t.invs) \in Ids, ~RootTaken(t, p, inv)
  PROVE  LET u == UpsertInventory(t, p, inv)
         IN  /\ \A x \in ObservedObjects(t) : x.path = p => x.inv.id = inv.id
             /\ Observed(u) = [Observed(t) EXCEPT !.objects =
                  {x \in @ : x.inv.id # inv.id} \cup {[path |-> p, inv |-> inv]}]
<1> DEFINE u == UpsertInventory(t, p, inv)
           id == InventoryId(t, inv)
           old == Indexed(t, inv)
           root == CHOOSE r \in t.roots : r.path = p
           new == [id |-> id, root_id |-> root.id, inv |-> inv, at |-> p]
           invs == (t.invs \ old) \cup {new}
           reduced == IF \A i \in old : Extends(inv, i.inv) THEN t.reduced ELSE t.reduced \cup {id}
           object == [path |-> p, inv |-> inv]
<1>1. /\ u \in Tables
      /\ u.roots = t.roots /\ u.invs = invs /\ u.vers = t.vers /\ u.cont = t.cont
  <2>1. u \in Tables
    BY UpsertInventoryKeepsGraph DEF SameGraph
  <2>2. u = [t EXCEPT !.invs = invs, !.reduced = reduced]
    BY Zenon DEF UpsertInventory
  <2> HIDE DEF u, invs, reduced
  <2> QED
    BY <2>1, <2>2 DEF Tables
<1>2. /\ \A i \in old : i.id = id
      /\ \A i \in t.invs \ old : i.id # id /\ i.inv.id # inv.id
  BY InventoryRowIsOwn
<1>3. \A i : i \in old <=> i \in t.invs /\ i.inv.id = inv.id
  BY DEF Indexed
<1>4. root \in t.roots /\ root.path = p
  BY Zenon
<1>5. new.id = id /\ new.root_id = root.id /\ new.inv = inv
  OBVIOUS
<1>6. \A r, s \in t.roots : r.path = s.path \/ r.id = s.id => r = s
  BY DEF TableInv, KeysAreUnique
<1>7. object \in [path : Paths, inv : Inventories] /\ object.path = p /\ object.inv = inv
  OBVIOUS
<1> HIDE DEF u, id, old, root, new, object
<1>8. \A x : x \in ObservedObjects(t) <=>
        /\ x \in [path : Paths, inv : Inventories]
        /\ \E i \in t.invs, r \in t.roots : r.id = i.root_id /\ r.path = x.path /\ i.inv = x.inv
  BY ObservedAtRoots
<1>9. \A x : x \in ObservedObjects(u) <=>
        /\ x \in [path : Paths, inv : Inventories]
        /\ \E i \in u.invs, r \in t.roots : r.id = i.root_id /\ r.path = x.path /\ i.inv = x.inv
  BY <1>1, ObservedAtRoots
<1>10. \A x : x \in [path : Paths, inv : Inventories] /\ x.path = p /\ x.inv = inv => x = object
  BY <1>7
<1>11. \A x \in ObservedObjects(t) : x.path = p => x.inv.id = inv.id
  <2> SUFFICES ASSUME NEW x \in ObservedObjects(t), x.path = p PROVE x.inv.id = inv.id
    OBVIOUS
  <2>1. PICK i \in t.invs, r \in t.roots : r.id = i.root_id /\ r.path = p /\ i.inv = x.inv
    BY <1>8
  <2>2. [id |-> i.root_id, path |-> p] \in t.roots
    <3>1. r = [id |-> r.id, path |-> r.path]
      BY DEF Tables, RootRow
    <3> QED
      BY <2>1, <3>1
  <2>3. i \in old
    BY <2>2 DEF RootTaken, old
  <2> QED
    BY <1>3, <2>1, <2>3
<1>12. ObservedObjects(u) = {x \in ObservedObjects(t) : x.inv.id # inv.id} \cup {object}
  <2>1. \A x : x \in ObservedObjects(u) <=> (x \in ObservedObjects(t) /\ x.inv.id # inv.id) \/ x = object
    <3> SUFFICES ASSUME NEW x \in [path : Paths, inv : Inventories]
                 PROVE  (\E i \in u.invs, r \in t.roots : r.id = i.root_id /\ r.path = x.path /\ i.inv = x.inv)
                          <=> (x \in ObservedObjects(t) /\ x.inv.id # inv.id) \/ x = object
      BY <1>7, <1>8, <1>9
    <3>1. ASSUME NEW i \in u.invs, NEW r \in t.roots, r.id = i.root_id, r.path = x.path, i.inv = x.inv
          PROVE  (x \in ObservedObjects(t) /\ x.inv.id # inv.id) \/ x = object
      BY <1>1, <1>2, <1>4, <1>5, <1>6, <1>8, <1>10, <3>1
    <3>2. ASSUME x = object
          PROVE  new \in u.invs /\ root.id = new.root_id /\ root.path = x.path /\ new.inv = x.inv
      BY <1>1, <1>4, <1>5, <1>7, <3>2
    <3>3. ASSUME x \in ObservedObjects(t), x.inv.id # inv.id
          PROVE  \E i \in u.invs, r \in t.roots : r.id = i.root_id /\ r.path = x.path /\ i.inv = x.inv
      BY <1>1, <1>3, <1>8, <3>3
    <3> QED
      BY <1>4, <3>1, <3>2, <3>3
  <2> QED
    BY <2>1
<1>13. ObservedVersions(u) = ObservedVersions(t) /\ ObservedContent(u) = ObservedContent(t)
  <2>1. ASSUME NEW o \in ObjectIDs, NEW w \in t.vers \cup t.cont
        PROVE  (\E i \in u.invs : i.inv.id = o /\ i.id = w.inventory_id) <=>
                 \E i \in t.invs : i.inv.id = o /\ i.id = w.inventory_id
    <3>1. PICK j \in t.invs : j.id = w.inventory_id
      BY DEF TableInv, RowsOwned
    <3>2. CASE j \in old
      BY <1>1, <1>2, <1>3, <1>5, <3>1, <3>2
    <3>3. CASE j \notin old
      BY <1>1, <1>2, <1>5, <3>1, <3>3
    <3> QED
      BY <3>2, <3>3
  <2>2. \A o \in ObjectIDs : /\ Owned(u, o, u.vers) = Owned(t, o, t.vers)
                             /\ Owned(u, o, u.cont) = Owned(t, o, t.cont)
    BY <1>1, <2>1 DEF Owned
  <2> QED
    BY <2>2, SameRows
<1>14. ObservedRoots(u) = ObservedRoots(t)
  BY <1>1 DEF ObservedRoots
<1>15. Observed(u) = [Observed(t) EXCEPT !.objects =
          {x \in ObservedObjects(t) : x.inv.id # inv.id} \cup {object}]
  BY <1>12, <1>13, <1>14 DEF Observed
<1>16. Observed(t).objects = ObservedObjects(t)
  BY DEF Observed
<1> QED
  BY <1>11, <1>15, <1>16 DEF u, object

\* An inventory is orphaned by a removal alone, and not by one that deletes it, or that
\* finds none.
LEMMA RootKeepsOrphaned ==
  ASSUME NEW t \in Tables, NEW p
  PROVE  UpsertObjectRoot(t, p).orphaned = t.orphaned
BY DEF UpsertObjectRoot, Tables

LEMMA InventoryKeepsOrphaned ==
  ASSUME NEW t \in Tables, NEW p, NEW inv
  PROVE  UpsertInventory(t, p, inv).orphaned = t.orphaned
<1>1. \A a, b : [t EXCEPT !.invs = a, !.reduced = b].orphaned = t.orphaned
  BY DEF Tables
<1> QED
  BY <1>1, Zenon DEF UpsertInventory

LEMMA DeleteOrphansNone ==
  ASSUME NEW t \in Tables, NEW old, NEW enforced \in BOOLEAN,
         ~DeleteRoots(t, old, enforced).orphaned
  PROVE  DeleteRoots(t, old, enforced) = DeleteRoots(t, old, TRUE)
<1> SUFFICES ASSUME ~enforced PROVE DeleteRoots(t, old, FALSE) = DeleteRoots(t, old, TRUE)
  BY Zenon
<1> DEFINE dead == IF FALSE THEN Dependents(t, old) ELSE {}
           ids == {i.id : i \in dead}
           vers == {v \in t.vers : v.inventory_id \notin ids}
           cont == {c \in t.cont : c.inventory_id \notin ids}
           orphaned == t.orphaned \/ (~FALSE /\ Dependents(t, old) # {})
<1>1. DeleteRoots(t, old, FALSE) =
        [t EXCEPT !.roots = t.roots \ old, !.invs = t.invs \ dead, !.vers = vers,
                  !.cont = cont, !.reduced = t.reduced \ ids, !.orphaned = orphaned]
  BY Zenon DEF DeleteRoots
<1>2. DeleteRoots(t, old, FALSE).orphaned = orphaned
  <2> HIDE DEF dead, ids, vers, cont, orphaned
  <2> QED
    BY <1>1 DEF Tables
<1>3. Dependents(t, old) = {}
  BY <1>2
<1> QED
  BY <1>3, Zenon DEF DeleteRoots

-----------------------------------------------------------------------------
\* Each statement is a step of Backend or leaves its state alone.

LEMMA TxContract ==
  ASSUME StoreIInv, NewTx \/ Commit \/ Rollback
  PROVE  Contract!NewTx \/ Contract!Commit \/ Contract!Rollback
<1>1. CASE NewTx
  BY <1>1 DEF NewTx, callVars, View, Calling, Contract!NewTx
<1>2. CASE Commit
  BY <1>2 DEF Commit, callVars, View, Calling, Contract!Commit
<1>3. CASE Rollback
  BY <1>3 DEF Rollback, View, Calling, StoreIInv, IInv, Types, Contract!Rollback
<1> QED
  BY <1>1, <1>2, <1>3

LEMMA RootContract ==
  ASSUME StoreIInv, NEW p \in Paths, IndexObjectRoot(p), ~work'.orphaned
  PROVE  Contract!IndexObjectRoot(p)
<1>1. /\ work \in Tables /\ TableInv(work) /\ ~work.orphaned
      /\ RoomForRow(work) /\ work' = UpsertObjectRoot(work, p)
  BY RootKeepsOrphaned DEF StoreIInv, IInv, Types, ServeInv, IndexObjectRoot
<1>2. Observed(work') = [Observed(work) EXCEPT !.roots = @ \cup {p}]
  BY <1>1, RootObserved
<1>3. UNCHANGED <<db, pc, callVars>> /\ pc = "open"
  BY DEF IndexObjectRoot
<1> QED
  BY <1>2, <1>3 DEF callVars, View, Calling, Contract!IndexObjectRoot

LEMMA DeleteContract ==
  ASSUME StoreIInv, NEW old \in SUBSET work.roots, NEW enforced \in FkModes,
         RemoveObjectsBefore(old, enforced), ~work'.orphaned
  PROVE  \E paths \in SUBSET View.roots : Contract!RemoveObjectsBefore(paths)
<1> DEFINE paths == {r.path : r \in old}
           gone == {x.inv.id : x \in {y \in ObservedObjects(work) : y.path \in paths}}
<1>1. /\ work \in Tables /\ TableInv(work) /\ pc = "open"
      /\ work' = DeleteRoots(work, old, TRUE) /\ UNCHANGED <<db, pc, callVars>>
  <2>1. enforced \in BOOLEAN
    BY StoreAssumption DEF StoreAssumption
  <2> QED
    BY <2>1, DeleteOrphansNone DEF StoreIInv, IInv, Types, ServeInv, RemoveObjectsBefore
<1>2. Observed(work') =
        [roots |-> ObservedRoots(work) \ paths,
         objects |-> {x \in ObservedObjects(work) : x.path \notin paths},
         versions |-> [o \in ObjectIDs |-> IF o \in gone THEN {} ELSE ObservedVersions(work)[o]],
         content |-> [o \in ObjectIDs |-> IF o \in gone THEN {} ELSE ObservedContent(work)[o]]]
  BY <1>1, DeleteObserved
<1>3. View = Observed(work) /\ View' = Observed(work')
  BY <1>1 DEF View, Calling
<1>4. /\ Observed(work).roots = ObservedRoots(work) /\ Observed(work).objects = ObservedObjects(work)
      /\ Observed(work).versions = ObservedVersions(work)
      /\ Observed(work).content = ObservedContent(work)
  BY DEF Observed
<1>5. paths \subseteq ObservedRoots(work)
  BY DEF ObservedRoots
<1>6. UNCHANGED <<db, pc, cur>> /\ ~Calling /\ ~Calling'
  BY <1>1 DEF Calling, callVars
<1> HIDE DEF paths
<1>7. Contract!RemoveObjectsBefore(paths)
  BY <1>1, <1>2, <1>3, <1>4, <1>5, <1>6 DEF Contract!RemoveObjectsBefore
<1> QED
  BY <1>3, <1>4, <1>5, <1>7

LEMMA InventoryContract ==
  ASSUME StoreIInv, NEW p \in Paths, NEW inv \in Inventories,
         IndexObjectInventory(p, inv), ~work'.orphaned
  PROVE  Contract!IndexObjectInventory(p, inv) \/ Contract!IndexFails
<1> DEFINE t == UpsertObjectRoot(work, p)
<1>1. /\ work \in Tables /\ TableInv(work) /\ ~work.orphaned /\ RoomForRow(work)
      /\ pc = "open" /\ db' = db
  <2>1. work \in Tables /\ TableInv(work) /\ RoomForRow(work) /\ pc = "open" /\ db' = db
    BY DEF StoreIInv, IInv, Types, ServeInv, IndexObjectInventory
  <2>2. t \in Tables /\ t.orphaned = work.orphaned
    BY <2>1, UpsertObjectRootKeepsGraph, RootKeepsOrphaned DEF SameGraph
  <2> HIDE DEF t
  <2>3. work'.orphaned = t.orphaned
    BY <2>2, InventoryKeepsOrphaned DEF IndexObjectInventory, t
  <2> QED
    BY <2>1, <2>2, <2>3
<1>2. /\ t \in Tables /\ TableInv(t) /\ t.invs = work.invs /\ \E r \in t.roots : r.path = p
  BY <1>1, UpsertObjectRootKeepsGraph, RootServes DEF SameGraph
<1>3. Observed(t) = [Observed(work) EXCEPT !.roots = @ \cup {p}]
  BY <1>1, RootObserved
<1>4. View = Observed(work)
  BY <1>1 DEF View, Calling
<1> HIDE DEF t
<1>5. CASE pc' = "failed"
  BY <1>1, <1>5 DEF View, Calling, Contract!IndexFails
<1>6. CASE /\ ~RootTaken(t, p, inv)
           /\ work' = UpsertInventory(t, p, inv)
           /\ pc' = "versions" /\ cur' = inv
  <2>1. /\ \A x \in ObservedObjects(t) : x.path = p => x.inv.id = inv.id
        /\ Observed(work') = [Observed(t) EXCEPT !.objects =
             {x \in @ : x.inv.id # inv.id} \cup {[path |-> p, inv |-> inv]}]
    BY <1>1, <1>2, <1>6, InventoryObserved DEF RoomForRow
  <2> DEFINE objects == {x \in Observed(work).objects : x.inv.id # inv.id} \cup {[path |-> p, inv |-> inv]}
  <2>2. View' = [Observed(work') EXCEPT !.versions[inv.id] = WithNew(@, inv)]
    BY <1>6 DEF View, Calling
  <2>3. \A versions : Contract!WithNew(versions, inv) = WithNew(versions, inv)
    BY DEF Contract!WithNew, Contract!VersionsOf, WithNew, VersionsOf
  <2>4. ObservedObjects(t) = Observed(work).objects
    BY <1>3 DEF Observed
  <2>5. Observed(t).objects = Observed(work).objects
    BY <1>3 DEF Observed
  <2>6. Observed(work') = [Observed(work) EXCEPT !.roots = @ \cup {p}, !.objects = objects]
    BY <1>3, <2>1, <2>5 DEF Observed
  <2> HIDE DEF objects
  <2>7. View' = [Observed(work) EXCEPT !.roots = @ \cup {p}, !.objects = objects,
                                       !.versions[inv.id] = WithNew(@, inv)]
    BY <2>2, <2>6 DEF Observed
  <2>8. View' = [View EXCEPT !.roots = @ \cup {p},
          !.objects = {x \in @ : x.inv.id # inv.id} \cup {[path |-> p, inv |-> inv]},
          !.versions[inv.id] = Contract!WithNew(@, inv)]
    BY <1>4, <2>3, <2>7 DEF objects
  <2>9. Calling' /\ ~Calling
    BY <1>1, <1>6 DEF Calling
  <2> QED
    BY <1>1, <1>4, <1>6, <2>1, <2>4, <2>8, <2>9 DEF Contract!IndexObjectInventory
<1> QED
  BY <1>5, <1>6 DEF IndexObjectInventory, t

LEMMA TreeContract ==
  ASSUME StoreIInv, (\E v \in todo : AddPathtreeNodes(v)) \/ AddPathtreeChild
  PROVE  UNCHANGED Contract!backendVars
<1>1. UNCHANGED <<db, cur>> /\ Calling /\ Calling' /\ pc # "failed" /\ pc' # "failed"
  BY DEF AddPathtreeNodes, AddPathtreeChild, Calling
<1>2. /\ work'.roots = work.roots /\ work'.invs = work.invs /\ work'.vers = work.vers
      /\ work'.cont = work.cont
  BY DEF AddPathtreeNodes, AddPathtreeChild, StoreIInv, IInv, Types, Tables
<1>3. Observed(work') = Observed(work)
  BY <1>2, SameObserved
<1> QED
  BY <1>1, <1>3 DEF View, Contract!backendVars

LEMMA VersionContract ==
  ASSUME StoreIInv, InsertVersion
  PROVE  Contract!IndexFails \/ UNCHANGED Contract!backendVars
<1> DEFINE new == [inventory_id |-> row, num |-> ver, version |-> cur.versions[ver]]
           old == GetVersion(row, ver)
           v == [num |-> ver, version |-> cur.versions[ver]]
<1>1. /\ work \in Tables /\ Calling /\ cur \in Inventories /\ ver \in DOMAIN cur.versions
      /\ pc = "tree" /\ UNCHANGED <<db, cur>>
      /\ work' = IF old = {} THEN [work EXCEPT !.vers = work.vers \cup {new}] ELSE work
      /\ pc' \in {"failed", "versions"}
  BY DEF InsertVersion, Calling, StoreIInv, IInv, Types, TreeInv, CallsOfInventory
<1>2. CASE pc' = "failed"
  BY <1>1, <1>2 DEF View, Calling, Contract!IndexFails
<1>3. CASE pc' = "versions"
  <2>1. PICK i \in work.invs : i.id = row /\ i.inv = cur
    BY <1>1 DEF StoreIInv, ServeInv
  <2>2. cur.id \in ObjectIDs
    BY <1>1, StoreAssumption DEF StoreAssumption
  <2>3. /\ v \in VersionsOf(cur) /\ v.num = ver
        /\ [num |-> new.num, version |-> new.version] = v
    BY <1>1 DEF VersionsOf
  <2>4. new.inventory_id = row
    OBVIOUS
  <2>5. Calling' /\ View = [Observed(work) EXCEPT !.versions[cur.id] = WithNew(@, cur)]
                 /\ View' = [Observed(work') EXCEPT !.versions[cur.id] = WithNew(@, cur)]
    BY <1>1, <1>3 DEF View, Calling
  <2> HIDE DEF new, v
  <2>6. /\ work'.roots = work.roots /\ work'.invs = work.invs /\ work'.cont = work.cont
        /\ work'.vers = work.vers \/ (old = {} /\ work'.vers = work.vers \cup {new})
    <3> HIDE DEF old
    <3> QED
      BY <1>1 DEF Tables
  <2>7. View' = View
    <3>1. CASE work'.vers = work.vers
      BY <2>5, <2>6, <3>1, SameObserved
    <3>2. CASE old = {} /\ work'.vers = work.vers \cup {new}
      <4>1. Owned(work', cur.id, work'.vers) = Owned(work, cur.id, work.vers) \cup {new}
        BY <2>1, <2>4, <2>6, <3>2 DEF Owned
      <4>2. \A o \in ObjectIDs \ {cur.id} : Owned(work', o, work'.vers) = Owned(work, o, work.vers)
        <5>1. \A j \in work.invs : j.id = row => j = i
          BY <2>1 DEF StoreIInv, ServeInv, TableInv, KeysAreUnique
        <5> QED
          BY <2>1, <2>4, <2>6, <3>2, <5>1 DEF Owned
      <4>3. WithNew(Numbered(Owned(work', cur.id, work'.vers)), cur) =
              WithNew(Numbered(Owned(work, cur.id, work.vers)), cur)
        <5>1. Numbered(Owned(work', cur.id, work'.vers)) = Numbered(Owned(work, cur.id, work.vers)) \cup {v}
          BY <2>3, <4>1 DEF Numbered
        <5>2. \A j \in work.invs : j.inv.id = cur.id => j.id = row
          BY <2>1 DEF StoreIInv, ServeInv, TableInv, KeysAreUnique
        <5>3. \A w \in Owned(work, cur.id, work.vers) : w.num # ver
          BY <3>2, <5>2 DEF Owned, GetVersion
        <5>4. \A w \in Numbered(Owned(work, cur.id, work.vers)) : w.num # v.num
          BY <2>3, <5>3 DEF Numbered
        <5> QED
          BY <2>3, <5>1, <5>4, WithNewAbsorbs
      <4>4. \A o \in ObjectIDs :
              (IF o = cur.id THEN WithNew(Numbered(Owned(work', o, work'.vers)), cur)
                             ELSE Numbered(Owned(work', o, work'.vers))) =
              (IF o = cur.id THEN WithNew(Numbered(Owned(work, o, work.vers)), cur)
                             ELSE Numbered(Owned(work, o, work.vers)))
        BY <4>2, <4>3
      <4>5. ObservedContent(work') = ObservedContent(work)
        <5>1. \A o : Owned(work', o, work'.cont) = Owned(work, o, work.cont)
          BY <2>6 DEF Owned
        <5>2. /\ ObservedContent(work) = [o \in ObjectIDs |-> Located(Owned(work, o, work.cont))]
              /\ ObservedContent(work') = [o \in ObjectIDs |-> Located(Owned(work', o, work'.cont))]
          BY ObservedRows
        <5> QED
          BY <5>1, <5>2, Zenon
      <4>6. ObservedRoots(work') = ObservedRoots(work)
        BY <2>6 DEF ObservedRoots
      <4>7. ObservedObjects(work') = ObservedObjects(work)
        BY <2>6, SameObjects
      <4> DEFINE V(w) == [o \in ObjectIDs |->
                   IF o = cur.id THEN WithNew(Numbered(Owned(w, o, w.vers)), cur)
                                 ELSE Numbered(Owned(w, o, w.vers))]
      <4>8. V(work') = V(work)
        BY <4>4
      <4>9. \A w : [Observed(w) EXCEPT !.versions[cur.id] = WithNew(@, cur)] =
              [roots |-> ObservedRoots(w), objects |-> ObservedObjects(w), versions |-> V(w),
               content |-> ObservedContent(w)]
        BY <2>2, MoreVersions
      <4> HIDE DEF V
      <4>10. /\ View = [roots |-> ObservedRoots(work), objects |-> ObservedObjects(work),
                       versions |-> V(work), content |-> ObservedContent(work)]
             /\ View' = [roots |-> ObservedRoots(work'), objects |-> ObservedObjects(work'),
                         versions |-> V(work'), content |-> ObservedContent(work')]
        BY <2>5, <4>9
      <4> QED
        BY <4>5, <4>6, <4>7, <4>8, <4>10
    <3> QED
      BY <2>6, <3>1, <3>2
  <2> QED
    BY <1>1, <2>5, <2>7 DEF Contract!backendVars
<1> QED
  BY <1>1, <1>2, <1>3

\* With all versions added, what is announced is there, and nothing else is, as the rows are
\* of an inventory that this one extends; and so with the content.
LEMMA ContentContract ==
  ASSUME StoreIInv, StoreIInv', Extending, InsertContent
  PROVE  Contract!IndexReturns
<1> DEFINE id == cur.id
<1>1. /\ IInv /\ work \in Tables /\ TableInv(work) /\ TableInv(work')
      /\ pc = "versions" /\ todo = {} /\ pc' = "open" /\ db' = db
      /\ cur \in Inventories /\ Calling /\ ~Calling'
  BY DEF InsertContent, StoreIInv, ServeInv, IInv, Types, TreeInv, CallsOfInventory, Calling
<1>2. PICK i \in work.invs :
        /\ i.id = row /\ i.inv = cur
        /\ HasVersions(work, i, DOMAIN cur.versions) /\ ContentOfManifest(work, i)
  <2>1. DOMAIN cur.versions \ todo = DOMAIN cur.versions
    BY <1>1
  <2> QED
    BY <1>1, <2>1 DEF StoreIInv, ServeInv, Extending
<1>3. id \in ObjectIDs
  BY <1>1, StoreAssumption DEF StoreAssumption
<1>4. \A n \in DOMAIN cur.versions :
        /\ \E v \in work.vers : v.inventory_id = row /\ v.num = n /\ Agrees(v.version, cur.versions[n])
        /\ cur.versions[n].root \in work.nodes
  BY <1>2 DEF HasVersions, HasVersion
<1>5. \A j \in work.invs : j.inv.id = id \/ j.id = row => j = i
  BY <1>1, <1>2 DEF TableInv, KeysAreUnique
<1>6. /\ \A w : w \in Owned(work, id, work.vers) <=> w \in work.vers /\ w.inventory_id = row
      /\ \A w : w \in Owned(work, id, work.cont) <=> w \in work.cont /\ w.inventory_id = row
  BY <1>2, <1>5 DEF Owned
<1>7. ObservedVersions(work)[id] = Numbered(Owned(work, id, work.vers))
  <2>1. ObservedVersions(work) = [o \in ObjectIDs |-> Numbered(Owned(work, o, work.vers))]
    BY ObservedRows
  <2> QED
    BY <1>3, <2>1, Zenon
<1>8. \A n \in DOMAIN cur.versions : \E v \in ObservedVersions(work)[id] : v.num = n
  <2> SUFFICES ASSUME NEW n \in DOMAIN cur.versions
               PROVE  \E v \in Numbered(Owned(work, id, work.vers)) : v.num = n
    BY <1>7
  <2>1. PICK r \in Owned(work, id, work.vers) : r.num = n
    BY <1>4, <1>6
  <2> DEFINE v == [num |-> r.num, version |-> r.version]
  <2>2. v.num = n
    BY <2>1
  <2>3. v \in Numbered(Owned(work, id, work.vers))
    BY DEF Numbered
  <2> QED
    BY <2>2, <2>3
<1>9. View = Observed(work)
  <2>1. View = [Observed(work) EXCEPT !.versions[id] = WithNew(@, cur)]
    BY <1>1 DEF View
  <2>2. WithNew(ObservedVersions(work)[id], cur) = ObservedVersions(work)[id]
    BY <1>8, WithNewOfAll
  <2>3. [ObservedVersions(work) EXCEPT ![id] = WithNew(@, cur)] = ObservedVersions(work)
    <3>1. ObservedVersions(work) = [o \in ObjectIDs |-> ObservedVersions(work)[o]]
      BY DEF ObservedVersions
    <3> QED
      BY <2>2, <3>1
  <2>4. [Observed(work) EXCEPT !.versions[id] = WithNew(@, cur)] = Observed(work)
    BY <2>3 DEF Observed
  <2> QED
    BY <2>1, <2>4
<1>10. \A v, w \in ObservedVersions(work)[id] : v.num = w.num => v = w
  <2> SUFFICES ASSUME NEW v \in Owned(work, id, work.vers), NEW w \in Owned(work, id, work.vers),
                      v.num = w.num
               PROVE  v.version = w.version
    BY <1>7 DEF Numbered
  <2> QED
    BY <1>1, <1>6 DEF TableInv, KeysAreUnique
<1>26. \A v \in ObservedVersions(work)[id] :
         v.num \in DOMAIN cur.versions /\ Agrees(v.version, cur.versions[v.num])
  <2> SUFFICES ASSUME NEW r \in Owned(work, id, work.vers)
               PROVE  r.num \in DOMAIN cur.versions /\ Agrees(r.version, cur.versions[r.num])
    BY <1>7 DEF Numbered
  <2>1. r \in work.vers /\ r.inventory_id = row
    BY <1>6
  <2>2. r.num \in DOMAIN cur.versions
    BY <1>2, <2>1 DEF HasVersions
  <2>3. PICK v \in work.vers :
          v.inventory_id = row /\ v.num = r.num /\ Agrees(v.version, cur.versions[r.num])
    BY <1>4, <2>2
  <2>4. v = r
    BY <1>1, <2>1, <2>3 DEF TableInv, KeysAreUnique
  <2> QED
    BY <2>2, <2>3, <2>4
<1>27. Contract!Replaced(ObservedVersions(work)[id], cur)
  <2>1. \A v, w : Contract!Agrees(v, w) <=> Agrees(v, w)
    BY DEF Contract!Agrees, Agrees
  <2> QED
    BY <1>8, <1>10, <1>26, <2>1 DEF Contract!Replaced
<1>11. PICK rows :
        /\ work'.roots = work.roots /\ work'.invs = work.invs /\ work'.vers = work.vers
        /\ work'.cont = work.cont \cup rows
        /\ \A c \in rows : /\ c.inventory_id = row
                           /\ [file |-> c.file, path |-> c.path] \in cur.manifest
  BY <1>1, RowsInserted
<1>12. Owned(work', id, work'.cont) = Owned(work, id, work.cont) \cup rows
  BY <1>2, <1>6, <1>11 DEF Owned
<1>13. \A o \in ObjectIDs \ {id} : Owned(work', o, work'.cont) = Owned(work, o, work.cont)
  BY <1>2, <1>5, <1>11 DEF Owned
<1> DEFINE content == Located(Owned(work', id, work'.cont))
<1>16. content \in SUBSET cur.manifest
  <2> SUFFICES ASSUME NEW c \in Owned(work', id, work'.cont)
               PROVE  [file |-> c.file, path |-> c.path] \in cur.manifest
    BY DEF Located
  <2> QED
    BY <1>2, <1>6, <1>11, <1>12 DEF ContentOfManifest
<1>17. \A c, d \in content : c.file = d.file => c = d
  <2> SUFFICES ASSUME NEW c \in Owned(work', id, work'.cont), NEW d \in Owned(work', id, work'.cont),
                      c.file = d.file
               PROVE  c.path = d.path
    BY DEF Located
  <2>1. c \in work'.cont /\ d \in work'.cont /\ c.inventory_id = d.inventory_id
    BY <1>6, <1>11, <1>12
  <2> QED
    BY <1>1, <2>1 DEF TableInv, KeysAreUnique
<1>18. \A f \in StateFiles[cur] : \E c \in content : c.file = f
  <2> SUFFICES ASSUME NEW f \in StateFiles[cur] PROVE \E c \in content : c.file = f
    OBVIOUS
  <2>1. PICK c \in work'.cont : c.inventory_id = row /\ c.file = f
    BY <1>1, <1>4, FilesInserted
  <2>2. c \in Owned(work', id, work'.cont)
    BY <1>6, <1>11, <1>12, <2>1
  <2> DEFINE l == [file |-> c.file, path |-> c.path]
  <2>3. l.file = f
    BY <2>1
  <2>4. l \in content
    BY <2>2 DEF Located
  <2> QED
    BY <2>3, <2>4
<1>19. ObservedContent(work') = [ObservedContent(work) EXCEPT ![id] = content]
  <2>1. /\ ObservedContent(work) = [o \in ObjectIDs |-> Located(Owned(work, o, work.cont))]
        /\ ObservedContent(work') = [o \in ObjectIDs |-> Located(Owned(work', o, work'.cont))]
    BY ObservedRows
  <2>2. \A o \in ObjectIDs \ {id} :
          Located(Owned(work', o, work'.cont)) = Located(Owned(work, o, work.cont))
    BY <1>13
  <2> QED
    BY <1>3, <2>1, <2>2
<1> HIDE DEF content
<1>20. ObservedVersions(work') = ObservedVersions(work)
  <2>1. \A o : Owned(work', o, work'.vers) = Owned(work, o, work.vers)
    BY <1>11 DEF Owned
  <2>2. /\ ObservedVersions(work) = [o \in ObjectIDs |-> Numbered(Owned(work, o, work.vers))]
        /\ ObservedVersions(work') = [o \in ObjectIDs |-> Numbered(Owned(work', o, work'.vers))]
    BY ObservedRows
  <2> QED
    BY <2>1, <2>2, Zenon
<1>21. ObservedRoots(work') = ObservedRoots(work)
  BY <1>11 DEF ObservedRoots
<1>22. ObservedObjects(work') = ObservedObjects(work)
  BY <1>11, SameObjects
<1>23. Observed(work') = [Observed(work) EXCEPT !.content[id] = content]
  BY <1>19, <1>20, <1>21, <1>22 DEF Observed
<1>24. View' = Observed(work')
  BY <1>1 DEF View
<1>25. View.versions = ObservedVersions(work) /\ View.content = ObservedContent(work)
  BY <1>9 DEF Observed
<1> QED
  BY <1>1, <1>9, <1>16, <1>17, <1>18, <1>23, <1>24, <1>25, <1>27 DEF Contract!IndexReturns

LEMMA InitContract == Init => Contract!BackendInit
<1> SUFFICES ASSUME Init PROVE Contract!BackendInit
  OBVIOUS
<1>1. /\ ObservedRoots(EmptyTables) = {} /\ ObservedObjects(EmptyTables) = {}
      /\ \A o : Rows(EmptyTables, o) = {}
  BY DEF EmptyTables, ObservedRoots, ObservedObjects, GetObjectByPath, GetInventoryPath, Rows
<1>2. Observed(EmptyTables) = Contract!Empty
  BY <1>1 DEF Observed, ObservedVersions, ObservedContent, Contract!Empty
<1> QED
  BY <1>2 DEF Init, View, Calling, Contract!BackendInit

LEMMA NextContract ==
  ASSUME StoreIInv, StoreIInv', [Next]_vars
  PROVE  [~work'.orphaned /\ Extending => Contract!BackendNext]_(Contract!backendVars)
<1>1. CASE NewTx \/ Commit \/ Rollback
  BY <1>1, TxContract DEF Contract!BackendNext
<1>2. CASE \E p \in Paths : IndexObjectRoot(p)
  BY <1>2, RootContract DEF Contract!BackendNext
<1>3. CASE \E old \in SUBSET work.roots, enforced \in FkModes : RemoveObjectsBefore(old, enforced)
  BY <1>3, DeleteContract DEF Contract!BackendNext
<1>4. CASE \E p \in Paths, inv \in Inventories : IndexObjectInventory(p, inv)
  BY <1>4, InventoryContract DEF Contract!BackendNext
<1>5. CASE (\E v \in todo : AddPathtreeNodes(v)) \/ AddPathtreeChild
  BY <1>5, TreeContract
<1>6. CASE InsertVersion
  BY <1>6, VersionContract DEF Contract!BackendNext
<1>7. CASE InsertContent
  BY <1>7, ContentContract DEF Contract!BackendNext
<1>8. CASE UNCHANGED vars
  BY <1>8 DEF vars, callVars, View, Calling, Contract!backendVars
<1> QED
  BY <1>1, <1>2, <1>3, <1>4, <1>5, <1>6, <1>7, <1>8 DEF Next

\* As long as no root was removed without its inventory, and of an inventory that extends
\* what was indexed under its id before, the tables and statements of internal/sqlite
\* implement the index of backend.go: every statement of a call but the first and the last is
\* invisible, and so are row ids, shared nodes and what a rollback undoes, and the object has
\* the versions of the new inventory, each agreeing with it, and no others.
THEOREM StoreImplementsBackend == Spec => ImplementsBackend
<1>1. Init => StoreIInv
  BY InitStoreIInv
<1>2. StoreIInv /\ [Next]_vars => StoreIInv'
  BY NextStoreIInv
<1>3. StoreIInv /\ StoreIInv' /\ [Next]_vars =>
        [~work'.orphaned /\ Extending => Contract!BackendNext]_(Contract!backendVars)
  BY NextContract
<1> QED
  BY <1>1, <1>2, <1>3, InitContract, PTL DEF Spec, ImplementsBackend
=============================================================================
