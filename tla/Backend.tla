------------------------------- MODULE Backend -------------------------------
(***************************************************************************)
(* What an index promises the indexer and the readers, with no tables and  *)
(* no row ids (the interfaces Backend and BackendTx of                     *)
(* internal/index/backend.go): object roots, the inventory that is served  *)
(* at a root, and the versions and content files of each object.  A        *)
(* transaction sees its own writes, readers what was committed, and a call *)
(* that fails leaves a transaction that can only be rolled back.           *)
(*                                                                         *)
(* An inventory replaces the one with its id, at whatever root that was,   *)
(* and what is known of the object is what it says (backend.go:59-62):     *)
(* versions that it has and that were known must agree with it, else the   *)
(* call is an error, and there are no others; all content is of its        *)
(* manifest.                                                               *)
(***************************************************************************)
EXTENDS ObjectVersions

CONSTANTS
  Paths,        \* object root paths
  Inventories,  \* OCFL id, versions, manifest
  NoInventory,
  ObjectIDs,
  StateFiles    \* the files in the versions of each inventory

VARIABLES
  index,  \* what readers get
  view,   \* what the transaction gets
  phase,  \* "idle": no transaction; "open"; "calling": in IndexObjectInventory; "failed"
  call    \* the inventory that is being indexed

backendVars == <<index, view, phase, call>>

Empty ==
  [roots |-> {}, objects |-> {},
   versions |-> [o \in ObjectIDs |-> {}], content |-> [o \in ObjectIDs |-> {}]]

BackendInit ==
  /\ index = Empty
  /\ view = Empty
  /\ phase = "idle"
  /\ call = NoInventory

NewTx ==
  /\ phase = "idle"
  /\ phase' = "open"
  /\ UNCHANGED <<index, view, call>>

Commit ==
  /\ phase = "open"
  /\ index' = view
  /\ phase' = "idle"
  /\ UNCHANGED <<view, call>>

Rollback ==
  /\ phase # "idle"
  /\ view' = index
  /\ phase' = "idle"
  /\ call' = NoInventory
  /\ UNCHANGED index

IndexObjectRoot(p) ==
  /\ phase = "open"
  /\ view' = [view EXCEPT !.roots = @ \cup {p}]
  /\ UNCHANGED <<index, phase, call>>

\* An object goes with its root, and everything that is known of it.
RemoveObjectsBefore(old) ==
  /\ phase = "open"
  /\ old \subseteq view.roots
  /\ LET gone == {x.inv.id : x \in {y \in view.objects : y.path \in old}}
     IN  view' = [roots |-> view.roots \ old,
                  objects |-> {x \in view.objects : x.path \notin old},
                  versions |-> [o \in ObjectIDs |-> IF o \in gone THEN {} ELSE view.versions[o]],
                  content |-> [o \in ObjectIDs |-> IF o \in gone THEN {} ELSE view.content[o]]]
  /\ UNCHANGED <<index, phase, call>>

\* At a root that no other object has.
IndexObjectInventory(p, inv) ==
  /\ phase = "open"
  /\ \A x \in view.objects : x.path = p => x.inv.id = inv.id
  /\ view' = [view EXCEPT
       !.roots = @ \cup {p},
       !.objects = {x \in @ : x.inv.id # inv.id} \cup {[path |-> p, inv |-> inv]},
       !.versions[inv.id] = WithNew(@, inv)]
  /\ phase' = "calling"
  /\ call' = inv
  /\ UNCHANGED index

\* The object has the versions of the inventory, once each, and no others.
Replaced(versions, inv) ==
  /\ \A v \in versions :
       v.num \in DOMAIN inv.versions /\ Agrees(v.version, inv.versions[v.num])
  /\ \A v, w \in versions : v.num = w.num => v = w
  /\ \A n \in DOMAIN inv.versions : \E v \in versions : v.num = n

\* All files of the versions have a content path, and none has two.
IndexReturns ==
  /\ phase = "calling"
  /\ Replaced(view.versions[call.id], call)
  /\ \E content \in SUBSET call.manifest :
       /\ \A c, d \in content : c.file = d.file => c = d
       /\ \A f \in StateFiles[call] : \E c \in content : c.file = f
       /\ view' = [view EXCEPT !.content[call.id] = content]
  /\ phase' = "open"
  /\ call' = NoInventory
  /\ UNCHANGED index

IndexFails ==
  /\ phase \in {"open", "calling"}
  /\ view' = index
  /\ phase' = "failed"
  /\ call' = NoInventory
  /\ UNCHANGED index

BackendNext ==
  \/ NewTx
  \/ Commit
  \/ Rollback
  \/ \E p \in Paths : IndexObjectRoot(p)
  \/ \E old \in SUBSET view.roots : RemoveObjectsBefore(old)
  \/ \E p \in Paths, inv \in Inventories : IndexObjectInventory(p, inv)
  \/ IndexReturns
  \/ IndexFails

BackendSpec == BackendInit /\ [][BackendNext]_backendVars
=============================================================================
