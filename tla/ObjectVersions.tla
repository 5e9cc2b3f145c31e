--------------------------- MODULE ObjectVersions ---------------------------
(***************************************************************************)
(* What an index has to say of the versions of an object: a version is the *)
(* digest of its state's root directory (root), the message and the second *)
(* of its created time (meta), what the created time has below the second  *)
(* (fraction), and the user.                                               *)
(***************************************************************************)
CONSTANT NoUser  \* the user of a version that names none

\* What is compared with a version that is indexed already: created to the second only,
\* and the user only if the inventory names one (tx.go:172-190).
Agrees(old, new) ==
  /\ old.root = new.root
  /\ old.meta = new.meta
  /\ new.user # NoUser => old.user = new.user

VersionsOf(inv) == {[num |-> n, version |-> inv.versions[n]] : n \in DOMAIN inv.versions}

\* A version that is there already is not written again.
WithNew(versions, inv) ==
  versions \cup {v \in VersionsOf(inv) : \A w \in versions : w.num # v.num}
=============================================================================
