------------------------------- MODULE Export -------------------------------
(***************************************************************************)
(* ox export (cmd/ox/cmd/export/export.go): the files of an object's       *)
(* version are listed, and downloaded one by one into a directory of the   *)
(* local file system.  The service finds a file by its digest: the index   *)
(* says which object roots have it, and the storage root is read there     *)
(* (downloadHandler, internal/index/service.go).  Meanwhile others use the *)
(* directory, objects leave the storage root or change, and the index is   *)
(* behind until it is brought up to date.                                  *)
(*                                                                         *)
(* A file is read in two parts, so that reading can fail before, between   *)
(* and after them.  Any call may fail, and ox may be called again.         *)
(***************************************************************************)
EXTENDS Naturals, Sequences

CONSTANTS
  Files,       \* names of the files of the version
  Digests,     \* digests, each standing for the content that has it as well
  SumOf,       \* the digest of each file
  Roots,       \* object roots that have the content
  Other,       \* content that has none of the digests
  Theirs,      \* content of a file that another program has made
  ErrorText,   \* what http.Error writes
  None,        \* nothing there
  MaxChanges   \* bound: changes of the storage root and, by others, of the directory

ASSUME ExportAssumption ==
  /\ SumOf \in [Files -> Digests]
  /\ {Other, Theirs, ErrorText, None} \cap (Digests \cup Roots) = {}
  /\ Theirs \notin {Other, None} /\ None # <<Theirs>> /\ None \notin {"file", "dir"}
  /\ MaxChanges \in Nat

VARIABLES
  store,      \* what is read in each root at the path of each digest: the content
              \* that was there when the root was indexed, Other, or None
  contents,   \* content paths in the index: the roots of each digest
  dst,        \* the destination: None, "file" or "dir"
  files,      \* what the files in it hold, part by part; None if they are not there
  pc,         \* of the export
  dstMode,    \* what statDst has found
  copies,     \* files that are still to be copied
  file,       \* the one that is being copied
  source,     \* the root that the handler will read from; then the content it reads
  excuse,     \* history: why a file may be other than the object's
  changes     \* those spent of MaxChanges

storeVars == <<store, contents>>
dstVars == <<dst, files>>
exportVars == <<pc, dstMode, copies, file, source>>
vars == <<storeVars, dstVars, exportVars, excuse, changes>>

Whole(d) == <<d, d>>
NoFiles == [f \in Files |-> None]
AllWith(e) == [f \in Files |-> e]

Ended == pc \in {"done", "failed", "canceled"}

\* The destination has been looked at and found to be empty.
Copying == pc \in {"copies", "request", "open", "rest"}

-----------------------------------------------------------------------------
(* Slips that the code avoids, each a variant of one definition below: they *)
(* take no part in the specification.                                       *)

\* A directory that is there after all will do (os.MkdirAll).
MkdirIfMissing ==
  /\ dst # "file"
  /\ dst' = "dir"
  /\ UNCHANGED files

\* The status is not looked at: the text of the error is the file.
RefusedIgnored ==
  /\ pc' = "copies"
  /\ files' = [files EXCEPT ![file] = Append(@, ErrorText)]

-----------------------------------------------------------------------------
(* Run: what happens before the first file *)

Cancel ==
  /\ pc \in {"stat", "list", "check"}
  /\ pc' = "canceled"
  /\ UNCHANGED <<storeVars, dstVars, dstMode, copies, file, source, excuse, changes>>

\* A file is not a directory: Cancel.
Stat ==
  /\ pc = "stat"
  /\ dst # "file"
  /\ dstMode' = dst
  /\ pc' = "list"
  /\ UNCHANGED <<storeVars, dstVars, copies, file, source, excuse, changes>>

\* The answers may end early without an error (GetObjectState, sqlite.go:333-335).
List ==
  /\ pc = "list"
  /\ \E listed \in SUBSET Files :
       /\ copies' = listed
       /\ excuse' = [f \in Files |-> IF f \in listed THEN "none" ELSE "unlisted"]
  /\ pc' = "check"
  /\ UNCHANGED <<storeVars, dstVars, dstMode, file, source, changes>>

NotEmpty == files # NoFiles

Mkdir ==
  /\ dst = None
  /\ dst' = "dir"
  /\ UNCHANGED files

Check ==
  /\ pc = "check"
  /\ \/ dstMode = "dir" /\ dst = "dir" /\ ~NotEmpty /\ UNCHANGED <<dstVars>>
     \/ dstMode = None /\ Mkdir
  /\ pc' = "copies"
  /\ UNCHANGED <<storeVars, dstMode, copies, file, source, excuse, changes>>

-----------------------------------------------------------------------------
(* download: one file, in the order of a Go map *)

\* os.MkdirAll and os.Create: what others do to the directory is not looked at again.
Create ==
  /\ pc = "copies"
  /\ dst # "file"
  /\ \E f \in copies :
       /\ file' = f
       /\ copies' = copies \ {f}
       /\ files' = [files EXCEPT ![f] = <<>>]
       /\ excuse' = [excuse EXCEPT ![f] = "none"]
  /\ dst' = "dir"
  /\ pc' = "request"
  /\ UNCHANGED <<storeVars, dstMode, source, changes>>

\* A status other than 200.
Refused ==
  /\ pc' = "failed"
  /\ UNCHANGED files

\* Any of the rows will do (LIMIT 1).
GetContentPath ==
  /\ pc = "request"
  /\ \/ \E r \in contents[SumOf[file]] : source' = r /\ pc' = "open" /\ UNCHANGED files
     \/ contents[SumOf[file]] = {} /\ Refused /\ UNCHANGED source
  /\ UNCHANGED <<storeVars, dst, dstMode, copies, file, excuse, changes>>

\* Those who have taken the file away or put another in its place do not see what comes.
Receive(part, why) ==
  IF excuse[file] = "theirs"
    THEN UNCHANGED <<files, excuse>>
    ELSE /\ files' = [files EXCEPT ![file] = Append(@, part)]
         /\ excuse' = [excuse EXCEPT ![file] = why]

\* The first part: an error before it still has the status of an error.
OpenFile ==
  LET content == store[source][SumOf[file]]
  IN  /\ pc = "open"
      /\ \/ /\ content # None
            /\ Receive(content, IF content = SumOf[file] THEN "none" ELSE "replaced")
            /\ source' = content
            /\ pc' = "rest"
         \/ Refused /\ UNCHANGED <<source, excuse>>
      /\ UNCHANGED <<storeVars, dst, dstMode, copies, file, changes>>

\* An error that comes later has no status of its own: its text ends the answer.
CopyRest ==
  /\ pc = "rest"
  /\ Receive(source, excuse[file]) \/ Receive(ErrorText, "torn")
  /\ pc' = "copies"
  /\ UNCHANGED <<storeVars, dst, dstMode, copies, file, source, changes>>

\* A call fails here or on the way: what there is of the files stays.
Fail ==
  /\ Copying
  /\ pc' = "failed"
  /\ UNCHANGED <<storeVars, dstVars, dstMode, copies, file, source, excuse, changes>>

Done ==
  /\ pc = "copies"
  /\ copies = {}
  /\ pc' = "done"
  /\ UNCHANGED <<storeVars, dstVars, dstMode, copies, file, source, excuse, changes>>

\* The user calls ox again.
Again ==
  /\ Ended
  /\ pc' = "stat"
  /\ dstMode' = None /\ copies' = {} /\ file' = None /\ source' = None
  /\ excuse' = AllWith("none")
  /\ UNCHANGED <<storeVars, dstVars, changes>>

-----------------------------------------------------------------------------
(* Others *)

Change == changes < MaxChanges /\ changes' = changes + 1

\* Before the directory has been looked at, what others do to it is no excuse.
Excused(some) ==
  excuse' = [f \in Files |-> IF (Copying \/ Ended) /\ f \in some THEN "theirs" ELSE excuse[f]]

MakeDst ==
  /\ Change
  /\ dst = None
  /\ dst' \in {"dir", "file"}
  /\ UNCHANGED <<storeVars, files, exportVars, excuse>>

MakeFile(f) ==
  /\ Change
  /\ dst = "dir"
  /\ files' = [files EXCEPT ![f] = <<Theirs>>]
  /\ Excused({f})
  /\ UNCHANGED <<storeVars, dst, exportVars>>

RemoveDst ==
  /\ Change
  /\ dst # None
  /\ dst' = None
  /\ files' = NoFiles
  /\ Excused(Files)
  /\ UNCHANGED <<storeVars, exportVars>>

ChangeContent(r, d) ==
  /\ Change
  /\ store' \in {[store EXCEPT ![r][d] = c] : c \in {None, Other}}
  /\ UNCHANGED <<contents, dstVars, exportVars, excuse>>

IndexAll ==
  /\ contents' = [d \in Digests |-> {r \in Roots : store[r][d] = d}]
  /\ UNCHANGED <<store, dstVars, exportVars, excuse, changes>>

-----------------------------------------------------------------------------
Init ==
  /\ store = [r \in Roots |-> [d \in Digests |-> d]]
  /\ contents = [d \in Digests |-> Roots]
  /\ dst = None /\ files = NoFiles
  /\ pc = "stat"
  /\ dstMode = None /\ copies = {} /\ file = None /\ source = None
  /\ excuse = AllWith("none")
  /\ changes = 0

Next ==
  \/ Cancel \/ Stat \/ List \/ Check
  \/ Create \/ GetContentPath \/ OpenFile \/ CopyRest \/ Fail \/ Done \/ Again
  \/ MakeDst \/ \E f \in Files : MakeFile(f)
  \/ RemoveDst
  \/ \E r \in Roots, d \in Digests : ChangeContent(r, d)
  \/ IndexAll

Spec == Init /\ [][Next]_vars

-----------------------------------------------------------------------------
Contents == Digests \cup {Other, Theirs, ErrorText, None}

TypeOK ==
  /\ store \in [Roots -> [Digests -> Digests \cup {Other, None}]]
  /\ contents \in [Digests -> SUBSET Roots]
  /\ dst \in {None, "file", "dir"}
  /\ files \in [Files -> {None} \cup Seq(Contents)]
  /\ pc \in {"stat", "list", "check", "copies", "request", "open", "rest",
             "done", "failed", "canceled"}
  /\ dstMode \in {None, "file", "dir"}
  /\ copies \subseteq Files
  /\ file \in Files \cup {None}
  /\ source \in Roots \cup Contents
  /\ excuse \in [Files -> {"none", "unlisted", "replaced", "torn", "theirs"}]
  /\ changes \in 0..MaxChanges

\* After an export without an error, each file has the content of its digest: whatever
\* has failed or changed in between, unless the list was cut short, the content was
\* replaced since it was indexed, others were at the file, or reading broke off within
\* the file (downloadHandler, service.go:174-177; download, export.go:198-204).  And what
\* is not listed is not there: nothing is left of an earlier export that failed.
ExportedWhole ==
  pc = "done" =>
    \A f \in Files :
      /\ excuse[f] = "none" => files[f] = Whole(SumOf[f])
      /\ excuse[f] = "unlisted" => files[f] = None

\* A file that others have put into the directory before it was looked at is not
\* written to, if the directory has come into being since it was asked for as well.
NothingOverwritten ==
  [][\A f \in Files : files[f] = <<Theirs>> /\ excuse[f] # "theirs" /\ changes' = changes
       => files'[f] = files[f]]_vars
=============================================================================
