---------------------------- MODULE ExportProofs ----------------------------
(***************************************************************************)
(* Proofs of the safety properties of Export: what an export that reports  *)
(* no error has written, and what it leaves alone.                         *)
(***************************************************************************)
EXTENDS Export, TLAPS

\* The file that is being copied is not finished.
InHand(f) == pc \in {"request", "open", "rest"} /\ f = file

\* The list and the directory, before the first file is copied.
Listed ==
  pc = "check" => \A f \in Files : excuse[f] = IF f \in copies THEN "none" ELSE "unlisted"

Empty ==
  dst = None => /\ files = NoFiles
                /\ Copying => \A f \in Files : excuse[f] = "theirs"

\* What a file without an excuse holds, as the copying goes on.
Parts ==
  Copying \/ pc = "done" =>
    \A f \in Files :
      /\ excuse[f] = "unlisted" => files[f] = None /\ f \notin copies /\ ~InHand(f)
      /\ excuse[f] = "none" /\ f \notin copies /\ ~InHand(f) => files[f] = Whole(SumOf[f])

Current ==
  /\ pc \in {"request", "open", "rest"} => file \in Files /\ file \notin copies
  /\ pc = "open" => source \in Roots
  /\ pc \in {"request", "open"} =>
       \/ excuse[file] = "theirs"
       \/ excuse[file] = "none" /\ files[file] = <<>>
  /\ pc = "rest" => source \in Contents
  /\ pc = "rest" =>
       \/ excuse[file] = "theirs"
       \/ excuse[file] = "none" /\ files[file] = <<SumOf[file]>> /\ source = SumOf[file]
       \/ excuse[file] = "replaced" /\ files[file] = <<source>> /\ source # Theirs
  /\ pc = "done" => copies = {}

\* As long as the directory is the export's, a file of others has the others as its excuse.
Foreign == Copying => \A f \in Files : files[f] = <<Theirs>> => excuse[f] = "theirs"

IInv == TypeOK /\ Listed /\ Empty /\ Parts /\ Current /\ Foreign

-----------------------------------------------------------------------------
LEMMA InitIInv == Init => IInv
BY ExportAssumption DEF ExportAssumption, Init, IInv, TypeOK, Listed, Empty, Parts, Current, Foreign,
   Copying, NoFiles, AllWith, Contents, InHand

\* Steps before and after the copying.
LEMMA CancelIInv == ASSUME IInv, Cancel PROVE IInv'
BY DEF Cancel, storeVars, dstVars, IInv, TypeOK, Listed, Empty, Parts, Current, Foreign, Copying, InHand

LEMMA StatIInv == ASSUME IInv, Stat PROVE IInv'
BY DEF Stat, storeVars, dstVars, IInv, TypeOK, Listed, Empty, Parts, Current, Foreign, Copying, InHand

LEMMA ListIInv == ASSUME IInv, List PROVE IInv'
BY DEF List, storeVars, dstVars, IInv, TypeOK, Listed, Empty, Parts, Current, Foreign, Copying, InHand

LEMMA CheckIInv == ASSUME IInv, Check PROVE IInv'
<1>1. /\ pc = "check" /\ pc' = "copies"
      /\ UNCHANGED <<storeVars, copies, file, source, excuse, changes, dstMode>>
  BY DEF Check
<1>2. files = NoFiles /\ files' = NoFiles
  BY DEF Check, Mkdir, NotEmpty, dstVars, IInv, Empty
<1>2a. dst' # None
  BY ExportAssumption DEF ExportAssumption, Check, Mkdir, dstVars
<1>3. TypeOK'
  BY <1>1, <1>2 DEF Check, Mkdir, dstVars, storeVars, IInv, TypeOK
<1>4. Listed' /\ Empty' /\ Current'
  BY <1>1, <1>2, <1>2a DEF IInv, Listed, Empty, Current
<1>5. Parts'
  BY <1>1, <1>2 DEF IInv, Listed, Parts, NoFiles, InHand
<1>6. Foreign'
  BY <1>1, <1>2, ExportAssumption DEF ExportAssumption, Foreign, NoFiles
<1> QED
  BY <1>3, <1>4, <1>5, <1>6 DEF IInv

LEMMA AgainIInv == ASSUME IInv, Again PROVE IInv'
BY DEF Again, Ended, AllWith, storeVars, dstVars, IInv, TypeOK, Listed, Empty, Parts, Current, Foreign,
   Copying, InHand, Contents

\* Steps of one download.
LEMMA CreateIInv == ASSUME IInv, Create PROVE IInv'
<1>1. PICK f \in copies :
        /\ file' = f /\ copies' = copies \ {f}
        /\ files' = [files EXCEPT ![f] = <<>>]
        /\ excuse' = [excuse EXCEPT ![f] = "none"]
  BY DEF Create
<1>2. /\ pc = "copies" /\ pc' = "request" /\ dst' = "dir"
      /\ UNCHANGED <<storeVars, dstMode, source, changes>>
  BY DEF Create
<1>3. f \in Files /\ files \in [Files -> {None} \cup Seq(Contents)] /\ DOMAIN excuse = Files
  BY DEF IInv, TypeOK
<1>4. TypeOK'
  BY <1>1, <1>2, <1>3 DEF IInv, TypeOK, storeVars
<1>5. Listed' /\ Empty' /\ Current'
  BY <1>1, <1>2, <1>3, ExportAssumption DEF Listed, Empty, Current, IInv, TypeOK, ExportAssumption
<1>6. Parts'
  BY <1>1, <1>2, <1>3 DEF IInv, Parts, InHand, Copying
<1>7. Foreign'
  BY <1>1, <1>2, <1>3 DEF IInv, Foreign, Copying
<1> QED
  BY <1>4, <1>5, <1>6, <1>7 DEF IInv

LEMMA GetContentPathIInv == ASSUME IInv, GetContentPath PROVE IInv'
<1>1. /\ pc = "request" /\ pc' \in {"open", "failed"}
      /\ UNCHANGED <<storeVars, dstVars, dstMode, copies, file, excuse, changes>>
  BY DEF GetContentPath, Refused, dstVars
<1>2. source' \in Roots \/ (source' = source /\ pc' = "failed")
  <2>1. file \in Files /\ SumOf[file] \in Digests /\ contents[SumOf[file]] \subseteq Roots
    BY <1>1, ExportAssumption DEF IInv, TypeOK, Current, ExportAssumption
  <2> QED
    BY <2>1 DEF GetContentPath, Refused
<1>3. TypeOK'
  BY <1>1, <1>2 DEF storeVars, dstVars, IInv, TypeOK
<1>4. Listed' /\ Empty' /\ Current'
  BY <1>1, <1>2 DEF dstVars, IInv, Listed, Empty, Current, Copying
<1>5. Parts' /\ Foreign'
  BY <1>1 DEF dstVars, IInv, Parts, Foreign, InHand, Copying
<1> QED
  BY <1>3, <1>4, <1>5 DEF IInv

LEMMA OpenFileIInv == ASSUME IInv, OpenFile PROVE IInv'
<1> DEFINE content == store[source][SumOf[file]]
<1>1. /\ pc = "open" /\ file \in Files /\ file \notin copies
      /\ UNCHANGED <<storeVars, dst, dstMode, copies, file, changes>>
  BY DEF OpenFile, IInv, Current
<1>2. content \in Digests \cup {Other, None} /\ content # Theirs
  BY <1>1, ExportAssumption DEF IInv, TypeOK, Current, ExportAssumption
<1>3. \/ excuse[file] = "theirs"
      \/ excuse[file] = "none" /\ files[file] = <<>>
  BY <1>1 DEF IInv, Current
<1>4. files \in [Files -> {None} \cup Seq(Contents)] /\ excuse \in [Files -> {"none", "unlisted", "replaced", "torn", "theirs"}]
  BY DEF IInv, TypeOK
<1> HIDE DEF content
<1>5. CASE pc' = "failed" /\ UNCHANGED <<files, source, excuse>>
  BY <1>1, <1>5 DEF storeVars, IInv, TypeOK, Listed, Empty, Parts, Current, Foreign, Copying, InHand
<1>6. CASE /\ content # None
           /\ Receive(content, IF content = SumOf[file] THEN "none" ELSE "replaced")
           /\ source' = content
           /\ pc' = "rest"
  <2>1. CASE excuse[file] = "theirs"
    <3>1. UNCHANGED <<files, excuse>>
      BY <1>6, <2>1 DEF Receive
    <3>2. TypeOK'
      BY <1>1, <1>2, <1>6, <3>1 DEF storeVars, IInv, TypeOK, Contents
    <3> QED
      BY <1>1, <1>2, <1>6, <2>1, <3>1, <3>2 DEF IInv, Listed, Empty, Parts, Current, Foreign, Copying, InHand, Contents
  <2>2. CASE excuse[file] = "none" /\ files[file] = <<>>
    <3>1. excuse[file] # "theirs"
      BY <2>2
    <3>2. /\ files' = [files EXCEPT ![file] = <<content>>]
          /\ excuse' = [excuse EXCEPT ![file] = IF content = SumOf[file] THEN "none" ELSE "replaced"]
      BY <1>1, <1>4, <1>6, <2>2, <3>1 DEF Receive
    <3>3. TypeOK'
      BY <1>1, <1>2, <1>4, <1>6, <3>2 DEF storeVars, IInv, TypeOK, Contents
    <3>4. Listed' /\ Empty' /\ Current'
      <4>1. dst # None
        BY <1>1, <2>2 DEF IInv, Empty, Copying
      <4> QED
        BY <1>1, <1>2, <1>4, <1>6, <3>2, <4>1 DEF Listed, Empty, Current, Contents
    <3>5. Parts'
      BY <1>1, <1>4, <1>6, <3>2 DEF IInv, Parts, Copying, InHand
    <3>6. Foreign'
      BY <1>1, <1>2, <1>4, <1>6, <3>2 DEF IInv, Foreign, Copying
    <3> QED
      BY <3>3, <3>4, <3>5, <3>6 DEF IInv
  <2> QED
    BY <1>3, <2>1, <2>2
<1> QED
  BY <1>5, <1>6 DEF OpenFile, Refused, content

LEMMA CopyRestIInv == ASSUME IInv, CopyRest PROVE IInv'
<1>1. /\ pc = "rest" /\ pc' = "copies" /\ file \in Files /\ file \notin copies
      /\ UNCHANGED <<storeVars, dst, dstMode, copies, file, source, changes>>
  BY DEF CopyRest, IInv, Current
<1>2. files \in [Files -> {None} \cup Seq(Contents)] /\ excuse \in [Files -> {"none", "unlisted", "replaced", "torn", "theirs"}]
  BY DEF IInv, TypeOK
<1>3. CASE excuse[file] = "theirs"
  <2>1. UNCHANGED <<files, excuse>>
    BY <1>3 DEF CopyRest, Receive
  <2> QED
    BY <1>1, <1>3, <2>1 DEF storeVars, IInv, TypeOK, Listed, Empty, Parts, Current, Foreign, Copying, InHand
<1>4. CASE excuse[file] # "theirs"
  <2>1. PICK s : files[file] = <<s>> /\ source = s /\ (excuse[file] = "none" => s = SumOf[file])
    BY <1>1, <1>4 DEF IInv, Current
  <2>2. PICK x \in {source, ErrorText}, why \in {excuse[file], "torn"} :
          /\ files' = [files EXCEPT ![file] = <<s, x>>]
          /\ excuse' = [excuse EXCEPT ![file] = why]
          /\ why = "none" => x = SumOf[file] /\ s = SumOf[file]
    BY <1>1, <1>2, <1>4, <2>1 DEF CopyRest, Receive
  <2>3. excuse[file] \in {"none", "replaced"}
    BY <1>1, <1>4 DEF IInv, Current
  <2>4. source \in Contents
    BY <1>1 DEF IInv, Current
  <2>5. TypeOK'
    BY <1>1, <1>2, <2>1, <2>2, <2>3, <2>4 DEF storeVars, IInv, TypeOK, Contents
  <2>6. dst # None
    BY <1>1, <1>4 DEF IInv, Empty, Copying
  <2>7. Listed' /\ Empty' /\ Current'
    BY <1>1, <2>6 DEF Listed, Empty, Current
  <2>8. Parts'
    BY <1>1, <1>2, <2>2, <2>3 DEF IInv, Parts, Copying, InHand, Whole
  <2>9. Foreign'
    BY <1>1, <1>2, <2>2 DEF IInv, Foreign, Copying
  <2> QED
    BY <2>5, <2>7, <2>8, <2>9 DEF IInv
<1> QED
  BY <1>3, <1>4

LEMMA FailIInv == ASSUME IInv, Fail PROVE IInv'
BY DEF Fail, storeVars, dstVars, IInv, TypeOK, Listed, Empty, Parts, Current, Foreign, Copying, InHand

LEMMA DoneIInv == ASSUME IInv, Done PROVE IInv'
BY DEF Done, storeVars, dstVars, IInv, TypeOK, Listed, Empty, Parts, Current, Foreign, Copying, InHand

\* Steps of others.
LEMMA MakeDstIInv == ASSUME IInv, MakeDst PROVE IInv'
BY ExportAssumption DEF ExportAssumption, MakeDst, Change, storeVars, exportVars, IInv, TypeOK, Listed, Empty,
   Parts, Current, Foreign, Copying, InHand

LEMMA MakeFileIInv == ASSUME IInv, NEW g \in Files, MakeFile(g) PROVE IInv'
<1>1. /\ dst = "dir" /\ files' = [files EXCEPT ![g] = <<Theirs>>]
      /\ excuse' = [f \in Files |-> IF (Copying \/ Ended) /\ f = g THEN "theirs" ELSE excuse[f]]
      /\ changes' \in 0..MaxChanges
      /\ UNCHANGED <<store, contents, dst, pc, dstMode, copies, file, source>>
  BY ExportAssumption DEF ExportAssumption, MakeFile, Change, Excused, storeVars, exportVars, IInv, TypeOK
<1>2. files \in [Files -> {None} \cup Seq(Contents)] /\ DOMAIN excuse = Files
  BY DEF IInv, TypeOK
<1>3. TypeOK'
  BY <1>1, <1>2 DEF IInv, TypeOK, Contents
<1>4. Listed' /\ Empty'
  BY <1>1, ExportAssumption DEF ExportAssumption, IInv, Listed, Empty, Copying, Ended
<1>5. Parts' /\ Foreign'
  BY <1>1, <1>2 DEF IInv, Parts, Foreign, InHand, Copying, Ended
<1>6. Current'
  BY <1>1, <1>2 DEF IInv, Current, Copying
<1> QED
  BY <1>3, <1>4, <1>5, <1>6 DEF IInv

LEMMA RemoveDstIInv == ASSUME IInv, RemoveDst PROVE IInv'
<1>1. /\ dst' = None /\ files' = NoFiles
      /\ excuse' = [f \in Files |-> IF Copying \/ Ended THEN "theirs" ELSE excuse[f]]
      /\ changes' \in 0..MaxChanges
      /\ UNCHANGED <<store, contents, pc, dstMode, copies, file, source>>
  BY ExportAssumption DEF ExportAssumption, RemoveDst, Change, Excused, storeVars, exportVars, IInv, TypeOK
<1>2. TypeOK'
  BY <1>1 DEF IInv, TypeOK, NoFiles
<1>3. Listed' /\ Empty' /\ Foreign'
  BY <1>1 DEF IInv, Listed, Empty, Foreign, Copying, Ended
<1>4. Parts' /\ Current'
  BY <1>1 DEF IInv, Parts, Current, InHand, Copying, Ended
<1> QED
  BY <1>2, <1>3, <1>4 DEF IInv

LEMMA StoreIInv ==
  ASSUME IInv, IndexAll \/ \E r \in Roots, d \in Digests : ChangeContent(r, d) PROVE IInv'
<1>1. /\ UNCHANGED <<dst, files, pc, dstMode, copies, file, source, excuse>>
      /\ store' \in [Roots -> [Digests -> Digests \cup {Other, None}]]
      /\ contents' \in [Digests -> SUBSET Roots]
      /\ changes' \in 0..MaxChanges
  BY ExportAssumption DEF ExportAssumption, IndexAll, ChangeContent, Change, dstVars, exportVars, IInv, TypeOK
<1> QED
  BY <1>1 DEF IInv, TypeOK, Listed, Empty, Parts, Current, Foreign, Copying, InHand

-----------------------------------------------------------------------------
LEMMA NextIInv == IInv /\ [Next]_vars => IInv'
<1> SUFFICES ASSUME IInv, [Next]_vars PROVE IInv'
  OBVIOUS
<1>1. CASE Cancel \/ Stat \/ List \/ Check \/ Again
  BY <1>1, CancelIInv, StatIInv, ListIInv, CheckIInv, AgainIInv
<1>2. CASE Create \/ GetContentPath \/ OpenFile \/ CopyRest \/ Fail \/ Done
  BY <1>2, CreateIInv, GetContentPathIInv, OpenFileIInv, CopyRestIInv, FailIInv, DoneIInv
<1>3. CASE MakeDst \/ (\E f \in Files : MakeFile(f)) \/ RemoveDst
  BY <1>3, MakeDstIInv, MakeFileIInv, RemoveDstIInv
<1>4. CASE IndexAll \/ \E r \in Roots, d \in Digests : ChangeContent(r, d)
  BY <1>4, StoreIInv
<1>5. CASE UNCHANGED vars
  BY <1>5 DEF vars, storeVars, dstVars, exportVars, IInv, TypeOK, Listed, Empty, Parts, Current, Foreign,
              Copying, InHand
<1> QED
  BY <1>1, <1>2, <1>3, <1>4, <1>5 DEF Next

\* The inductive invariant of an export: what each file holds as the copying goes on.
THEOREM ExportInvariant == Spec => []IInv
<1> QED
  BY InitIInv, NextIInv, PTL DEF Spec

\* An export without an error has the content of its digest in each file, but for the
\* causes that are named (download, export.go:174-205; downloadHandler, service.go:150-178).
THEOREM ExportsWhole == Spec => []ExportedWhole
<1>1. IInv => ExportedWhole
  BY DEF IInv, Parts, Current, ExportedWhole, InHand
<1> QED
  BY <1>1, ExportInvariant, PTL

\* No step of the export writes to a file that others had put into the directory before
\* the export looked at it (export.go:86-102).
THEOREM OverwritesNothing == Spec => NothingOverwritten
<1> DEFINE Kept ==
      \A f \in Files : files[f] = <<Theirs>> /\ excuse[f] # "theirs" /\ changes' = changes
        => files'[f] = files[f]
<1>1. IInv /\ [Next]_vars => [Kept]_vars
  <2> SUFFICES ASSUME IInv, Next PROVE Kept
    BY DEF vars
  <2>1. CASE Create
    BY <2>1 DEF Create, IInv, TypeOK, Foreign, Copying, Kept
  <2>2. CASE OpenFile \/ CopyRest
    <3>1. /\ Copying
          /\ \/ UNCHANGED files
             \/ /\ excuse[file] # "theirs"
                /\ \E part : files' = [files EXCEPT ![file] = Append(@, part)]
      BY <2>2 DEF OpenFile, CopyRest, Receive, Refused, Copying
    <3>2. SUFFICES ASSUME NEW f \in Files, files[f] = <<Theirs>>, excuse[f] # "theirs"
                   PROVE  files'[f] = files[f]
      BY DEF Kept
    <3>3. FALSE
      BY <3>1, <3>2 DEF IInv, Foreign
    <3> QED
      BY <3>3
  <2>3. CASE (\E f \in Files : MakeFile(f)) \/ RemoveDst
    <3>1. changes' = changes + 1
      BY <2>3 DEF MakeFile, RemoveDst, Change
    <3>2. changes' # changes
      BY <3>1, ExportAssumption DEF IInv, TypeOK, ExportAssumption
    <3> QED
      BY <3>2 DEF Kept
  <2>4. CASE Cancel \/ Stat \/ List \/ Check \/ Again \/ GetContentPath \/ Fail \/ Done \/ MakeDst \/ IndexAll
    BY <2>4 DEF Cancel, Stat, List, Check, Mkdir, Again, GetContentPath, Refused, Fail, Done, MakeDst, IndexAll, dstVars
  <2>5. CASE \E r \in Roots, d \in Digests : ChangeContent(r, d)
    BY <2>5 DEF ChangeContent, dstVars
  <2> QED
    BY <2>1, <2>2, <2>3, <2>4, <2>5 DEF Next
<1> QED
  BY <1>1, ExportInvariant, PTL DEF Spec, NothingOverwritten
=============================================================================
