--------------------------- MODULE FileStoreProofs ---------------------------
(***************************************************************************)
(* Proofs about FileStore, for any number of workers, users and files and  *)
(* any lengths.  IInv is inductive (one lemma for each action, then        *)
(* Invariance); the safety properties are consequences of it.  What is     *)
(* said of answers that were not seen, and of blobs that are left behind,  *)
(* rests on AnswersInv and LeakInv, which are inductive relative to IInv.  *)
(***************************************************************************)
EXTENDS FileStoreInv, TLAPS

\* Stepping from one stage of a request to another, when nothing else changes,
\* leaves the parts of IInv alone that do not look at the workers.
LEMMA StoreUnchanged ==
  ASSUME IInv, UNCHANGED <<store, history>>
  PROVE  KnownInv' /\ RowInv' /\ LateInv' /\ AckedInv'
<1> USE DEF IInv, losses, store, history
<1>1. KnownInv'
  BY DEF KnownInv, Known, Listed
<1>2. RowInv'
  BY DEF RowInv, Whole
<1>3. LateInv'
  BY DEF LateInv, LateInserts, Known, Listed, Whole
<1>4. AckedInv'
  BY DEF AckedInv, Listed
<1> QED
  BY <1>1, <1>2, <1>3, <1>4

\* A new upload gets an id nobody has used.
LEMMA UploadOpenStep ==
  ASSUME IInv, NEW w \in Workers, NEW u \in Users, UploadOpen(w, u)
  PROVE  IInv'
<1> USE DEF IInv, losses, UploadOpen, Begin, history
<1>1. TypeOK'
  BY LengthAssumption DEF TypeOK, Row, Stages
<1>2. KnownInv'
  BY DEF KnownInv, Known, Listed
<1>3. RowInv'
  BY LengthAssumption DEF RowInv, Whole
<1>4. UploadInv'
  BY LengthAssumption DEF UploadInv, Uploading, Whole, Known, Listed, TypeOK,
    Row, Stages, KnownInv, UploadOK
<1>5. OwnerInv'
  BY DEF OwnerInv, Uploading, LateInserts, TypeOK, UploadInv, LateInv,
    UploadOK
<1>6. LateInv'
  BY DEF LateInv, LateInserts, Known, Listed, Whole
<1>7. AckedInv'
  BY DEF AckedInv, Listed
<1>8. RequestInv'
  BY DEF RequestInv, Downloading, Deleting, Whole, Known, Listed, TypeOK
<1> QED
  BY <1>1, <1>2, <1>3, <1>4, <1>5, <1>6, <1>7, <1>8

\* The copy loop grows a blob that only this upload knows of.
LEMMA UploadChunkStep ==
  ASSUME IInv, NEW w \in Workers, UploadChunk(w)
  PROVE  IInv'
<1> USE DEF IInv, losses, UploadChunk, history
<1>1. TypeOK'
  BY LengthAssumption DEF TypeOK, Row, Stages
<1>2. KnownInv'
  BY DEF KnownInv, Known, Listed, UploadInv, UploadOK, Uploading, TypeOK
<1>3. RowInv'
  BY LengthAssumption DEF RowInv, Whole, UploadInv, Known, Listed, TypeOK,
    UploadOK
<1>4. UploadInv'
  <2>1. file[w] \in Row /\ file'[w] = [file[w] EXCEPT !.size = @ + 1]
    BY DEF TypeOK
  <2>2. UNCHANGED <<Listed, Known>>
    BY DEF Listed, Known, history
  <2>3. SUFFICES ASSUME NEW v \in Workers PROVE UploadOK(v)'
    BY DEF UploadInv
  <2>4. UploadOK(v) BY DEF UploadInv
  <2>5. CASE v # w
    <3>1. pc[v] \in Uploading => file[v].id # file[w].id
      BY <2>5 DEF OwnerInv, Uploading
    <3> QED BY <2>2, <2>4, <2>5, <3>1 DEF UploadOK, Whole, TypeOK, Uploading, history
  <2>6. CASE v = w
    <3>1. /\ file'[w].id = file[w].id
          /\ file'[w].size = file[w].size + 1
          /\ written'[file[w].id] = written[file[w].id] + 1
      BY <2>1 DEF TypeOK, Row
    <3>2. file'[w].size <= Length[file[w].id]
      <4>1. written[file[w].id] = file[w].size
        BY <2>4, <2>6 DEF UploadOK
      <4>2. file[w].size \in Nat /\ Length[file[w].id] \in Nat
        BY <2>1, LengthAssumption DEF Row
      <4> QED
        BY <3>1, <4>1, <4>2
    <3> QED
      BY <2>2, <2>4, <2>6, <3>1, <3>2 DEF UploadOK, history
  <2> QED BY <2>5, <2>6
<1>5. OwnerInv'
  BY DEF OwnerInv, Uploading, LateInserts, TypeOK, Row
<1>6. LateInv'
  BY DEF LateInv, LateInserts, Known, Listed, Whole, UploadInv, OwnerInv,
    TypeOK, UploadOK
<1>7. AckedInv'
  BY DEF AckedInv, Listed
<1>8. RequestInv'
  BY DEF RequestInv, Downloading, Deleting, Whole, Known, Listed, TypeOK,
    UploadInv, KnownInv, Row, UploadOK
<1> QED
  BY <1>1, <1>2, <1>3, <1>4, <1>5, <1>6, <1>7, <1>8

\* A cut-off upload turns to its clean-up.
LEMMA UploadFailsStep ==
  ASSUME IInv, NEW w \in Workers, UploadFails(w)
  PROVE  IInv'
<1> USE DEF IInv, losses, UploadFails, Goto, history, store
<1>1. KnownInv' /\ RowInv' /\ LateInv' /\ AckedInv'
  BY StoreUnchanged
<1>2. TypeOK'
  BY DEF TypeOK, Row, Stages
<1>3. UploadInv'
  BY DEF UploadInv, Uploading, Whole, Known, Listed, TypeOK, UploadOK
<1>4. OwnerInv'
  BY DEF OwnerInv, Uploading, LateInserts, TypeOK
<1>5. RequestInv'
  BY DEF RequestInv, Downloading, Deleting, Whole, Known, Listed, TypeOK
<1> QED
  BY <1>1, <1>2, <1>3, <1>4, <1>5

\* The INSERT is sent when the blob is whole.
LEMMA UploadCloseStep ==
  ASSUME IInv, NEW w \in Workers, UploadClose(w)
  PROVE  IInv'
<1> USE DEF IInv, losses, UploadClose, Goto, history, store
<1>1. KnownInv' /\ RowInv' /\ LateInv' /\ AckedInv'
  BY StoreUnchanged
<1>2. TypeOK'
  BY DEF TypeOK, Row, Stages
<1>3. UploadInv'
  BY DEF UploadInv, Uploading, Whole, Known, Listed, TypeOK, UploadOK
<1>4. OwnerInv'
  BY DEF OwnerInv, Uploading, LateInserts, TypeOK
<1>5. RequestInv'
  BY DEF RequestInv, Downloading, Deleting, Whole, Known, Listed, TypeOK
<1> QED
  BY <1>1, <1>2, <1>3, <1>4, <1>5

\* The INSERT of a waiting upload commits.
LEMMA DbInsertStep ==
  ASSUME IInv, NEW w \in Workers, DbInsert(w)
  PROVE  IInv'
<1> USE DEF IInv, losses, DbInsert, Goto, history
<1>1. TypeOK'
  BY DEF TypeOK, Row, Stages
<1>2. KnownInv'
  BY DEF KnownInv, Known, Listed, UploadInv, Uploading, UploadOK
<1>3. RowInv'
  BY DEF RowInv, Whole, UploadInv, Listed, UploadOK
<1>4. UploadInv'
  BY DEF UploadInv, Uploading, Whole, Known, Listed, TypeOK, OwnerInv,
    UploadOK
<1>5. OwnerInv'
  BY DEF OwnerInv, Uploading, LateInserts, TypeOK
<1>6. LateInv'
  BY DEF LateInv, LateInserts, Known, Listed, Whole, OwnerInv
<1>7. AckedInv'
  BY DEF AckedInv, Listed, UploadInv, UploadOK
<1>8. RequestInv'
  BY DEF RequestInv, Downloading, Deleting, Whole, Known, Listed, TypeOK
<1> QED
  BY <1>1, <1>2, <1>3, <1>4, <1>5, <1>6, <1>7, <1>8

\* 201 is answered for an id that is Known.
LEMMA UploadStoredStep ==
  ASSUME IInv, NEW w \in Workers, UploadStored(w)
  PROVE  IInv'
<1> USE DEF IInv, losses, UploadStored, Finish, store
<1>1. TypeOK'
  BY DEF TypeOK, Row, Stages
<1>2. KnownInv'
  BY DEF KnownInv, Known, Listed, UploadInv, UploadOK
<1>3. RowInv'
  BY DEF RowInv, Whole
<1>4. UploadInv'
  BY DEF UploadInv, Uploading, Whole, Known, Listed, TypeOK, OwnerInv,
    UploadOK
<1>5. OwnerInv'
  BY DEF OwnerInv, Uploading, LateInserts, TypeOK
<1>6. LateInv'
  BY DEF LateInv, LateInserts, Known, Listed, Whole
<1>7. AckedInv'
  BY DEF AckedInv, Listed, UploadInv, UploadOK
<1>8. RequestInv'
  BY DEF RequestInv, Downloading, Deleting, Whole, Known, Listed, TypeOK
<1> QED
  BY <1>1, <1>2, <1>3, <1>4, <1>5, <1>6, <1>7, <1>8

\* The clean-up unlinks the blob of an upload that was not answered 201.
LEMMA UploadCleanupStep ==
  ASSUME IInv, NEW w \in Workers, UploadCleanup(w)
  PROVE  IInv'
<1> USE DEF IInv, losses, UploadCleanup, Finish, Unlink, history
<1>1. TypeOK'
  BY DEF TypeOK, Row, Stages
<1>2. KnownInv'
  BY DEF KnownInv, Known, Listed
<1>3. RowInv'
  BY DEF RowInv, Whole
<1>4. UploadInv'
  BY DEF UploadInv, Uploading, Whole, Known, Listed, TypeOK, OwnerInv,
    UploadOK
<1>5. OwnerInv'
  BY DEF OwnerInv, Uploading, LateInserts, TypeOK
<1>6. LateInv'
  BY DEF LateInv, LateInserts, Known, Listed, Whole
<1>7. AckedInv'
  BY DEF AckedInv, Listed, UploadInv, Uploading, UploadOK
<1>8. RequestInv'
  BY DEF RequestInv, Downloading, Deleting, Whole, Known, Listed, TypeOK
<1> QED
  BY <1>1, <1>2, <1>3, <1>4, <1>5, <1>6, <1>7, <1>8

\* A delete begins on a row of the table.
LEMMA DeleteLookupStep ==
  ASSUME IInv, NEW w \in Workers, NEW u \in Users, DeleteLookup(w, u)
  PROVE  IInv'
<1> USE DEF IInv, losses, DeleteLookup, Begin, OwnedBy, store
<1>1. TypeOK'
  BY DEF TypeOK, Row, Stages
<1>2. KnownInv'
  BY DEF KnownInv, Known, Listed
<1>3. RowInv'
  BY DEF RowInv, Whole
<1>4. UploadInv'
  BY DEF UploadInv, Uploading, Whole, Known, Listed, TypeOK, UploadOK
<1>5. OwnerInv'
  BY DEF OwnerInv, Uploading, LateInserts, TypeOK
<1>6. LateInv'
  BY DEF LateInv, LateInserts, Known, Listed, Whole
<1>7. AckedInv'
  BY DEF AckedInv, Listed
<1>8. RequestInv'
  BY DEF RequestInv, Downloading, Deleting, Whole, Known, Listed, TypeOK,
    KnownInv, RowInv
<1> QED
  BY <1>1, <1>2, <1>3, <1>4, <1>5, <1>6, <1>7, <1>8

\* The DELETE takes the only row with its id.
LEMMA DbDeleteStep ==
  ASSUME IInv, NEW w \in Workers, DbDelete(w)
  PROVE  IInv'
<1> USE DEF IInv, losses, DbDelete, Goto, Matching
<1>1. TypeOK'
  BY DEF TypeOK, Row, Stages
<1>2. KnownInv'
  BY DEF KnownInv, Known, Listed, RequestInv, Deleting, RowInv
<1>3. RowInv'
  BY DEF RowInv, Whole
<1>4. UploadInv'
  BY DEF UploadInv, Uploading, Whole, Known, Listed, TypeOK, RequestInv,
    UploadOK
<1>5. OwnerInv'
  BY DEF OwnerInv, Uploading, LateInserts, TypeOK
<1>6. LateInv'
  BY DEF LateInv, LateInserts, Known, Listed, Whole
<1>7. AckedInv'
  BY DEF AckedInv, Listed
<1>8. RequestInv'
  BY DEF RequestInv, Downloading, Deleting, Whole, Known, Listed, TypeOK,
    KnownInv
<1> QED
  BY <1>1, <1>2, <1>3, <1>4, <1>5, <1>6, <1>7, <1>8

\* A DELETE that matches nothing ends its request.
LEMMA DbDeleteNoRowsStep ==
  ASSUME IInv, NEW w \in Workers, DbDeleteNoRows(w)
  PROVE  IInv'
<1> USE DEF IInv, losses, DbDeleteNoRows, Finish, Matching, history, store
<1>1. KnownInv' /\ RowInv' /\ LateInv' /\ AckedInv'
  BY StoreUnchanged
<1>2. TypeOK'
  BY DEF TypeOK, Row, Stages
<1>3. UploadInv'
  BY DEF UploadInv, Uploading, Whole, Known, Listed, TypeOK, UploadOK
<1>4. OwnerInv'
  BY DEF OwnerInv, Uploading, LateInserts, TypeOK
<1>5. RequestInv'
  BY DEF RequestInv, Downloading, Deleting, Whole, Known, Listed, TypeOK
<1> QED
  BY <1>1, <1>2, <1>3, <1>4, <1>5

\* The blob of an erased row is unlinked.
LEMMA DeleteUnlinkStep ==
  ASSUME IInv, NEW w \in Workers, DeleteUnlink(w)
  PROVE  IInv'
<1> USE DEF IInv, losses, DeleteUnlink, Finish, Unlink, history
<1>1. TypeOK'
  BY DEF TypeOK, Row, Stages
<1>2. KnownInv'
  BY DEF KnownInv, Known, Listed
<1>3. RowInv'
  BY DEF RowInv, Whole
<1>4. UploadInv'
  BY DEF UploadInv, Uploading, Whole, Known, Listed, TypeOK, RequestInv,
    KnownInv, UploadOK
<1>5. OwnerInv'
  BY DEF OwnerInv, Uploading, LateInserts, TypeOK
<1>6. LateInv'
  BY DEF LateInv, LateInserts, Known, Listed, Whole
<1>7. AckedInv'
  BY DEF AckedInv, Listed, RequestInv, KnownInv
<1>8. RequestInv'
  BY DEF RequestInv, Downloading, Deleting, Whole, Known, Listed, TypeOK
<1> QED
  BY <1>1, <1>2, <1>3, <1>4, <1>5, <1>6, <1>7, <1>8

\* A download begins on a row of the table.
LEMMA DownloadLookupStep ==
  ASSUME IInv, NEW w \in Workers, NEW u \in Users, DownloadLookup(w, u)
  PROVE  IInv'
<1> USE DEF IInv, losses, DownloadLookup, Begin, OwnedBy, history, store
<1>1. KnownInv' /\ RowInv' /\ LateInv' /\ AckedInv'
  BY StoreUnchanged
<1>2. TypeOK'
  BY DEF TypeOK, Row, Stages
<1>3. UploadInv'
  BY DEF UploadInv, Uploading, Whole, Known, Listed, TypeOK, UploadOK
<1>4. OwnerInv'
  BY DEF OwnerInv, Uploading, LateInserts, TypeOK
<1>5. RequestInv'
  BY DEF RequestInv, Downloading, Deleting, Whole, Known, Listed, TypeOK,
    RowInv
<1> QED
  BY <1>1, <1>2, <1>3, <1>4, <1>5

\* A download opens its blob.
LEMMA DownloadOpenStep ==
  ASSUME IInv, NEW w \in Workers, DownloadOpen(w)
  PROVE  IInv'
<1> USE DEF IInv, losses, DownloadOpen, Goto, history, store
<1>1. KnownInv' /\ RowInv' /\ LateInv' /\ AckedInv'
  BY StoreUnchanged
<1>2. TypeOK'
  BY DEF TypeOK, Row, Stages
<1>3. UploadInv'
  BY DEF UploadInv, Uploading, Whole, Known, Listed, TypeOK, UploadOK
<1>4. OwnerInv'
  BY DEF OwnerInv, Uploading, LateInserts, TypeOK
<1>5. RequestInv'
  BY DEF RequestInv, Downloading, Deleting, Whole, Known, Listed, TypeOK
<1> QED
  BY <1>1, <1>2, <1>3, <1>4, <1>5

\* A download that cannot open its blob ends.
LEMMA DownloadOpenFailsStep ==
  ASSUME IInv, NEW w \in Workers, DownloadOpenFails(w)
  PROVE  IInv'
<1> USE DEF IInv, losses, DownloadOpenFails, Finish, history, store
<1>1. KnownInv' /\ RowInv' /\ LateInv' /\ AckedInv'
  BY StoreUnchanged
<1>2. TypeOK'
  BY DEF TypeOK, Row, Stages
<1>3. UploadInv'
  BY DEF UploadInv, Uploading, Whole, Known, Listed, TypeOK, UploadOK
<1>4. OwnerInv'
  BY DEF OwnerInv, Uploading, LateInserts, TypeOK
<1>5. RequestInv'
  BY DEF RequestInv, Downloading, Deleting, Whole, Known, Listed, TypeOK
<1> QED
  BY <1>1, <1>2, <1>3, <1>4, <1>5

\* A download sends a chunk.
LEMMA DownloadChunkStep ==
  ASSUME IInv, NEW w \in Workers, DownloadChunk(w)
  PROVE  IInv'
<1> USE DEF IInv, losses, DownloadChunk, history, store
<1>1. KnownInv' /\ RowInv' /\ LateInv' /\ AckedInv'
  BY StoreUnchanged
<1>2. TypeOK'
  BY DEF TypeOK, Row, Stages
<1>3. UploadInv'
  BY DEF UploadInv, Uploading, Whole, Known, Listed, TypeOK, UploadOK
<1>4. OwnerInv'
  BY DEF OwnerInv, Uploading, LateInserts, TypeOK
<1>5. RequestInv'
  BY DEF RequestInv, Downloading, Deleting, Whole, Known, Listed, TypeOK
<1> QED
  BY <1>1, <1>2, <1>3, <1>4, <1>5

\* A download ends.
LEMMA DownloadEndStep ==
  ASSUME IInv, NEW w \in Workers, DownloadEnd(w)
  PROVE  IInv'
<1> USE DEF IInv, losses, DownloadEnd, Finish, history, store
<1>1. KnownInv' /\ RowInv' /\ LateInv' /\ AckedInv'
  BY StoreUnchanged
<1>2. TypeOK'
  BY DEF TypeOK, Row, Stages
<1>3. UploadInv'
  BY DEF UploadInv, Uploading, Whole, Known, Listed, TypeOK, UploadOK
<1>4. OwnerInv'
  BY DEF OwnerInv, Uploading, LateInserts, TypeOK
<1>5. RequestInv'
  BY DEF RequestInv, Downloading, Deleting, Whole, Known, Listed, TypeOK
<1> QED
  BY <1>1, <1>2, <1>3, <1>4, <1>5

\* A statement fails without an effect.
LEMMA DbRefusesStep ==
  ASSUME IInv, NEW w \in Workers, DbRefuses(w)
  PROVE  IInv'
<1> USE DEF IInv, losses, DbRefuses, Goto, Finish, history, store
<1>1. KnownInv' /\ RowInv' /\ LateInv' /\ AckedInv'
  BY StoreUnchanged
<1>2. TypeOK'
  BY DEF TypeOK, Row, Stages
<1>3. UploadInv'
  BY DEF UploadInv, Uploading, Whole, Known, Listed, TypeOK, UploadOK
<1>4. OwnerInv'
  BY DEF OwnerInv, Uploading, LateInserts, TypeOK
<1>5. RequestInv'
  BY DEF RequestInv, Downloading, Deleting, Whole, Known, Listed, TypeOK
<1> QED
  BY <1>1, <1>2, <1>3, <1>4, <1>5

\* A request gives up on a statement, which becomes late.
LEMMA DeadlineStep ==
  ASSUME IInv, NEW w \in Workers, Deadline(w)
  PROVE  IInv'
<1> USE DEF IInv, losses, Deadline, Goto, Finish, StatementOf, history
<1>1. TypeOK'
  <2>1. file[w] \in Row /\ caller[w] \in Users
    BY DEF TypeOK, Deleting
  <2>2. unseen' \subseteq FileIds /\ stray' \subseteq FileIds
    BY <2>1 DEF TypeOK, Row
  <2> QED
    BY <2>1, <2>2 DEF TypeOK, Row, Stages, Statement
<1>2. KnownInv'
  BY DEF KnownInv, Known, Listed
<1>3. RowInv'
  BY DEF RowInv, Whole
<1>4. UploadInv'
  BY DEF UploadInv, Uploading, Whole, Known, Listed, TypeOK, UploadOK
<1>5. OwnerInv'
  BY DEF OwnerInv, Uploading, LateInserts, TypeOK, UploadInv, UploadOK
<1>6. LateInv'
  BY DEF LateInv, LateInserts, Known, Listed, Whole, UploadInv, RequestInv,
    Deleting, Uploading, UploadOK
<1>7. AckedInv'
  BY DEF AckedInv, Listed
<1>8. RequestInv'
  BY DEF RequestInv, Downloading, Deleting, Whole, Known, Listed, TypeOK
<1> QED
  BY <1>1, <1>2, <1>3, <1>4, <1>5, <1>6, <1>7, <1>8

\* A late INSERT commits: its id was not Known before.
LEMMA LateInsertStep ==
  ASSUME IInv, NEW s \in late, LateInsert(s)
  PROVE  IInv'
<1> USE DEF IInv, losses, LateInsert, local, history
<1>1. TypeOK'
  BY DEF TypeOK, Row, Stages, Statement
<1>2. KnownInv'
  BY DEF KnownInv, Known, Listed, LateInv, LateInserts
<1>3. RowInv'
  BY DEF RowInv, Whole, LateInv, LateInserts, Listed
<1>4. UploadInv'
  BY DEF UploadInv, Uploading, Whole, Known, Listed, TypeOK, OwnerInv,
    LateInserts, LateInv, UploadOK
<1>5. OwnerInv'
  BY DEF OwnerInv, Uploading, LateInserts, TypeOK
<1>6. LateInv'
  BY DEF LateInv, LateInserts, Known, Listed, Whole, OwnerInv
<1>7. AckedInv'
  BY DEF AckedInv, Listed, LateInv, LateInserts, KnownInv, Known
<1>8. RequestInv'
  BY DEF RequestInv, Downloading, Deleting, Whole, Known, Listed, TypeOK
<1> QED
  BY <1>1, <1>2, <1>3, <1>4, <1>5, <1>6, <1>7, <1>8

\* A late DELETE takes a row whose owner has asked for it.
LEMMA LateDeleteStep ==
  ASSUME IInv, NEW s \in late, LateDelete(s)
  PROVE  IInv'
<1> USE DEF IInv, losses, LateDelete, Matching, local
<1>1. TypeOK'
  BY DEF TypeOK, Row, Stages, Statement
<1>2. KnownInv'
  BY DEF KnownInv, Known, Listed, LateInv, LateInserts, RowInv
<1>3. RowInv'
  BY DEF RowInv, Whole
<1>4. UploadInv'
  BY DEF UploadInv, Uploading, Whole, Known, Listed, TypeOK, UploadOK
<1>5. OwnerInv'
  BY DEF OwnerInv, Uploading, LateInserts, TypeOK
<1>6. LateInv'
  BY DEF LateInv, LateInserts, Known, Listed, Whole
<1>7. AckedInv'
  BY DEF AckedInv, Listed
<1>8. RequestInv'
  BY DEF RequestInv, Downloading, Deleting, Whole, Known, Listed, TypeOK
<1> QED
  BY <1>1, <1>2, <1>3, <1>4, <1>5, <1>6, <1>7, <1>8

\* A late statement comes to nothing.
LEMMA LateDropStep ==
  ASSUME IInv, NEW s \in late, LateDrop(s)
  PROVE  IInv'
<1> USE DEF IInv, losses, LateDrop, local, history
<1>1. TypeOK'
  BY DEF TypeOK, Row, Stages
<1>2. KnownInv'
  BY DEF KnownInv, Known, Listed
<1>3. RowInv'
  BY DEF RowInv, Whole
<1>4. UploadInv'
  BY DEF UploadInv, Uploading, Whole, Known, Listed, TypeOK, UploadOK
<1>5. OwnerInv'
  BY DEF OwnerInv, Uploading, LateInserts, TypeOK
<1>6. LateInv'
  BY DEF LateInv, LateInserts, Known, Listed, Whole
<1>7. AckedInv'
  BY DEF AckedInv, Listed
<1>8. RequestInv'
  BY DEF RequestInv, Downloading, Deleting, Whole, Known, Listed, TypeOK
<1> QED
  BY <1>1, <1>2, <1>3, <1>4, <1>5, <1>6, <1>7, <1>8

\* All requests die; their statements become late.
LEMMA CrashStep ==
  ASSUME IInv, Crash
  PROVE  IInv'
<1> USE DEF IInv, losses, Crash, StatementOf, history
<1>1. TypeOK'
  <2>1. \A w \in Workers : pc[w] \in Owning \cup {"deleting"} => file[w].id \in FileIds
    BY DEF TypeOK, Row, Owning
  <2>2. stray' \subseteq FileIds
    BY <2>1 DEF TypeOK
  <2> QED
    BY <2>2 DEF TypeOK, Row, Stages, Statement
<1>2. KnownInv'
  BY DEF KnownInv, Known, Listed
<1>3. RowInv'
  BY DEF RowInv, Whole
<1>4. UploadInv'
  BY DEF UploadInv, Uploading, Whole, Known, Listed, TypeOK, UploadOK
<1>5. OwnerInv'
  BY DEF OwnerInv, Uploading, LateInserts, TypeOK
<1>6. LateInv'
  BY DEF LateInv, LateInserts, Known, Listed, Whole, UploadInv, RequestInv,
    Deleting, Uploading, UploadOK
<1>7. AckedInv'
  BY DEF AckedInv, Listed
<1>8. RequestInv'
  BY DEF RequestInv, Downloading, Deleting, Whole, Known, Listed, TypeOK
<1> QED
  BY <1>1, <1>2, <1>3, <1>4, <1>5, <1>6, <1>7, <1>8
\* A step that changes nothing.
LEMMA StutterStep ==
  ASSUME IInv, UNCHANGED vars
  PROVE  IInv'
<1> USE DEF IInv, losses, vars, store, history
<1>1. KnownInv' /\ RowInv' /\ LateInv' /\ AckedInv'
  BY StoreUnchanged
<1>2. TypeOK'
  BY DEF TypeOK
<1>3. UploadInv'
  BY DEF UploadInv, UploadOK, Whole, Known, Listed
<1>4. OwnerInv'
  BY DEF OwnerInv, LateInserts
<1>5. RequestInv'
  BY DEF RequestInv, Whole, Known, Listed
<1> QED
  BY <1>1, <1>2, <1>3, <1>4, <1>5

\* IInv holds before anything has happened.
LEMMA InitInv == Init => IInv
<1> SUFFICES ASSUME Init PROVE IInv
  OBVIOUS
<1> USE DEF Init
<1>1. TypeOK
  BY DEF TypeOK, Stages
<1>2. KnownInv /\ RowInv /\ LateInv /\ AckedInv
  BY DEF KnownInv, Known, Listed, RowInv, LateInv, LateInserts, AckedInv
<1>3. UploadInv /\ OwnerInv /\ RequestInv
  BY DEF UploadInv, UploadOK, OwnerInv, LateInserts, RequestInv, Uploading, Deleting, Downloading
<1> QED
  BY <1>1, <1>2, <1>3 DEF IInv

\* Every step keeps IInv.
LEMMA NextInv == IInv /\ [Next]_vars => IInv'
<1> SUFFICES ASSUME IInv, [Next]_vars PROVE IInv'
  OBVIOUS
<1>1. ASSUME NEW w \in Workers, NEW u \in Users, Request(w, u) PROVE IInv'
  BY <1>1, UploadOpenStep, DeleteLookupStep, DownloadLookupStep DEF Request
<1>2. ASSUME NEW w \in Workers, Proceed(w) PROVE IInv'
  BY <1>2, UploadChunkStep, UploadCloseStep, UploadStoredStep, UploadCleanupStep,
     DeleteUnlinkStep DEF Proceed
<1>3. ASSUME NEW w \in Workers, Database(w) PROVE IInv'
  BY <1>3, DbInsertStep, DbDeleteStep, DbDeleteNoRowsStep DEF Database
<1>4. ASSUME NEW w \in Workers, Download(w) PROVE IInv'
  BY <1>4, DownloadOpenStep, DownloadOpenFailsStep, DownloadChunkStep, DownloadEndStep
     DEF Download
<1>5. ASSUME NEW w \in Workers, Fault(w) PROVE IInv'
  BY <1>5, UploadFailsStep, DbRefusesStep, DeadlineStep DEF Fault
<1>6. ASSUME NEW s \in late, LateStatement(s) PROVE IInv'
  BY <1>6, LateInsertStep, LateDeleteStep, LateDropStep DEF LateStatement
<1> QED
  BY <1>1, <1>2, <1>3, <1>4, <1>5, <1>6, CrashStep, StutterStep DEF Next

\* The inductive invariant holds in every state the service reaches.
THEOREM Invariance == Spec => []IInv
  BY InitInv, NextInv, PTL DEF Spec

\* Type correctness.
THEOREM TypeCorrect == Spec => []TypeOK
<1>1. IInv => TypeOK
  BY DEF IInv
<1> QED
  BY <1>1, Invariance, PTL

\* A file that was answered 201 and not deleted by its owner stays in the table
\* with its whole blob, whatever fails (service.go, Upload and Delete).
THEOREM AckedFilesAreKept == Spec => []AckedKept
<1>1. IInv => AckedKept
  <2> SUFFICES ASSUME IInv, NEW id \in acked \ doomed
               PROVE  Servable(id) /\ \E r \in files : r.id = id /\ r.size = Length[id]
    BY DEF AckedKept
  <2>1. id \in Listed
    BY DEF IInv, KnownInv, Known
  <2>2. id \in dir
    BY <2>1 DEF IInv, AckedInv
  <2>3. PICK r \in files : r.id = id
    BY <2>1 DEF Listed
  <2> QED
    BY <2>2, <2>3 DEF IInv, RowInv, Whole, Servable
<1> QED
  BY <1>1, Invariance, PTL

\* A row describes the plaintext in full, and so does its blob (the copy loop of
\* Upload runs to the end before CreateFile).
THEOREM RowsStayWhole == Spec => []RowsAreWhole
<1>1. IInv => RowsAreWhole
  BY DEF IInv, RowInv, Whole, RowsAreWhole
<1> QED
  BY <1>1, Invariance, PTL

\* A download that has opened its blob reads all that Content-Length promised,
\* whatever is deleted meanwhile (handler.go, serveDecrypted).
THEOREM ReadsAreNotShort == Spec => []NoShortRead
<1>1. IInv => NoShortRead
  BY DEF IInv, RequestInv, Whole, NoShortRead, Downloading
<1> QED
  BY <1>1, Invariance, PTL

\* One of the concurrent deletes of a file answers 204, after the row is gone
\* (repository.go, DeleteFile).
THEOREM DeletesAreExclusive == Spec => []OneDeleter
<1>1. IInv => OneDeleter
  BY DEF IInv, RequestInv, KnownInv, OneDeleter
<1> QED
  BY <1>1, Invariance, PTL
-----------------------------------------------------------------------------
(***************************************************************************)
(* The answers of the database that were not seen.                         *)
(***************************************************************************)

\* Steps that touch neither the table, the blobs nor the late statements, and
\* send no request to its clean-up.
LEMMA AnswersUndisturbed ==
  ASSUME IInv, AnswersInv, UNCHANGED <<store, erased, unseen>>,
         \A w \in Workers : pc'[w] = "cleanup" => pc[w] = "cleanup" /\ file'[w] = file[w]
  PROVE  AnswersInv'
  BY DEF AnswersInv, Listed, Known, LateInserts, store

\* Every step keeps AnswersInv.
LEMMA NextAnswers ==
  ASSUME IInv, AnswersInv, [Next]_vars
  PROVE  AnswersInv'
<1> USE DEF IInv, losses
<1>1. ASSUME NEW w \in Workers, NEW u \in Users, Request(w, u) PROVE AnswersInv'
  <2>1. CASE UploadOpen(w, u)
    BY <2>1 DEF UploadOpen, Begin, history, TypeOK, KnownInv, LateInv, UploadInv, UploadOK,
                AnswersInv, Listed, Known, LateInserts
  <2>2. CASE DeleteLookup(w, u)
    BY <2>2, AnswersUndisturbed DEF DeleteLookup, Begin, TypeOK
  <2>3. CASE DownloadLookup(w, u)
    BY <2>3, AnswersUndisturbed DEF DownloadLookup, Begin, TypeOK, history
  <2> QED
    BY <1>1, <2>1, <2>2, <2>3 DEF Request
<1>2. ASSUME NEW w \in Workers, Proceed(w) PROVE AnswersInv'
  <2>1. CASE UploadChunk(w)
    BY <2>1 DEF UploadChunk, history, TypeOK, AnswersInv, Listed, Known, LateInserts
  <2>2. CASE UploadClose(w)
    BY <2>2, AnswersUndisturbed DEF UploadClose, Goto, TypeOK, history
  <2>3. CASE UploadStored(w)
    BY <2>3, AnswersUndisturbed DEF UploadStored, Finish, TypeOK
  <2>4. CASE UploadCleanup(w)
    BY <2>4 DEF UploadCleanup, Finish, Unlink, history, TypeOK, AnswersInv, Listed, Known,
                LateInserts
  <2>5. CASE DeleteUnlink(w)
    BY <2>5 DEF DeleteUnlink, Finish, Unlink, history, TypeOK, KnownInv, LateInv, RequestInv,
                AnswersInv, Listed, Known, LateInserts
  <2> QED
    BY <1>2, <2>1, <2>2, <2>3, <2>4, <2>5 DEF Proceed
<1>3. ASSUME NEW w \in Workers, Database(w) PROVE AnswersInv'
  <2>1. CASE DbInsert(w)
    <3>1. file[w].id \in dir
      BY <2>1 DEF DbInsert, UploadInv, UploadOK
    <3>2. \A v \in Workers : pc[v] = "cleanup" => file[v].id # file[w].id
      BY <2>1 DEF DbInsert, OwnerInv, Uploading
    <3> QED
      BY <2>1, <3>1, <3>2 DEF DbInsert, Goto, history, TypeOK, AnswersInv, Listed, Known,
                              LateInserts
  <2>2. CASE DbDelete(w)
    BY <2>2 DEF DbDelete, Matching, Goto, TypeOK, KnownInv, RequestInv, LateInv, Deleting,
                AnswersInv, Listed, Known, LateInserts
  <2>3. CASE DbDeleteNoRows(w)
    BY <2>3, AnswersUndisturbed DEF DbDeleteNoRows, Finish, TypeOK, history
  <2> QED
    BY <1>3, <2>1, <2>2, <2>3 DEF Database
<1>4. ASSUME NEW w \in Workers, Download(w) PROVE AnswersInv'
  <2>1. UNCHANGED <<store, history, losses>>
    BY <1>4 DEF Download, DownloadOpen, DownloadOpenFails, DownloadChunk, DownloadEnd
  <2>2. \A v \in Workers : pc'[v] = "cleanup" => pc[v] = "cleanup" /\ file'[v] = file[v]
    BY <1>4 DEF Download, DownloadOpen, DownloadOpenFails, DownloadChunk, DownloadEnd,
                Goto, Finish, TypeOK
  <2> QED
    BY <2>1, <2>2, AnswersUndisturbed DEF history
<1>5. ASSUME NEW w \in Workers, Fault(w) PROVE AnswersInv'
  <2>1. CASE UploadFails(w) \/ DbRefuses(w)
    <3>1. /\ UNCHANGED <<store, history, losses>>
          /\ \A v \in Workers : pc'[v] = "cleanup" /\ pc[v] # "cleanup" =>
               v = w /\ pc[w] \in {"copy", "inserting"}
          /\ \A v \in Workers : pc'[v] = "cleanup" => file'[v] = file[v]
      BY <2>1 DEF UploadFails, DbRefuses, Goto, Finish, TypeOK
    <3>2. pc[w] \in {"copy", "inserting"} =>
            file[w].id \notin Known /\ \A s \in LateInserts : s.row.id # file[w].id
      BY DEF UploadInv, UploadOK, OwnerInv
    <3> QED
      BY <3>1, <3>2 DEF AnswersInv, Listed, Known, LateInserts, store, history
  <2>2. CASE Deadline(w)
    <3>1. /\ UNCHANGED <<files, dir, erased>>
          /\ unseen \subseteq unseen'
          /\ \A s \in LateInserts' \ LateInserts : s.row.id \in unseen'
          /\ LateInserts' \subseteq LateInserts \cup {StatementOf(w)}
      BY <2>2 DEF Deadline, StatementOf, LateInserts, history, Deleting
    <3>2. \A v \in Workers : pc'[v] = "cleanup" /\ file'[v].id \notin unseen' =>
            v # w /\ pc[v] = "cleanup" /\ file'[v] = file[v]
      BY <2>2 DEF Deadline, Goto, Finish, TypeOK, Deleting
    <3>3. \A v \in Workers : v # w /\ pc[v] = "cleanup" /\ pc[w] = "inserting" =>
            file[v].id # file[w].id
      BY DEF OwnerInv, Uploading
    <3>4. StatementOf(w) \in LateInserts' \ LateInserts =>
            pc[w] = "inserting" /\ StatementOf(w).row = file[w]
      BY <2>2 DEF Deadline, StatementOf, LateInserts
    <3> QED
      BY <3>1, <3>2, <3>3, <3>4 DEF AnswersInv, Listed, Known
  <2> QED
    BY <1>5, <2>1, <2>2 DEF Fault
<1>6. ASSUME NEW s \in late, LateStatement(s) PROVE AnswersInv'
  <2>1. CASE LateInsert(s)
    BY <2>1 DEF LateInsert, local, history, OwnerInv, AnswersInv, Listed, Known, LateInserts
  <2>2. CASE LateDelete(s)
    BY <2>2 DEF LateDelete, Matching, local, LateInv, KnownInv, AnswersInv, Listed, Known,
                LateInserts
  <2>3. CASE LateDrop(s)
    BY <2>3 DEF LateDrop, local, history, AnswersInv, Listed, Known, LateInserts
  <2> QED
    BY <1>6, <2>1, <2>2, <2>3 DEF LateStatement
<1>7. CASE Crash
  BY <1>7 DEF Crash, StatementOf, history, TypeOK, UploadInv, UploadOK, AnswersInv, Listed,
              Known, LateInserts
<1>8. CASE UNCHANGED vars
  BY <1>8, AnswersUndisturbed DEF vars, store
<1> QED
  BY <1>1, <1>2, <1>3, <1>4, <1>5, <1>6, <1>7, <1>8 DEF Next

\* AnswersInv holds in every state the service reaches.
LEMMA AnswersInvariance == Spec => []AnswersInv
<1>1. Init => AnswersInv
  BY DEF Init, AnswersInv, Listed, LateInserts
<1>2. IInv /\ AnswersInv /\ [Next]_vars => AnswersInv'
  BY NextAnswers
<1> QED
  BY <1>1, <1>2, Invariance, PTL DEF Spec

\* A listed file that cannot be downloaded is one whose upload gave up on its
\* INSERT (service.go, the removal of the blob when CreateFile returns an error).
THEOREM UnservableWereUnseen == Spec => []ServableUnlessUnseen
<1>1. IInv /\ AnswersInv => ServableUnlessUnseen
  BY DEF IInv, AnswersInv, RowInv, Whole, Listed, ServableUnlessUnseen, Servable
<1> QED
  BY <1>1, AnswersInvariance, Invariance, PTL

\* If no answer of the database is lost, a file in the table has its whole blob
\* under its name (upload: blob, then row; delete: row, then blob).
THEOREM ListedFilesAreServable ==
  ASSUME "lostack" \notin Faults
  PROVE  Spec => []ListedIsServable
<1> DEFINE AllSeen == unseen = {}
<1>1. Init => AllSeen
  BY DEF Init
<1>2. AllSeen /\ [Next]_vars => AllSeen'
  <2> SUFFICES ASSUME AllSeen, [Next]_vars PROVE unseen' = unseen
    OBVIOUS
  <2>1. ASSUME NEW w \in Workers, NEW u \in Users, Request(w, u) PROVE unseen' = unseen
    BY <2>1 DEF Request, UploadOpen, DeleteLookup, DownloadLookup, losses
  <2>2. ASSUME NEW w \in Workers, Proceed(w) \/ Database(w) PROVE unseen' = unseen
    BY <2>2 DEF Proceed, UploadChunk, UploadClose, UploadStored, UploadCleanup, DeleteUnlink,
                Unlink, Database, DbInsert, DbDelete, DbDeleteNoRows, losses
  <2>3. ASSUME NEW w \in Workers, Download(w) \/ Fault(w) PROVE unseen' = unseen
    BY <2>3 DEF Download, DownloadOpen, DownloadOpenFails, DownloadChunk, DownloadEnd, Fault,
                UploadFails, DbRefuses, Deadline, losses
  <2>4. ASSUME NEW s \in late, LateStatement(s) PROVE unseen' = unseen
    BY <2>4 DEF LateStatement, LateInsert, LateDelete, LateDrop, losses
  <2>5. CASE Crash \/ UNCHANGED vars
    BY <2>5 DEF Crash, vars
  <2> QED
    BY <2>1, <2>2, <2>3, <2>4, <2>5 DEF Next
<1>3. AllSeen /\ ServableUnlessUnseen => ListedIsServable
  BY DEF ServableUnlessUnseen, ListedIsServable
<1> HIDE DEF AllSeen
<1> QED
  BY <1>1, <1>2, <1>3, UnservableWereUnseen, PTL DEF Spec

\* A download misses its blob only because the file was deleted after its row was
\* read, or because its upload had given up on the INSERT.
THEOREM MissingBlobsWereErased == Spec => []MissingOnlyIfErased
<1>1. IInv /\ AnswersInv => MissingOnlyIfErased
  BY DEF IInv, AnswersInv, RequestInv, Downloading, Known, MissingOnlyIfErased
<1> QED
  BY <1>1, AnswersInvariance, Invariance, PTL
-----------------------------------------------------------------------------
(***************************************************************************)
(* The blobs that nobody will remove.                                      *)
(***************************************************************************)

\* Every step keeps LeakInv.
LEMMA NextLeak ==
  ASSUME IInv, LeakInv, [Next]_vars
  PROVE  LeakInv'
<1> USE DEF IInv, losses, Owning
<1>1. ASSUME NEW w \in Workers, NEW u \in Users, Request(w, u) PROVE LeakInv'
  BY <1>1 DEF Request, UploadOpen, DeleteLookup, DownloadLookup, Begin, history, store, TypeOK,
              LeakInv, NoLeak, Listed, LateInserts
<1>2. ASSUME NEW w \in Workers, Proceed(w) PROVE LeakInv'
  <2>1. CASE UploadChunk(w)
    BY <2>1 DEF UploadChunk, history, TypeOK, Row, LeakInv, NoLeak, Listed, LateInserts
  <2>2. CASE UploadClose(w)
    BY <2>2 DEF UploadClose, Goto, history, store, TypeOK, LeakInv, NoLeak, Listed, LateInserts
  <2>3. CASE UploadStored(w)
    BY <2>3 DEF UploadStored, Finish, store, TypeOK, LeakInv, NoLeak, Listed, LateInserts
  <2>4. CASE UploadCleanup(w) \/ DeleteUnlink(w)
    BY <2>4 DEF UploadCleanup, DeleteUnlink, Finish, Unlink, history, TypeOK, LeakInv, NoLeak,
                Listed, LateInserts
  <2> QED
    BY <1>2, <2>1, <2>2, <2>3, <2>4 DEF Proceed
<1>3. ASSUME NEW w \in Workers, Database(w) PROVE LeakInv'
  <2>1. CASE DbInsert(w)
    BY <2>1 DEF DbInsert, Goto, history, TypeOK, LeakInv, NoLeak, Listed, LateInserts
  <2>2. CASE DbDelete(w)
    BY <2>2 DEF DbDelete, Matching, Goto, TypeOK, LeakInv, NoLeak, Listed, LateInserts
  <2>3. CASE DbDeleteNoRows(w)
    BY <2>3 DEF DbDeleteNoRows, Finish, history, store, TypeOK, LeakInv, NoLeak, Listed,
                LateInserts
  <2> QED
    BY <1>3, <2>1, <2>2, <2>3 DEF Database
<1>4. ASSUME NEW w \in Workers, Download(w) PROVE LeakInv'
  BY <1>4 DEF Download, DownloadOpen, DownloadOpenFails, DownloadChunk, DownloadEnd, Goto, Finish,
              history, store, TypeOK, LeakInv, NoLeak, Listed, LateInserts
<1>5. ASSUME NEW w \in Workers, Fault(w) PROVE LeakInv'
  <2>1. CASE UploadFails(w) \/ DbRefuses(w)
    BY <2>1 DEF UploadFails, DbRefuses, Goto, Finish, history, store, TypeOK, LeakInv, NoLeak,
                Listed, LateInserts
  <2>2. CASE Deadline(w)
    BY <2>2 DEF Deadline, Goto, Finish, StatementOf, Deleting, history, TypeOK, LeakInv, NoLeak,
                Listed, LateInserts
  <2> QED
    BY <1>5, <2>1, <2>2 DEF Fault
<1>6. ASSUME NEW s \in late, LateStatement(s) PROVE LeakInv'
  <2>1. CASE LateInsert(s) \/ LateDrop(s)
    BY <2>1 DEF LateInsert, LateDrop, local, history, LeakInv, NoLeak, Listed, LateInserts
  <2>2. CASE LateDelete(s)
    BY <2>2 DEF LateDelete, Matching, local, LeakInv, NoLeak, Listed, LateInserts
  <2> QED
    BY <1>6, <2>1, <2>2 DEF LateStatement
<1>7. CASE Crash
  BY <1>7 DEF Crash, StatementOf, history, TypeOK, LeakInv, NoLeak, Listed, LateInserts
<1>8. CASE UNCHANGED vars
  BY <1>8 DEF vars, LeakInv, NoLeak, Listed, LateInserts
<1> QED
  BY <1>1, <1>2, <1>3, <1>4, <1>5, <1>6, <1>7, <1>8 DEF Next

\* A blob without a row, and without a request to see to it, was left by a crash,
\* a DELETE that was given up, or a failed os.Remove (service.go).
THEOREM BlobsDoNotLeak == Spec => []NoLeak
<1>1. Init => LeakInv
  BY DEF Init, LeakInv, NoLeak, LateInserts
<1>2. IInv /\ LeakInv /\ [Next]_vars => LeakInv'
  BY NextLeak
<1>3. LeakInv => NoLeak
  BY DEF LeakInv
<1> QED
  BY <1>1, <1>2, <1>3, Invariance, PTL DEF Spec
-----------------------------------------------------------------------------
(***************************************************************************)
(* FileStore implements FileLife.                                          *)
(***************************************************************************)

\* Only six actions are seen in FileLife; the others map to stuttering.
LEMMA LifeStutters ==
  ASSUME UNCHANGED <<files, history>>
  PROVE  UNCHANGED Life!vars
  BY DEF Life!vars, LifeOf, Listed, history

\* A row that gets into the table is one that Appears.
LEMMA InsertMapsToAppear ==
  ASSUME NEW r \in Row, r.id \notin Known, files' = files \cup {r}, UNCHANGED history
  PROVE  Life!Next
<1>1. LifeOf[r.id] = "absent"
  BY DEF LifeOf, Known, Row
<1>2. Listed' = Listed \cup {r.id}
  BY DEF Listed
<1>3. LifeOf' = [LifeOf EXCEPT ![r.id] = "listed"]
  BY <1>2 DEF LifeOf, Known, Row, history
<1>4. Life!Appear(r.id)
  BY <1>1, <1>3 DEF Life!Appear, Life!Become, history
<1> QED
  BY <1>4 DEF Life!Next, Row

\* A DELETE that finds its row is an Erase of a doomed file.
LEMMA DeleteMapsToErase ==
  ASSUME IInv, NEW id \in doomed, NEW u, Matching(id, u) # {},
         files' = files \ Matching(id, u), erased' = erased \cup {id},
         UNCHANGED <<acked, doomed>>
  PROVE  Life!Next
<1> USE DEF IInv
<1>1. id \in Listed /\ id \in FileIds
  BY DEF Matching, Listed, TypeOK
<1>2. Listed' = Listed \ {id}
  BY DEF Listed, Matching, RowInv
<1>3. LifeOf[id] = "listed"
  BY <1>1 DEF LifeOf
<1>4. LifeOf' = [LifeOf EXCEPT ![id] = "deleted"]
  BY <1>1, <1>2 DEF LifeOf
<1>5. Life!Erase(id)
  BY <1>3, <1>4 DEF Life!Erase, Life!Become
<1> QED
  BY <1>1, <1>5 DEF Life!Next

\* Every step of FileStore is a step of FileLife or a stutter.
LEMMA NextMapsToLife ==
  ASSUME IInv, [Next]_vars
  PROVE  [Life!Next]_(Life!vars)
<1> USE DEF IInv
<1>1. ASSUME NEW w \in Workers, NEW u \in Users, Request(w, u) PROVE [Life!Next]_(Life!vars)
  <2>1. CASE UploadOpen(w, u) \/ DownloadLookup(w, u)
    BY <2>1, LifeStutters DEF UploadOpen, DownloadLookup, store
  <2>2. CASE DeleteLookup(w, u)
    <3>1. PICK r \in files : doomed' = doomed \cup {r.id}
      BY <2>2 DEF DeleteLookup, OwnedBy
    <3>2. r.id \in FileIds /\ LifeOf[r.id] = "listed"
      BY DEF TypeOK, Row, LifeOf, Listed
    <3>3. LifeOf' = LifeOf /\ acked' = acked
      BY <2>2 DEF DeleteLookup, LifeOf, Listed, store
    <3>4. Life!AskDelete(r.id)
      BY <3>1, <3>2, <3>3 DEF Life!AskDelete
    <3> QED
      BY <3>2, <3>4 DEF Life!Next
  <2> QED
    BY <1>1, <2>1, <2>2 DEF Request
<1>2. ASSUME NEW w \in Workers, Proceed(w) PROVE [Life!Next]_(Life!vars)
  <2>1. CASE UploadStored(w)
    <3>1. file[w].id \in FileIds /\ LifeOf[file[w].id] # "absent"
      BY <2>1 DEF UploadStored, TypeOK, Row, UploadInv, UploadOK, LifeOf, Known
    <3>2. LifeOf' = LifeOf
      BY <2>1 DEF UploadStored, LifeOf, Listed, store
    <3>3. Life!Promise(file[w].id)
      BY <2>1, <3>1, <3>2 DEF UploadStored, Life!Promise
    <3> QED
      BY <3>1, <3>3 DEF Life!Next
  <2>2. CASE ~ UploadStored(w)
    BY <1>2, <2>2, LifeStutters DEF Proceed, UploadChunk, UploadClose, UploadCleanup,
                                    DeleteUnlink, store
  <2> QED
    BY <2>1, <2>2
<1>3. ASSUME NEW w \in Workers, Database(w) PROVE [Life!Next]_(Life!vars)
  <2>1. CASE DbInsert(w)
    BY <2>1, InsertMapsToAppear DEF DbInsert, TypeOK, UploadInv, UploadOK
  <2>2. CASE DbDelete(w)
    BY <2>2, DeleteMapsToErase DEF DbDelete, RequestInv, Deleting
  <2>3. CASE DbDeleteNoRows(w)
    BY <2>3, LifeStutters DEF DbDeleteNoRows, store
  <2> QED
    BY <1>3, <2>1, <2>2, <2>3 DEF Database
<1>4. ASSUME NEW w \in Workers, Download(w) \/ Fault(w) PROVE [Life!Next]_(Life!vars)
  BY <1>4, LifeStutters DEF Download, DownloadOpen, DownloadOpenFails, DownloadChunk,
                            DownloadEnd, Fault, UploadFails, DbRefuses, Deadline, store
<1>5. ASSUME NEW s \in late, LateStatement(s) PROVE [Life!Next]_(Life!vars)
  <2>1. CASE LateInsert(s)
    BY <2>1, InsertMapsToAppear DEF LateInsert, TypeOK, Statement, LateInv, LateInserts
  <2>2. CASE LateDelete(s)
    BY <2>2, DeleteMapsToErase DEF LateDelete, LateInv, LateInserts
  <2>3. CASE LateDrop(s)
    BY <2>3, LifeStutters DEF LateDrop
  <2> QED
    BY <1>5, <2>1, <2>2, <2>3 DEF LateStatement
<1>6. CASE Crash \/ UNCHANGED vars
  BY <1>6, LifeStutters DEF Crash, vars, history
<1> QED
  BY <1>1, <1>2, <1>3, <1>4, <1>5, <1>6 DEF Next

\* The service implements FileLife: rows go only at their owner's request, a
\* deleted file never comes back, 201 is answered for committed rows only.
THEOREM ImplementsFileLife == Spec => KeepsItsPromise
<1>1. Init => Life!Init
  BY DEF Init, Life!Init, LifeOf, Listed
<1>2. IInv /\ [Next]_vars => [Life!Next]_(Life!vars)
  BY NextMapsToLife
<1> QED
  BY <1>1, <1>2, Invariance, PTL DEF Spec, KeepsItsPromise, Life!Spec
=============================================================================
