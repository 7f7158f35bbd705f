----------------------------- MODULE FileStoreInv -----------------------------
(***************************************************************************)
(* The inductive invariants behind the safety properties of FileStore.     *)
(*                                                                         *)
(* Their idea: an id is Known once its row has been in the table, and      *)
(* stays so.  Uploads that have not committed work on ids that are not     *)
(* Known, everything else on ids that are; so an upload in progress can    *)
(* disturb no other request, and a late INSERT cannot revive a deleted     *)
(* file.                                                                   *)
(***************************************************************************)
EXTENDS FileStore

Known == Listed \cup erased

Whole(r) == r.size = Length[r.id] /\ written[r.id] = r.size

LateInserts == {s \in late : s.op = "insert"}

KnownInv ==
  /\ Known \subseteq used
  /\ acked \subseteq Known
  /\ doomed \subseteq Known
  /\ erased \subseteq doomed
  /\ erased \cap Listed = {}
  /\ \A id \in FileIds \ used : written[id] = 0

RowInv ==
  /\ \A r \in files : Whole(r)
  /\ \A r, s \in files : r.id = s.id => r = s

UploadOK(w) ==
  /\ pc[w] \in Uploading => file[w].id \in used \ acked
  /\ pc[w] \in {"copy", "inserting"} => file[w].id \in dir \ Known
  /\ pc[w] = "copy" => written[file[w].id] = file[w].size
  /\ pc[w] = "copy" => file[w].size <= Length[file[w].id]
  /\ pc[w] \in {"inserting", "inserted"} => Whole(file[w])
  /\ pc[w] = "inserted" => file[w].id \in Known
  /\ pc[w] = "inserted" /\ file[w].id \in Listed => file[w].id \in dir

UploadInv == \A w \in Workers : UploadOK(w)

\* An id belongs to one upload, in a worker or in a late INSERT that the worker
\* may since be cleaning up after.
OwnerInv ==
  /\ \A v, w \in Workers :
       pc[v] \in Uploading /\ pc[w] \in Uploading /\ file[v].id = file[w].id => v = w
  /\ \A s \in LateInserts, w \in Workers :
       pc[w] \in {"copy", "inserting"} => file[w].id # s.row.id
  /\ \A s, t \in LateInserts : s.row.id = t.row.id => s = t

LateInv ==
  /\ \A s \in LateInserts : s.row.id \in used \ Known /\ Whole(s.row)
  /\ \A s \in late \ LateInserts : s.row.id \in doomed

AckedInv == acked \cap Listed \subseteq dir

RequestInv ==
  \A w \in Workers :
    /\ pc[w] \in Downloading => file[w].id \in Known /\ Whole(file[w])
    /\ pc[w] \in Deleting => file[w].id \in doomed
    /\ pc[w] = "deleted" => file[w].id \in erased
    /\ \A v \in Workers :
         pc[v] = "deleted" /\ pc[w] = "deleted" /\ file[v].id = file[w].id => v = w

IInv == /\ TypeOK /\ KnownInv /\ RowInv /\ UploadInv
        /\ OwnerInv /\ LateInv /\ AckedInv /\ RequestInv

\* Unless its upload gave up on the INSERT, an id that is or may get into the table
\* has its blob, and an upload that cleans up does so for none of these.
AnswersInv ==
  /\ Listed \subseteq dir \cup unseen
  /\ \A s \in LateInserts : s.row.id \in dir \cup unseen
  /\ \A w \in Workers : pc[w] = "cleanup" /\ file[w].id \notin unseen =>
       /\ file[w].id \notin Known
       /\ \A s \in LateInserts : s.row.id # file[w].id

\* Nobody else will unlink the blob that a late DELETE leaves behind.
LeakInv == NoLeak /\ \A s \in late \ LateInserts : s.row.id \in stray
=============================================================================
