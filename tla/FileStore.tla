------------------------------ MODULE FileStore ------------------------------
(***************************************************************************)
(* The file service of the backend: the files table in PostgreSQL, the     *)
(* ciphertext blobs in STORAGE_DIR, and the request goroutines that upload,*)
(* delete and download files (backend/internal/files).                     *)
(*                                                                         *)
(* net/http runs every request in its own goroutine.  A worker stands for  *)
(* one such goroutine; it is idle between two requests.  The database and  *)
(* the file system are two stores with no common transaction: an upload    *)
(* writes the blob and then inserts the row, a delete removes the row and  *)
(* then unlinks the blob, and any of those steps can fail, be cut off by a *)
(* deadline, or be the last one before the process dies.                   *)
(*                                                                         *)
(* The plaintext is abstracted to its number of 32KB chunks; the bytes     *)
(* themselves are the subject of RangeServe.                               *)
(***************************************************************************)
EXTENDS Integers, FiniteSets

CONSTANTS
  Workers,   \* the request goroutines
  Users,
  FileIds,   \* the UUIDs that uuid.New may return
  Length,    \* Length[id]: chunks in the plaintext sent by the upload that gets id
  Faults,    \* which faults the environment may produce
  None       \* no row, no caller

FaultKinds == {
  "cancel",   \* the client goes away: the upload loop sees ctx.Done(), a body write fails
  "io",       \* a write, a read or the close of the blob fails
  "db",       \* a statement fails and has no effect
  "lostack",  \* ctx (client gone, or the 5s deadline) ends a statement before its answer
  "unlink",   \* os.Remove fails; the code ignores its error
  "crash" }   \* the backend process dies and is started again

Row == [id : FileIds, owner : Users, size : Nat]

ASSUME LengthAssumption == Length \in [FileIds -> Nat]
ASSUME FaultsAssumption == Faults \subseteq FaultKinds

VARIABLES
  files,    \* the files table: a set of rows
  dir,      \* the ids that have a directory entry in the storage directory
  written,  \* [FileIds -> Nat]: chunks in the inode of the blob, linked or not
  used,     \* the UUIDs handed out so far: uuid.New never repeats one
  late,     \* statements whose goroutine has given up but that may still execute
  pc,       \* where each worker is
  file,     \* its f *models.File: the row it will insert, or the row it has read
  caller,   \* its ownerID, from the request context
  sent,     \* chunks of the body a download has written
  acked,    \* history: the ids of the uploads answered 201
  doomed,   \* history: the ids whose owner has called DELETE
  erased,   \* history: the ids whose row was deleted
  unseen,   \* history: the ids whose INSERT was given up without an answer
  stray     \* history: the ids whose blob os.Remove failed to remove, or never will

store == <<files, dir, written, used, late>>
local == <<pc, file, caller, sent>>
history == <<acked, doomed, erased>>
losses == <<unseen, stray>>
vars == <<files, dir, written, used, late, pc, file, caller, sent, acked, doomed, erased,
          unseen, stray>>

Stages == {"idle", "copy", "inserting", "inserted", "cleanup",
           "deleting", "deleted", "open", "stream"}
Uploading == {"copy", "inserting", "inserted", "cleanup"}
Deleting == {"deleting", "deleted"}
Downloading == {"open", "stream"}

\* The stages of a request that has a blob without a row in its care.
Owning == {"copy", "inserting", "cleanup", "deleted"}

Statement == [op : {"insert", "delete"}, row : Row, owner : Users]

\* SELECT id FROM files
Listed == {r.id : r \in files}

\* ListFilesByOwner
OwnedBy(u) == {r \in files : r.owner = u}

Init ==
  /\ files = {} /\ dir = {} /\ used = {} /\ late = {}
  /\ written = [id \in FileIds |-> 0]
  /\ pc = [w \in Workers |-> "idle"]
  /\ file = [w \in Workers |-> None]
  /\ caller = [w \in Workers |-> None]
  /\ sent = [w \in Workers |-> 0]
  /\ acked = {} /\ doomed = {} /\ erased = {} /\ unseen = {} /\ stray = {}

Goto(w, stage) == pc' = [pc EXCEPT ![w] = stage]

\* The handler starts to work on row r for user u.
Begin(w, stage, r, u) ==
  /\ pc[w] = "idle"
  /\ pc' = [pc EXCEPT ![w] = stage]
  /\ file' = [file EXCEPT ![w] = r]
  /\ caller' = [caller EXCEPT ![w] = u]
  /\ UNCHANGED sent

\* The handler has answered and its goroutine is gone.
Finish(w) ==
  /\ pc' = [pc EXCEPT ![w] = "idle"]
  /\ file' = [file EXCEPT ![w] = None]
  /\ caller' = [caller EXCEPT ![w] = None]
  /\ sent' = [sent EXCEPT ![w] = 0]

\* os.Remove(path): the entry goes, or the ignored error leaves it.
Unlink(id) ==
  \/ dir' = dir \ {id} /\ UNCHANGED losses
  \/ "unlink" \in Faults /\ stray' = stray \cup {id} /\ UNCHANGED <<dir, unseen>>

\* The statement a worker is waiting for.
StatementOf(w) ==
  [op |-> IF pc[w] = "inserting" THEN "insert" ELSE "delete",
   row |-> file[w], owner |-> caller[w]]

(***************************************************************************)
(* Upload: POST /files.                                                    *)
(***************************************************************************)

\* uuid.New and OpenFile(O_CREATE|O_EXCL).  A failure of either answers 500 and
\* leaves nothing behind.
UploadOpen(w, u) ==
  \E id \in FileIds \ used :
    /\ Begin(w, "copy", [id |-> id, owner |-> u, size |-> 0], u)
    /\ used' = used \cup {id}
    /\ dir' = dir \cup {id}
    /\ UNCHANGED <<files, written, late, history, losses>>

\* Faulty variant: the error of dst.Write is not looked at.
UploadChunkUncheckedWrite(w) ==
  /\ pc[w] = "copy"
  /\ file[w].size < Length[file[w].id]
  /\ \/ written' = [written EXCEPT ![file[w].id] = @ + 1]
     \/ "io" \in Faults /\ UNCHANGED written
  /\ file' = [file EXCEPT ![w].size = @ + 1]
  /\ UNCHANGED <<files, dir, used, late, pc, caller, sent, history, losses>>

\* One turn of the copy loop that reads a chunk: hash, encrypt, write, count.
UploadChunk(w) ==
  /\ pc[w] = "copy"
  /\ file[w].size < Length[file[w].id]
  /\ written' = [written EXCEPT ![file[w].id] = @ + 1]
  /\ file' = [file EXCEPT ![w].size = @ + 1]
  /\ UNCHANGED <<files, dir, used, late, pc, caller, sent, history, losses>>

\* Faulty variant: the path is gone when the deferred removal runs.
UploadFailsForgetsPath(w) ==
  /\ pc[w] = "copy"
  /\ Goto(w, "cleanup")
  /\ file' = [file EXCEPT ![w] = None]
  /\ UNCHANGED <<store, caller, sent, history, losses>>

\* ctx.Done() at the top of the loop, or an error of Read, Write or Close.
UploadFails(w) ==
  /\ {"cancel", "io"} \cap Faults # {}
  /\ pc[w] = "copy"
  /\ Goto(w, "cleanup")
  /\ UNCHANGED <<store, file, caller, sent, history, losses>>

\* Faulty variant: the INSERT is sent before the copy has reached end of file.
UploadCloseEarly(w) ==
  /\ pc[w] = "copy"
  /\ Goto(w, "inserting")
  /\ UNCHANGED <<store, file, caller, sent, history, losses>>

\* Read returned io.EOF, dst.Close succeeded, CreateFile sends the INSERT.
UploadClose(w) ==
  /\ pc[w] = "copy"
  /\ file[w].size = Length[file[w].id]
  /\ Goto(w, "inserting")
  /\ UNCHANGED <<store, file, caller, sent, history, losses>>

\* The database commits the INSERT; id is the primary key.
DbInsert(w) ==
  /\ pc[w] = "inserting"
  /\ file[w].id \notin Listed
  /\ files' = files \cup {file[w]}
  /\ Goto(w, "inserted")
  /\ UNCHANGED <<dir, written, used, late, file, caller, sent, history, losses>>

\* Faulty variant: 201 is answered without waiting for the database.
UploadStoredUnchecked(w) ==
  /\ pc[w] \in {"inserting", "inserted"}
  /\ acked' = acked \cup {file[w].id}
  /\ Finish(w)
  /\ UNCHANGED <<store, doomed, erased, losses>>

\* CreateFile returned the row: answer 201.
UploadStored(w) ==
  /\ pc[w] = "inserted"
  /\ acked' = acked \cup {file[w].id}
  /\ Finish(w)
  /\ UNCHANGED <<store, doomed, erased, losses>>

\* Faulty variant: an error return without the deferred removal.
UploadCleanupSkipped(w) ==
  /\ pc[w] = "cleanup"
  /\ Finish(w)
  /\ UNCHANGED <<store, history, losses>>

\* Every error return removes the blob (deferred, and once more if the INSERT
\* failed), then the handler answers 408 or 500.
UploadCleanup(w) ==
  /\ pc[w] = "cleanup"
  /\ Unlink(file[w].id)
  /\ Finish(w)
  /\ UNCHANGED <<files, written, used, late, history>>

(***************************************************************************)
(* Delete: DELETE /files/{id}.                                             *)
(***************************************************************************)

\* Faulty variant: the blob is unlinked before the row is deleted.
DeleteLookupUnlinksFirst(w, u) ==
  \E r \in OwnedBy(u) :
    /\ Begin(w, "deleting", r, u)
    /\ doomed' = doomed \cup {r.id}
    /\ dir' = dir \ {r.id}
    /\ UNCHANGED <<files, written, used, late, acked, erased, losses>>

\* GetFileByID finds a row of the caller's and DeleteFile sends the DELETE.
\* A missing or foreign row answers 404 and changes nothing.
DeleteLookup(w, u) ==
  \E r \in OwnedBy(u) :
    /\ Begin(w, "deleting", r, u)
    /\ doomed' = doomed \cup {r.id}
    /\ UNCHANGED <<store, acked, erased, losses>>

\* DELETE FROM files WHERE id = .. AND owner_id = ..
Matching(id, u) == {r \in files : r.id = id /\ r.owner = u}

DbDelete(w) ==
  /\ pc[w] = "deleting"
  /\ Matching(file[w].id, caller[w]) # {}
  /\ files' = files \ Matching(file[w].id, caller[w])
  /\ erased' = erased \cup {file[w].id}
  /\ Goto(w, "deleted")
  /\ UNCHANGED <<dir, written, used, late, file, caller, sent, acked, doomed, losses>>

\* Faulty variant: RowsAffected is not looked at.
DbDeleteNoRowsUnnoticed(w) ==
  /\ pc[w] = "deleting"
  /\ Matching(file[w].id, caller[w]) = {}
  /\ Goto(w, "deleted")
  /\ UNCHANGED <<store, file, caller, sent, history, losses>>

\* RowsAffected is 0: somebody else was faster, answer 404.
DbDeleteNoRows(w) ==
  /\ pc[w] = "deleting"
  /\ Matching(file[w].id, caller[w]) = {}
  /\ Finish(w)
  /\ UNCHANGED <<store, history, losses>>

\* The row is gone; unlink the blob, ignore the error, answer 204.
DeleteUnlink(w) ==
  /\ pc[w] = "deleted"
  /\ Unlink(file[w].id)
  /\ Finish(w)
  /\ UNCHANGED <<files, written, used, late, history>>

(***************************************************************************)
(* Download: GET /files/{id}.                                              *)
(***************************************************************************)

\* GetFileByID finds a row of the caller's.  Missing or foreign: 404.  An empty
\* file is answered at once, without a look at its blob.
DownloadLookup(w, u) ==
  \E r \in OwnedBy(u) :
    /\ r.size > 0
    /\ Begin(w, "open", r, u)
    /\ UNCHANGED <<store, history, losses>>

DownloadOpen(w) ==
  /\ pc[w] = "open"
  /\ file[w].id \in dir
  /\ Goto(w, "stream")
  /\ UNCHANGED <<store, file, caller, sent, history, losses>>

\* os.Open fails: answer 500.
DownloadOpenFails(w) ==
  /\ pc[w] = "open"
  /\ file[w].id \notin dir \/ "io" \in Faults
  /\ Finish(w)
  /\ UNCHANGED <<store, history, losses>>

\* The open descriptor reads the inode, whether or not it still has a name.
DownloadChunk(w) ==
  /\ pc[w] = "stream"
  /\ sent[w] < file[w].size
  /\ sent[w] < written[file[w].id]
  /\ sent' = [sent EXCEPT ![w] = @ + 1]
  /\ UNCHANGED <<store, pc, file, caller, history, losses>>

\* CopyN is done, has met end of file, or could not write to the client; the
\* status line is out long since and its result is ignored.
DownloadEnd(w) ==
  /\ pc[w] = "stream"
  /\ \/ sent[w] = file[w].size
     \/ sent[w] = written[file[w].id]
     \/ {"cancel", "io"} \cap Faults # {}
  /\ Finish(w)
  /\ UNCHANGED <<store, history, losses>>

(***************************************************************************)
(* What the environment does to a statement and to the process.            *)
(***************************************************************************)

\* The statement fails without an effect: 500.
DbRefuses(w) ==
  /\ "db" \in Faults
  /\ \/ pc[w] = "inserting" /\ Goto(w, "cleanup") /\ UNCHANGED <<file, caller, sent>>
     \/ pc[w] = "deleting" /\ Finish(w)
  /\ UNCHANGED <<store, history, losses>>

\* Faulty variant: DeleteFile has no deadline of its own.
DeadlineInsertOnly(w) ==
  /\ "lostack" \in Faults
  /\ pc[w] \in {"inserting", "inserted"}
  /\ Goto(w, "cleanup")
  /\ late' = late \cup IF pc[w] = "inserting" THEN {StatementOf(w)} ELSE {}
  /\ UNCHANGED <<files, dir, written, used, file, caller, sent, history, losses>>

\* The context ends before the answer is read.  CreateFile and DeleteFile
\* return an error; whether the statement has executed, or still will, they do
\* not know.
Deadline(w) ==
  /\ "lostack" \in Faults
  /\ late' = late \cup IF pc[w] \in {"inserting", "deleting"} THEN {StatementOf(w)} ELSE {}
  /\ \/ pc[w] \in {"inserting", "inserted"} /\ Goto(w, "cleanup") /\ UNCHANGED <<file, caller, sent>>
        /\ unseen' = unseen \cup {file[w].id} /\ UNCHANGED stray
     \/ pc[w] \in Deleting /\ Finish(w)
        /\ stray' = stray \cup {file[w].id} /\ UNCHANGED unseen
  /\ UNCHANGED <<files, dir, written, used, history>>

\* Faulty variant: the statement is sent again by the driver when it was executed.
LateInsertRetried(s) ==
  /\ s.op = "insert"
  /\ s.row.id \notin Listed
  /\ files' = files \cup {s.row}
  /\ UNCHANGED <<late, dir, written, used, local, history, losses>>

\* A statement nobody waits for executes after all.
LateInsert(s) ==
  /\ s.op = "insert"
  /\ s.row.id \notin Listed
  /\ late' = late \ {s}
  /\ files' = files \cup {s.row}
  /\ UNCHANGED <<dir, written, used, local, history, losses>>

LateDelete(s) ==
  /\ s.op = "delete"
  /\ Matching(s.row.id, s.owner) # {}
  /\ late' = late \ {s}
  /\ files' = files \ Matching(s.row.id, s.owner)
  /\ erased' = erased \cup {s.row.id}
  /\ UNCHANGED <<dir, written, used, local, acked, doomed, losses>>

\* It fails, matches nothing, or its connection was closed first.
LateDrop(s) ==
  /\ late' = late \ {s}
  /\ UNCHANGED <<files, dir, written, used, local, history, losses>>

\* The process dies and main runs again.  Both stores are on volumes of their
\* own; start-up creates the storage directory and repairs nothing.
Crash ==
  /\ "crash" \in Faults
  /\ late' = late \cup {StatementOf(w) : w \in {v \in Workers : pc[v] \in {"inserting", "deleting"}}}
  /\ pc' = [w \in Workers |-> "idle"]
  /\ file' = [w \in Workers |-> None]
  /\ caller' = [w \in Workers |-> None]
  /\ sent' = [w \in Workers |-> 0]
  /\ stray' = stray \cup {file[w].id : w \in {v \in Workers : pc[v] \in Owning \cup {"deleting"}}}
  /\ UNCHANGED <<files, dir, written, used, history, unseen>>
-----------------------------------------------------------------------------
\* What an upload or a delete does by itself once it has begun.
Proceed(w) ==
  \/ UploadChunk(w) \/ UploadClose(w) \/ UploadStored(w) \/ UploadCleanup(w)
  \/ DeleteUnlink(w)

Database(w) == DbInsert(w) \/ DbDelete(w) \/ DbDeleteNoRows(w)

Download(w) == DownloadOpen(w) \/ DownloadOpenFails(w) \/ DownloadChunk(w) \/ DownloadEnd(w)

Request(w, u) == UploadOpen(w, u) \/ DeleteLookup(w, u) \/ DownloadLookup(w, u)

Fault(w) == UploadFails(w) \/ DbRefuses(w) \/ Deadline(w)

LateStatement(s) == LateInsert(s) \/ LateDelete(s) \/ LateDrop(s)

Next ==
  \/ \E w \in Workers, u \in Users : Request(w, u)
  \/ \E w \in Workers : Proceed(w) \/ Database(w) \/ Download(w) \/ Fault(w)
  \/ \E s \in late : LateStatement(s)
  \/ Crash

Spec == Init /\ [][Next]_vars

\* Goroutines run, and a deadline set with context.WithTimeout fires.  Nothing
\* is assumed of the database, nor of the client of a download: the server sets
\* no write timeout.
Fairness == \A w \in Workers : WF_vars(Proceed(w)) /\ WF_vars(Deadline(w))

FairSpec == Spec /\ Fairness
-----------------------------------------------------------------------------
(* Every variable has its type; the fields of a worker agree with its stage. *)
TypeOK ==
  /\ files \subseteq Row
  /\ dir \subseteq FileIds
  /\ written \in [FileIds -> Nat]
  /\ used \subseteq FileIds
  /\ late \subseteq Statement
  /\ pc \in [Workers -> Stages]
  /\ file \in [Workers -> Row \cup {None}]
  /\ caller \in [Workers -> Users \cup {None}]
  /\ sent \in [Workers -> Nat]
  /\ acked \subseteq FileIds /\ doomed \subseteq FileIds /\ erased \subseteq FileIds
  /\ unseen \subseteq FileIds /\ stray \subseteq FileIds
  /\ \A w \in Workers : pc[w] # "idle" => file[w] \in Row /\ caller[w] \in Users

\* The plaintext of id is on disk in full, under its name.
Servable(id) == id \in dir /\ written[id] = Length[id]

(***************************************************************************)
(* Properties that hold whatever the environment does.                     *)
(***************************************************************************)

\* A file that was answered 201 and whose owner has not called DELETE is in the
\* table, and its blob is complete and has its name: no failure, deadline,
\* restart or other request takes it away (service.go, Upload and Delete).
AckedKept ==
  \A id \in acked \ doomed :
    /\ Servable(id)
    /\ \E r \in files : r.id = id /\ r.size = Length[id]

\* A row never describes less, or more, than what the client sent: a cut-off
\* upload leaves no row (service.go, the copy loop before CreateFile).
RowsAreWhole == \A r \in files : r.size = Length[r.id] /\ written[r.id] = r.size

\* A download that has opened the blob can read to the end although the file is
\* deleted meanwhile: end of file is met at the promised Content-Length only
\* (handler.go, serveDecrypted).
NoShortRead ==
  \A w \in Workers :
    pc[w] = "stream" /\ sent[w] = written[file[w].id] => sent[w] = file[w].size

\* Of concurrent deletes of one file only one gets to unlink and answer 204,
\* and by then the row is gone for everybody (repository.go, DeleteFile).
OneDeleter ==
  \A v \in Workers :
    pc[v] = "deleted" =>
      /\ file[v].id \notin Listed
      /\ \A w \in Workers : pc[w] = "deleted" /\ file[w].id = file[v].id => v = w

\* The life of a file, as FileLife has it, seen in the table and the history.
LifeOf == [id \in FileIds |-> IF id \in Listed THEN "listed"
                              ELSE IF id \in erased THEN "deleted" ELSE "absent"]

Life == INSTANCE FileLife WITH life <- LifeOf, promised <- acked

\* The service implements FileLife: rows go only on their owner's request, a
\* deleted file never comes back (no late statement, no restart revives it), and
\* 201 is answered for a file that was committed.
KeepsItsPromise == Life!Spec

\* A file its owner can list can be downloaded, unless its upload gave up waiting
\* for the answer to the INSERT: upload makes the blob before the row and delete
\* takes the row before the blob, so no other failure parts the two (service.go).
ServableUnlessUnseen == \A r \in files : Servable(r.id) \/ r.id \in unseen

\* Apart from such a file, a download answers 500 for a missing blob only if the
\* row was deleted after the handler had read it (handler.go, between GetFileByID
\* and OpenCiphertext).
MissingOnlyIfErased ==
  \A w \in Workers :
    pc[w] = "open" /\ file[w].id \notin dir => file[w].id \in erased \cup unseen

\* A blob has a row, or a request that will give it one or remove it, unless the
\* process died in such a request, a delete gave up on its DELETE, or os.Remove
\* failed: an upload that fails by itself leaves nothing (service.go, the deferred
\* removal).
NoLeak ==
  \A id \in dir :
    \/ id \in Listed \cup stray
    \/ \E w \in Workers : pc[w] \in Owning /\ file[w].id = id

\* ServableUnlessUnseen without its exception: true as long as no answer of the
\* database is lost ("lostack" \notin Faults); see the README for what happens
\* otherwise.
ListedIsServable == \A r \in files : Servable(r.id)

(***************************************************************************)
(* Liveness.                                                               *)
(***************************************************************************)

\* An upload whose body has arrived and a delete are answered, even if the
\* database never answers: the 5s deadlines of repository.go see to that.
Answered == \A w \in Workers : pc[w] \in Uploading \cup Deleting ~> pc[w] = "idle"
=============================================================================
