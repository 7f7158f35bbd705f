------------------------------- MODULE Resources -------------------------------
(***************************************************************************)
(* What requests hold while they are served: the temporary files of the    *)
(* multipart parser and the connections of the pool (backend/internal/     *)
(* files/handler.go Upload, repository.go CreateFile, auth/repository.go,  *)
(* db/postgres.go).                                                        *)
(*                                                                         *)
(* A worker serves an upload up to and after the copy into the blob, which *)
(* is the subject of FileStore, or a request of the auth handlers, each of *)
(* which makes one query without a deadline.  Sizes count units, of which  *)
(* the parser keeps MaxMemory and MaxUpload make the announced limit.      *)
(***************************************************************************)
EXTENDS Integers, FiniteSets

CONSTANTS
  Workers,
  MaxConns,    \* SetMaxOpenConns
  MaxMemory,   \* maxMemory
  MaxUpload,   \* MaxUploadBytes
  Slack,       \* the 10 MB on top of it
  Envelope,    \* what the multipart body adds to the file
  Sizes,       \* the sizes of files that clients send
  MaxCrashes,  \* bound
  None

ASSUME LimitsAssumption ==
  /\ MaxConns \in Nat /\ MaxMemory \in Nat /\ MaxUpload \in Nat /\ MaxCrashes \in Nat
  /\ Sizes \subseteq Nat
  /\ Envelope \in Nat /\ Slack \in Nat /\ Envelope <= Slack

ASSUME WorkersAssumption == IsFiniteSet(Workers)
ASSUME NoneAssumption == None # "too large"

VARIABLES
  pc,       \* where each worker is
  kind,     \* what it serves
  size,     \* the size of the file it is sent
  named,    \* is the file in the form field "file"?
  read,     \* how much of the body it has read
  temp,     \* the workers whose temporary file is on the disk
  inUse,    \* the connections of the pool that are in use
  answer,   \* [Workers -> ..]: the last status it has answered
  orphans,  \* history: the temporary files left by a crash, or that could not be removed
  crashes   \* bound

request == <<kind, size, named>>
vars == <<pc, kind, size, named, read, temp, inUse, answer, orphans, crashes>>

Body(w) == size[w] + Envelope

\* Faulty variant: the limit leaves no room for the multipart envelope.
ReadLimitBare == MaxUpload

ReadLimit == MaxUpload + Slack

Goto(w, l) == pc' = [pc EXCEPT ![w] = l]
Answer(w, status) == answer' = [answer EXCEPT ![w] = status]

Init ==
  /\ pc = [w \in Workers |-> "idle"]
  /\ kind = [w \in Workers |-> "auth"] /\ size = [w \in Workers |-> 0]
  /\ named = [w \in Workers |-> TRUE] /\ read = [w \in Workers |-> 0]
  /\ temp = {} /\ inUse = 0
  /\ answer = [w \in Workers |-> None]
  /\ orphans = {} /\ crashes = 0

(***************************************************************************)
(* Upload.                                                                 *)
(***************************************************************************)

UploadBegins(w) ==
  /\ pc[w] = "idle" /\ w \notin temp
  /\ \E s \in Sizes, field \in BOOLEAN :
       size' = [size EXCEPT ![w] = s] /\ named' = [named EXCEPT ![w] = field]
  /\ kind' = [kind EXCEPT ![w] = "upload"]
  /\ read' = [read EXCEPT ![w] = 0]
  /\ Goto(w, "parse") /\ Answer(w, None)
  /\ UNCHANGED <<temp, inUse, orphans, crashes>>

\* ParseMultipartForm reads on; beyond maxMemory it writes the file to the disk.
ReadUnit(w) ==
  /\ pc[w] = "parse"
  /\ read[w] < Body(w) /\ read[w] < ReadLimit
  /\ read' = [read EXCEPT ![w] = @ + 1]
  /\ temp' = IF read'[w] > MaxMemory THEN temp \cup {w} ELSE temp
  /\ UNCHANGED <<pc, request, inUse, answer, orphans, crashes>>

\* RemoveAll, whose error nobody looks at.
RemoveTemp(w) ==
  \/ temp' = temp \ {w} /\ UNCHANGED orphans
  \/ w \in temp /\ orphans' = orphans \cup {w} /\ UNCHANGED temp

\* MaxBytesReader, or a client that breaks off: 400.  The parser removes its file.
ParseFails(w) ==
  /\ pc[w] = "parse" /\ read[w] < Body(w)
  /\ Answer(w, IF read[w] < ReadLimit THEN "broken" ELSE "too large")
  /\ RemoveTemp(w)
  /\ Goto(w, "idle")
  /\ UNCHANGED <<request, read, inUse, crashes>>

\* Faulty variant: RemoveAll is only deferred once the form field is there.
ParsedLeaky(w) ==
  /\ pc[w] = "parse" /\ read[w] = Body(w)
  /\ \/ named[w] /\ Goto(w, "copy") /\ UNCHANGED answer
     \/ ~ named[w] /\ Goto(w, "idle") /\ Answer(w, "refused")
  /\ UNCHANGED <<request, read, temp, inUse, orphans, crashes>>

\* The body is parsed; without the form field "file" the answer is 400.
Parsed(w) ==
  /\ pc[w] = "parse" /\ read[w] = Body(w)
  /\ \/ named[w] /\ Goto(w, "copy") /\ UNCHANGED answer
     \/ ~ named[w] /\ Goto(w, "answered") /\ Answer(w, "refused")
  /\ UNCHANGED <<request, read, temp, inUse, orphans, crashes>>

\* The copy into the blob; it may fail.
Copied(w) ==
  /\ pc[w] = "copy"
  /\ \/ Goto(w, "wait") /\ UNCHANGED answer
     \/ Goto(w, "answered") /\ Answer(w, "failed")
  /\ UNCHANGED <<request, read, temp, inUse, orphans, crashes>>

\* The deferred RemoveAll.
Cleanup(w) ==
  /\ pc[w] = "answered"
  /\ Goto(w, "idle")
  /\ RemoveTemp(w)
  /\ UNCHANGED <<request, read, inUse, answer, crashes>>

(***************************************************************************)
(* The database.                                                           *)
(***************************************************************************)

AuthBegins(w) ==
  /\ pc[w] = "idle"
  /\ kind' = [kind EXCEPT ![w] = "auth"]
  /\ Goto(w, "wait") /\ Answer(w, None)
  /\ UNCHANGED <<size, named, read, temp, inUse, orphans, crashes>>

\* A connection is free.
Acquire(w) ==
  /\ pc[w] = "wait" /\ inUse < MaxConns
  /\ inUse' = inUse + 1
  /\ Goto(w, "query")
  /\ UNCHANGED <<request, read, temp, answer, orphans, crashes>>

\* The connection goes back, or is closed.
Release(w) == inUse' = IF pc[w] = "query" THEN inUse - 1 ELSE inUse

Ended(w, status) ==
  /\ Goto(w, IF kind[w] = "upload" THEN "answered" ELSE "idle")
  /\ Answer(w, status)

DbAnswers(w) ==
  /\ pc[w] = "query"
  /\ Release(w)
  /\ Ended(w, "stored")
  /\ UNCHANGED <<request, read, temp, orphans, crashes>>

\* Faulty variant: the connection of an abandoned query stays taken.
DeadlineKeepsConn(w) ==
  /\ kind[w] = "upload" /\ pc[w] \in {"wait", "query"}
  /\ inUse' = inUse
  /\ Ended(w, "failed")
  /\ UNCHANGED <<request, read, temp, orphans, crashes>>

\* Faulty variant: the time spent waiting for a connection does not count.
DeadlineOfQuery(w) ==
  /\ kind[w] = "upload" /\ pc[w] = "query"
  /\ Release(w)
  /\ Ended(w, "failed")
  /\ UNCHANGED <<request, read, temp, orphans, crashes>>

\* The 5 s of CreateFile begin before it has a connection.
Deadline(w) ==
  /\ kind[w] = "upload" /\ pc[w] \in {"wait", "query"}
  /\ Release(w)
  /\ Ended(w, "failed")
  /\ UNCHANGED <<request, read, temp, orphans, crashes>>

\* The context of the request ends with its client.
ClientLeaves(w) ==
  /\ pc[w] \in {"wait", "query"}
  /\ Release(w)
  /\ Ended(w, "failed")
  /\ UNCHANGED <<request, read, temp, orphans, crashes>>

\* The process dies and starts again; nothing looks for temporary files.
Crash ==
  /\ crashes < MaxCrashes
  /\ crashes' = crashes + 1
  /\ pc' = [w \in Workers |-> "idle"] /\ inUse' = 0
  /\ answer' = [w \in Workers |-> None]
  /\ orphans' = orphans \cup temp
  /\ UNCHANGED <<request, read, temp>>
-----------------------------------------------------------------------------
Work(w) == ReadUnit(w) \/ ParseFails(w) \/ Parsed(w) \/ Copied(w) \/ Cleanup(w)

Next ==
  \/ \E w \in Workers :
       \/ UploadBegins(w) \/ Work(w)
       \/ AuthBegins(w) \/ Acquire(w) \/ DbAnswers(w) \/ Deadline(w) \/ ClientLeaves(w)
  \/ Crash

Spec == Init /\ [][Next]_vars

\* A handler goes on by itself (a client that stalls in its body is left out), and the
\* timer of CreateFile fires.  The database need not answer.
Fairness == \A w \in Workers : WF_vars(Work(w)) /\ WF_vars(Deadline(w))

FairSpec == Spec /\ Fairness
-----------------------------------------------------------------------------
\* Only an upload reads a body, copies it and has something to clean up.
UploadSteps == \A w \in Workers : pc[w] \in {"parse", "copy", "answered"} => kind[w] = "upload"

(* Every variable has its type. *)
TypeOK ==
  /\ pc \in [Workers -> {"idle", "parse", "copy", "wait", "query", "answered"}]
  /\ kind \in [Workers -> {"upload", "auth"}] /\ size \in [Workers -> Sizes \cup {0}]
  /\ named \in [Workers -> BOOLEAN] /\ read \in [Workers -> 0 .. ReadLimit]
  /\ temp \subseteq Workers /\ orphans \subseteq Workers
  /\ inUse \in 0 .. MaxConns /\ crashes \in 0 .. MaxCrashes
  /\ answer \in [Workers -> {None, "stored", "failed", "refused", "broken", "too large"}]

\* The plaintext of an upload does not stay on the disk after its request, whichever
\* step fails, unless the process dies or the file cannot be removed (handler.go,
\* Upload: defer RemoveAll).
TempFilesAreOwned ==
  temp \subseteq orphans \cup {w \in Workers : kind[w] = "upload" /\ pc[w] # "idle"}

\* A file of the announced size is never refused as too large, although the limit is on
\* the whole body (handler.go, MaxBytesReader).
FitsIfAnnounced ==
  \A w \in Workers : answer[w] = "too large" => size[w] > MaxUpload

\* A connection of the pool is in use for each query under way, and for nothing else:
\* none is lost with a deadline, a client that leaves or a failure (repository.go).
NoConnectionLost == inUse = Cardinality({w \in Workers : pc[w] = "query"})

\* Every upload is answered and leaves, also if each connection is held by a query of
\* the auth handlers that the database never answers (repository.go, CreateFile).
UploadsEnd ==
  \A w \in Workers : kind[w] = "upload" /\ pc[w] # "idle" ~> pc[w] = "idle"
=============================================================================
