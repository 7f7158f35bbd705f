------------------------------ MODULE ShareLinks ------------------------------
(***************************************************************************)
(* Public share links: the shares table and the requests that create,      *)
(* revoke and follow a link (backend/internal/files).                      *)
(*                                                                         *)
(* The files are those of FileLife, which FileStore implements; the        *)
(* foreign key of shares.file_id cascades their deletion to the links.     *)
(* Every handler reads the database in one statement and acts on what it   *)
(* has read in a later one, while other requests, and the clock, go on.    *)
(*                                                                         *)
(* A link is known by the id of its row.  The token, which only the answer *)
(* of CreateShare discloses, and its hash in the table stand for the same. *)
(***************************************************************************)
EXTENDS Integers

CONSTANTS
  Workers,  \* the request goroutines
  Users,
  FileIds,
  Owner,    \* [FileIds -> Users]
  ShareIds,
  Ttls,     \* the values of expires_in_seconds that are sent, Never if it is absent
  MaxNow,   \* bound: the clock stops there
  Never,    \* no expiry
  None      \* no row

ASSUME OwnerAssumption == Owner \in [FileIds -> Users]
ASSUME TtlsAssumption == Ttls \subseteq (Nat \ {0}) \cup {Never}
ASSUME ClockAssumption == MaxNow \in Nat /\ Never \notin Nat

Row == [file : FileIds, expires : Nat \cup {Never}, revoked : BOOLEAN]

ASSUME NoRowAssumption == None \notin Row

VARIABLES
  life,     \* FileLife: what has become of each file
  doomed,   \* FileLife: the files whose deletion was asked for
  share,    \* the shares table: [ShareIds -> Row \cup {None}]
  used,     \* the ids and tokens drawn so far: both are random and never repeat
  late,     \* statements nobody waits for that may still execute
  now,      \* the clock
  pc,       \* where each worker is
  target,   \* the share a worker creates, revokes or follows
  row,      \* the row it will insert, or the row it has read
  caller,   \* the signed-in user of a create or a revoke
  granted,  \* history: the rows that were answered 201, with their token
  asked,    \* history: <<share, user>> of every DELETE /shares/{id}
  closed,   \* history: the shares whose revocation was answered 204
  stale     \* history: was the link dead when this download arrived?

files == <<life, doomed>>
local == <<pc, target, row, caller, stale>>
history == <<granted, asked, closed>>
vars == <<life, doomed, share, used, late, now, pc, target, row, caller, granted, asked,
          closed, stale>>

Life == INSTANCE FileLife WITH promised <- {}

Stages == {"idle", "creating", "created", "revoking", "revoked",
           "token", "row", "admitted", "serving"}

Statement == [op : {"insert", "revoke"}, id : ShareIds, row : Row \cup {None}, user : Users]

FileListed(f) == life[f] = "listed"

Init ==
  /\ Life!Init
  /\ share = [s \in ShareIds |-> None]
  /\ used = {} /\ late = {}
  /\ now = 0
  /\ pc = [w \in Workers |-> "idle"]
  /\ target = [w \in Workers |-> None]
  /\ row = [w \in Workers |-> None]
  /\ caller = [w \in Workers |-> None]
  /\ stale = [w \in Workers |-> FALSE]
  /\ granted = [s \in ShareIds |-> None]
  /\ asked = {} /\ closed = {}

Goto(w, stage) ==
  /\ pc' = [pc EXCEPT ![w] = stage]
  /\ UNCHANGED <<target, caller, stale>>

Begin(w, stage, s, r, u) ==
  /\ pc[w] = "idle"
  /\ pc' = [pc EXCEPT ![w] = stage]
  /\ target' = [target EXCEPT ![w] = s]
  /\ row' = [row EXCEPT ![w] = r]
  /\ caller' = [caller EXCEPT ![w] = u]

\* The handler has answered.
Finish(w) ==
  /\ pc' = [pc EXCEPT ![w] = "idle"]
  /\ target' = [target EXCEPT ![w] = None]
  /\ row' = [row EXCEPT ![w] = None]
  /\ caller' = [caller EXCEPT ![w] = None]
  /\ stale' = [stale EXCEPT ![w] = FALSE]

StatementOf(w) ==
  [op |-> IF pc[w] = "creating" THEN "insert" ELSE "revoke",
   id |-> target[w], row |-> row[w], user |-> caller[w]]

(***************************************************************************)
(* The files.                                                              *)
(***************************************************************************)

FileUploaded(f) ==
  /\ Life!Appear(f)
  /\ UNCHANGED <<share, used, late, now, local, history>>

FileDeleteAsked(f) ==
  /\ Life!AskDelete(f)
  /\ UNCHANGED <<share, used, late, now, local, history>>

\* REFERENCES files(id) ON DELETE CASCADE
FileErased(f) ==
  /\ Life!Erase(f)
  /\ share' = [s \in ShareIds |->
                 IF share[s] # None /\ share[s].file = f THEN None ELSE share[s]]
  /\ UNCHANGED <<used, late, now, local, history>>

(***************************************************************************)
(* POST /files/{id}/shares                                                 *)
(***************************************************************************)

\* Faulty variant: the expiry of the request is ignored.
ExpiryForgotten(ttl) == Never

Expiry(ttl) == IF ttl = Never THEN Never ELSE now + ttl

\* GetFileByID finds a file of the caller's; the expiry is computed and the token
\* drawn.  A missing or foreign file (404) or a bad body (400) changes nothing.
\* Bound: no expiry at or after MaxNow, where the clock stops.
CreateLookup(w, f, ttl) ==
  /\ FileListed(f)
  /\ ttl # Never => now + ttl < MaxNow
  /\ \E s \in ShareIds \ used :
       /\ Begin(w, "creating", s, [file |-> f, expires |-> Expiry(ttl), revoked |-> FALSE], Owner[f])
       /\ used' = used \cup {s}
  /\ UNCHANGED <<files, share, late, now, stale, history>>

\* Faulty variant: shares.file_id has no foreign key.
InsertUnreferenced(s, r) == share' = [share EXCEPT ![s] = r]

\* INSERT INTO shares; the foreign key wants the file to be there still.
Insert(s, r) ==
  /\ FileListed(r.file)
  /\ share' = [share EXCEPT ![s] = r]

ShareInsert(w) ==
  /\ pc[w] = "creating"
  /\ Insert(target[w], row[w])
  /\ Goto(w, "created")
  /\ UNCHANGED <<files, used, late, now, row, history>>

\* The foreign key refuses it: 500.
ShareInsertRefused(w) ==
  /\ pc[w] = "creating"
  /\ ~ FileListed(row[w].file)
  /\ Finish(w)
  /\ UNCHANGED <<files, share, used, late, now, history>>

\* 201, with the raw token.
CreateAnswered(w) ==
  /\ pc[w] = "created"
  /\ granted' = [granted EXCEPT ![target[w]] = row[w]]
  /\ Finish(w)
  /\ UNCHANGED <<files, share, used, late, now, asked, closed>>

(***************************************************************************)
(* DELETE /shares/{id}                                                     *)
(***************************************************************************)

RevokeSend(w, u, s) ==
  /\ Begin(w, "revoking", s, None, u)
  /\ asked' = asked \cup {<<s, u>>}
  /\ UNCHANGED <<files, share, used, late, now, stale, granted, closed>>

\* Faulty variant: the owner of the file is not compared.
RevocableByAnyone(s, u) == share[s] # None

\* UPDATE shares .. WHERE the share's file belongs to the caller
Revocable(s, u) == share[s] # None /\ Owner[share[s].file] = u

Revoke(s) == share' = [share EXCEPT ![s].revoked = TRUE]

ShareRevoke(w) ==
  /\ pc[w] = "revoking"
  /\ Revocable(target[w], caller[w])
  /\ Revoke(target[w])
  /\ Goto(w, "revoked")
  /\ UNCHANGED <<files, used, late, now, row, history>>

\* Faulty variant: RowsAffected is not looked at.
ShareRevokeNoRowsUnnoticed(w) ==
  /\ pc[w] = "revoking"
  /\ ~ Revocable(target[w], caller[w])
  /\ Goto(w, "revoked")
  /\ UNCHANGED <<files, share, used, late, now, row, history>>

\* RowsAffected is 0: 404.
ShareRevokeNoRows(w) ==
  /\ pc[w] = "revoking"
  /\ ~ Revocable(target[w], caller[w])
  /\ Finish(w)
  /\ UNCHANGED <<files, share, used, late, now, history>>

\* 204
RevokeAnswered(w) ==
  /\ pc[w] = "revoked"
  /\ closed' = closed \cup {target[w]}
  /\ Finish(w)
  /\ UNCHANGED <<files, share, used, late, now, granted, asked>>

(***************************************************************************)
(* GET /s/{token}                                                          *)
(***************************************************************************)

Expired(r) == r.expires # Never /\ now > r.expires

\* A link that nobody may follow any more, now or later.
Dead(s) == share[s] = None \/ share[s].revoked \/ Expired(share[s])

\* The request arrives with the token of a link that was answered 201.
LinkFollowed(w, s) ==
  /\ granted[s] # None
  /\ Begin(w, "token", s, None, None)
  /\ stale' = [stale EXCEPT ![w] = Dead(s)]
  /\ UNCHANGED <<files, share, used, late, now, history>>

\* Faulty variant: sql.ErrNoRows is not an error.
LinkLookupNoRows(w) ==
  /\ pc[w] = "token"
  /\ row' = [row EXCEPT ![w] = share[target[w]]]
  /\ Goto(w, "row")
  /\ UNCHANGED <<files, share, used, late, now, history>>

\* GetShareByTokenHash returns a copy of the row.
LinkLookup(w) ==
  /\ pc[w] = "token"
  /\ share[target[w]] # None
  /\ row' = [row EXCEPT ![w] = share[target[w]]]
  /\ Goto(w, "row")
  /\ UNCHANGED <<files, share, used, late, now, history>>

\* 404
LinkUnknown(w) ==
  /\ pc[w] = "token"
  /\ share[target[w]] = None
  /\ Finish(w)
  /\ UNCHANGED <<files, share, used, late, now, history>>

\* The copy says revoked, or expired by time.Now(): 410.
LinkRefused(w) ==
  /\ pc[w] = "row"
  /\ row[w].revoked \/ Expired(row[w])
  /\ Finish(w)
  /\ UNCHANGED <<files, share, used, late, now, history>>

\* Faulty variant: the expiry is not looked at.
LinkAdmittedExpired(w) ==
  /\ pc[w] = "row"
  /\ ~ row[w].revoked
  /\ Goto(w, "admitted")
  /\ UNCHANGED <<files, share, used, late, now, row, history>>

LinkAdmitted(w) ==
  /\ pc[w] = "row"
  /\ ~ row[w].revoked /\ ~ Expired(row[w])
  /\ Goto(w, "admitted")
  /\ UNCHANGED <<files, share, used, late, now, row, history>>

\* GetFileByID finds the file: its content is sent.
LinkServed(w) ==
  /\ pc[w] = "admitted"
  /\ FileListed(row[w].file)
  /\ Goto(w, "serving")
  /\ UNCHANGED <<files, share, used, late, now, row, history>>

\* 404
LinkFileGone(w) ==
  /\ pc[w] = "admitted"
  /\ ~ FileListed(row[w].file)
  /\ Finish(w)
  /\ UNCHANGED <<files, share, used, late, now, history>>

LinkDone(w) ==
  /\ pc[w] = "serving"
  /\ Finish(w)
  /\ UNCHANGED <<files, share, used, late, now, history>>

(***************************************************************************)
(* Faults and the clock.                                                   *)
(***************************************************************************)

\* A statement fails, its 5s deadline passes, the client goes away or the process
\* dies: the request ends without its answer.  A statement that was sent may
\* still execute.
GiveUp(w) ==
  /\ pc[w] # "idle"
  /\ late' = late \cup IF pc[w] \in {"creating", "revoking"} THEN {StatementOf(w)} ELSE {}
  /\ Finish(w)
  /\ UNCHANGED <<files, share, used, now, history>>

LateInsert(t) ==
  /\ t.op = "insert"
  /\ Insert(t.id, t.row)
  /\ late' = late \ {t}
  /\ UNCHANGED <<files, used, now, local, history>>

LateRevoke(t) ==
  /\ t.op = "revoke"
  /\ Revocable(t.id, t.user)
  /\ Revoke(t.id)
  /\ late' = late \ {t}
  /\ UNCHANGED <<files, used, now, local, history>>

LateDrop(t) ==
  /\ late' = late \ {t}
  /\ UNCHANGED <<files, share, used, now, local, history>>

Tick ==
  /\ now < MaxNow
  /\ now' = now + 1
  /\ UNCHANGED <<files, share, used, late, local, history>>
-----------------------------------------------------------------------------
Files(f) == FileUploaded(f) \/ FileDeleteAsked(f) \/ FileErased(f)

Create(w) ==
  \/ \E f \in FileIds, ttl \in Ttls : CreateLookup(w, f, ttl)
  \/ ShareInsert(w) \/ ShareInsertRefused(w) \/ CreateAnswered(w)

Revocation(w) ==
  \/ \E u \in Users, s \in used : RevokeSend(w, u, s)
  \/ ShareRevoke(w) \/ ShareRevokeNoRows(w) \/ RevokeAnswered(w)

Follow(w) ==
  \/ \E s \in ShareIds : LinkFollowed(w, s)
  \/ LinkLookup(w) \/ LinkUnknown(w) \/ LinkRefused(w) \/ LinkAdmitted(w)
  \/ LinkServed(w) \/ LinkFileGone(w) \/ LinkDone(w)

LateStatement(t) == LateInsert(t) \/ LateRevoke(t) \/ LateDrop(t)

Next ==
  \/ \E f \in FileIds : Files(f)
  \/ \E w \in Workers : Create(w) \/ Revocation(w) \/ Follow(w) \/ GiveUp(w)
  \/ \E t \in late : LateStatement(t)
  \/ Tick

Spec == Init /\ [][Next]_vars

\* Time goes on.
FairSpec == Spec /\ WF_vars(Tick)
-----------------------------------------------------------------------------
(* Every variable has its type; a worker has what its stage needs. *)
TypeOK ==
  /\ life \in [FileIds -> {"absent", "listed", "deleted"}]
  /\ doomed \subseteq FileIds
  /\ share \in [ShareIds -> Row \cup {None}]
  /\ used \subseteq ShareIds
  /\ late \subseteq Statement
  /\ now \in Nat
  /\ pc \in [Workers -> Stages]
  /\ target \in [Workers -> ShareIds \cup {None}]
  /\ row \in [Workers -> Row \cup {None}]
  /\ caller \in [Workers -> Users \cup {None}]
  /\ stale \in [Workers -> BOOLEAN]
  /\ granted \in [ShareIds -> Row \cup {None}]
  /\ asked \subseteq ShareIds \X Users
  /\ closed \subseteq ShareIds
  /\ \A w \in Workers :
       /\ pc[w] # "idle" => target[w] \in ShareIds
       /\ pc[w] \in {"creating", "created", "row", "admitted", "serving"} => row[w] \in Row
       /\ pc[w] \in {"creating", "created", "revoking", "revoked"} => caller[w] \in Users

\* A link always leads to a file: a file deleted between the check and the INSERT
\* of CreateShare, or before a late INSERT, leaves none behind (handler.go,
\* CreateShare; 0001_init.up.sql, shares.file_id).
NoDanglingLink == \A s \in ShareIds : share[s] # None => FileListed(share[s].file)

\* A download that arrives when its link is revoked, expired or gone with its
\* file is never served, however its reads interleave with other requests
\* (handler.go, PublicDownload).
NoServiceFromDeadLink == \A w \in Workers : pc[w] = "serving" => ~ stale[w]

\* An answered revocation is final: no late INSERT or UPDATE, and no other request,
\* makes the link usable again (repository.go, RevokeShare).
ClosedForGood == \A s \in closed : share[s] = None \/ share[s].revoked

\* A link that was answered 201 works until it expires, unless its file is
\* deleted or the owner of the file asks for its revocation; nobody else can end
\* it (repository.go, RevokeShare joins files on owner_id).
GrantedLinksWork ==
  \A s \in ShareIds : granted[s] # None =>
    LET f == granted[s].file IN
      /\ share[s] = None => life[f] = "deleted"
      /\ share[s] # None =>
           /\ share[s].file = f /\ share[s].expires = granted[s].expires
           /\ share[s].revoked => <<s, Owner[f]>> \in asked

\* A link somebody was given stops working (page.tsx, ReceiveTab: "LINKS EXPIRE").
LinksExpire == \A s \in ShareIds : granted[s] # None ~> Dead(s)
=============================================================================
