----------------------------- MODULE TransferPage -----------------------------
(***************************************************************************)
(* The SEND tab in the browser: the zone that takes the files, the list of *)
(* upload jobs, their XMLHttpRequests and the list of the user's files     *)
(* (frontend/app/transfer/page.tsx, components/UploadZone.tsx,             *)
(* components/Bits.tsx, lib/api.tsx, lib/format.ts).                       *)
(*                                                                         *)
(* JavaScript runs one callback at a time, but a callback only queues its  *)
(* setState.  The updates of a click or a drop are rendered before the     *)
(* next event; those of a network event are rendered some time later, and  *)
(* a click in between sees the page as it was rendered last.               *)
(*                                                                         *)
(* Upload u is one file the user picks; the stored file has its name.      *)
(* The selected job and its share button are the subject of ShareUi; names *)
(* and the rounding of sizes are left out.                                 *)
(***************************************************************************)
EXTENDS Integers, Sequences, FiniteSets, FiniteSetsExt, SequencesExt

CONSTANTS
  Uploads,
  Keys,
  KeyOf,     \* [Uploads -> Keys]: Date.now() and the name of the file
  Size,      \* [Uploads -> Nat]: the size of the file
  Envelope,  \* what the multipart body adds to it
  Faults,    \* what the network may do
  None

FaultKinds == {
  "upload",    \* an upload is refused, or its connection breaks
  "load",      \* GET /files fails
  "body",      \* an answer 200 or 201 breaks off in its body, which req takes for {}
  "reorder" }  \* the answers of two GET /files overtake each other

ASSUME UploadsAssumption == IsFiniteSet(Uploads)
ASSUME KeyAssumption == KeyOf \in [Uploads -> Keys] /\ None \notin Uploads \cup Keys
ASSUME SizeAssumption == Size \in [Uploads -> Nat] /\ Envelope \in Nat \ {0}
ASSUME FaultsAssumption == Faults \subseteq FaultKinds

\* speed: is there one?  error: is there a text?
Job == [key : Keys, of : Uploads, xhr : Uploads,
        status : {"active", "paused", "done", "error"},
        done : Nat, speed : BOOLEAN, error : BOOLEAN]

NoList == {None}   \* setFiles({})

Load == [served : BOOLEAN, list : SUBSET Uploads]
Unserved == [served |-> FALSE, list |-> {}]

VARIABLES
  jobs,      \* Seq(Job): the jobs, newest first, with every queued update
  shown,     \* the jobs as rendered; jobsRef.current
  request,   \* [Uploads -> ..]: the XMLHttpRequest of each upload
  sent,      \* [Uploads -> Nat]: the bytes of its body reported so far, while it is under way
  server,    \* the uploads that FileStore has stored
  loads,     \* the calls of api.files() under way, oldest first
  files,     \* the files on the page
  newest     \* history: is the answer to the latest of these calls on the page?

lists == <<loads, files, newest>>
vars == <<jobs, shown, request, sent, server, loads, files, newest>>

InFlight == {"sending", "created", "refused"}

Init ==
  /\ jobs = <<>> /\ shown = <<>>
  /\ request = [u \in Uploads |-> "unsent"]
  /\ sent = [u \in Uploads |-> 0]
  /\ server = {}
  /\ loads = <<Unserved>> /\ newest = "awaited"
  /\ files = {}

\* React renders.
Render(js) == jobs' = js /\ shown' = js

\* A job with some of its fields replaced.
Updated(j, fields) == [f \in DOMAIN j |-> IF f \in DOMAIN fields THEN fields[f] ELSE j[f]]

\* patch(): some fields of all the jobs of a key.
Patched(js, key, fields) ==
  [i \in DOMAIN js |-> IF js[i].key = key THEN Updated(js[i], fields) ELSE js[i]]

Paused == [status |-> "paused", speed |-> FALSE]
Failed == [status |-> "error", error |-> TRUE]
Done(u) == [status |-> "done", done |-> Size[u], speed |-> FALSE]

\* A callback of the network: its updates wait for the next rendering.
Queue(js) == jobs' = js /\ UNCHANGED shown

\* XMLHttpRequest.abort, or nobody is there to hear of it: no callback will run; a
\* request that has ended stays so.
Unheard(r) == CASE r = "sending" -> "abandoned"
                [] r \in {"created", "refused"} -> "over"
                [] OTHER -> r

Abort(u) ==
  /\ request' = [request EXCEPT ![u] = Unheard(@)]
  /\ sent' = [sent EXCEPT ![u] = 0]

(***************************************************************************)
(* What the user does.                                                     *)
(***************************************************************************)

NewJob(u) == [key |-> KeyOf[u], of |-> u, xhr |-> u, status |-> "active",
              done |-> 0, speed |-> FALSE, error |-> FALSE]

\* upload() of one file: a new job in front; its request replaces that of any job
\* of its key.
WithJob(js, u) == <<NewJob(u)>> \o Patched(js, KeyOf[u], [xhr |-> u])

\* upload() of a list of files, in its order.
Upload(list) ==
  /\ \A i \in DOMAIN list : request[list[i]] = "unsent"
  /\ Render(FoldLeft(WithJob, jobs, list))
  /\ request' = [u \in Uploads |-> IF u \in Range(list) THEN "sending" ELSE request[u]]

\* Files are dropped, or chosen in the dialog; a drop or a choice without any is
\* ignored.  The input is emptied, so that a file can be chosen again.
Pick(list) ==
  /\ list # <<>>
  /\ Upload(list)
  /\ UNCHANGED <<sent, server, lists>>

\* Faulty variant: the request goes on.
ClickPauseNoAbort(i) ==
  /\ shown[i].status = "active"
  /\ Render(Patched(jobs, shown[i].key, Paused))
  /\ UNCHANGED <<request, sent, server, lists>>

ClickPause(i) ==
  /\ shown[i].status = "active"
  /\ Abort(shown[i].xhr)
  /\ Render(Patched(jobs, shown[i].key, Paused))
  /\ UNCHANGED <<server, lists>>

\* Faulty variant: the status is not looked at.
ClickResumeAny(i) ==
  /\ shown[i].status # "active"
  /\ Render(Patched(jobs, shown[i].key, Failed))
  /\ UNCHANGED <<request, sent, server, lists>>

\* RESUME on a paused or failed job: its status is "error", and no request is sent.
ClickResume(i) ==
  /\ shown[i].status \in {"paused", "error"}
  /\ Render(Patched(jobs, shown[i].key, Failed))
  /\ UNCHANGED <<request, sent, server, lists>>

\* The jobs of other keys, in their order.
Without(js, key) ==
  FoldLeft(LAMBDA kept, j : IF j.key = key THEN kept ELSE Append(kept, j), <<>>, js)

\* remove(): the first job of that key is aborted, all of them go.
ClickDismiss(i) ==
  /\ LET key == shown[i].key
     IN  /\ Abort(shown[Min({j \in DOMAIN shown : shown[j].key = key})].xhr)
         /\ Render(Without(jobs, key))
  /\ UNCHANGED <<server, lists>>

\* To another page and back: the jobs are gone, their requests are not aborted, and
\* the list of files is fetched.
LeavePage ==
  /\ shown # <<>>
  /\ Render(<<>>)
  /\ request' = [u \in Uploads |-> Unheard(request[u])]
  /\ sent' = [u \in Uploads |-> 0]
  /\ loads' = <<Unserved>> /\ files' = {} /\ newest' = "awaited"
  /\ UNCHANGED server

(***************************************************************************)
(* Uploads.                                                                *)
(***************************************************************************)

\* The server has the whole body and stores the file, also for a page that no
\* longer listens.
ServerStores(u) ==
  /\ request[u] \in {"sending", "abandoned"}
  /\ request' = [request EXCEPT ![u] = IF @ = "sending" THEN "created" ELSE "over"]
  /\ server' = server \cup {u}
  /\ UNCHANGED <<jobs, shown, sent, lists>>

ServerRefuses(u) ==
  /\ "upload" \in Faults
  /\ request[u] = "sending"
  /\ request' = [request EXCEPT ![u] = "refused"]
  /\ UNCHANGED <<jobs, shown, sent, server, lists>>

\* upload.onprogress: loaded counts the bytes of the body, not of the file.
OnProgress(u) ==
  /\ request[u] \in InFlight
  /\ \E loaded \in sent[u] + 1 .. Size[u] + Envelope :
       /\ sent' = [sent EXCEPT ![u] = loaded]
       /\ Queue(Patched(jobs, KeyOf[u], [done |-> loaded, speed |-> TRUE]))
  /\ UNCHANGED <<request, server, lists>>

\* A callback that ends an upload patches its job.
End(u, fields) ==
  /\ request' = [request EXCEPT ![u] = "over"] /\ sent' = [sent EXCEPT ![u] = 0]
  /\ Queue(Patched(jobs, KeyOf[u], fields))
  /\ UNCHANGED server

\* Faulty variant: the list of files is not fetched again.
OnLoadNoRefresh(u) ==
  /\ request[u] = "created"
  /\ End(u, Done(u))
  /\ UNCHANGED lists

\* onload with status 201: the job is done and loadFiles() is called.
OnLoad(u) ==
  /\ request[u] = "created"
  /\ End(u, Done(u))
  /\ loads' = Append(loads, Unserved) /\ newest' = "awaited"
  /\ UNCHANGED files

\* Faulty variant: onload does nothing for another status than 201.
OnLoadNot201Ignored(u) ==
  /\ request[u] = "refused"
  /\ End(u, [xhr |-> u])
  /\ UNCHANGED lists

\* onload with another status, or with a body that JSON.parse refuses.
OnLoadNot201(u) ==
  /\ \/ request[u] = "refused"
     \/ request[u] = "created" /\ "upload" \in Faults
  /\ End(u, Failed)
  /\ UNCHANGED lists

\* onerror: the connection is gone; the server may store the file all the same.
OnError(u) ==
  /\ "upload" \in Faults
  /\ request[u] \in InFlight
  /\ Abort(u)
  /\ Queue(Patched(jobs, KeyOf[u], Failed))
  /\ UNCHANGED <<server, lists>>

\* The updates of the network events come onto the page.
RenderQueued ==
  /\ jobs # shown
  /\ Render(jobs)
  /\ UNCHANGED <<request, sent, server, lists>>

(***************************************************************************)
(* The list of files.                                                      *)
(***************************************************************************)

page == <<jobs, shown, request, sent, server>>

\* GET /files is answered with what is stored at that time.
LoadServed(i) ==
  /\ ~ loads[i].served
  /\ loads' = [loads EXCEPT ![i] = [served |-> TRUE, list |-> server]]
  /\ UNCHANGED <<page, files, newest>>

IsNewest(i) == newest = "awaited" /\ i = Len(loads)

\* setFiles, whatever has been set before.
LoadArrives(i) ==
  /\ loads[i].served
  /\ i = 1 \/ "reorder" \in Faults
  /\ files' = loads[i].list
  /\ loads' = RemoveAt(loads, i)
  /\ newest' = CASE IsNewest(i) -> "shown"
                 [] newest = "shown" -> "lost"
                 [] OTHER -> newest
  /\ UNCHANGED page

\* setFiles({}): LinkTab cannot be rendered from now on.
LoadBreaksOff(i) ==
  /\ "body" \in Faults
  /\ loads[i].served
  /\ files' = NoList
  /\ loads' = RemoveAt(loads, i)
  /\ newest' = IF IsNewest(i) \/ newest = "shown" THEN "lost" ELSE newest
  /\ UNCHANGED page

\* The error is swallowed.
LoadFails(i) ==
  /\ "load" \in Faults
  /\ loads' = RemoveAt(loads, i)
  /\ newest' = IF IsNewest(i) THEN "lost" ELSE newest
  /\ UNCHANGED <<page, files>>

(***************************************************************************)
(* What the rows say.                                                      *)
(***************************************************************************)

\* formatETA: is there a time to be told?
TimeIsKnown(j) == j.speed /\ j.done < Size[j.of]

\* What stands behind the bytes of a row.
Words(j) ==
  {w \in {"LEFT", "COMPLETE", "PAUSED", "ERROR"} :
     \/ w = "LEFT" /\ j.status = "active" /\ TimeIsKnown(j)
     \/ w = "COMPLETE" /\ j.status = "done"
     \/ w = "PAUSED" /\ j.status = "paused"
     \/ w = "ERROR" /\ j.error}

\* Faulty variant: not limited to 100.
BarUnlimited(j) == IF Size[j.of] = 0 THEN 0 ELSE (j.done * 100) \div Size[j.of]

\* ProgressBar: the percentage done, of an empty file 0.
Bar(j) == IF Size[j.of] = 0 THEN 0 ELSE Min({100, (j.done * 100) \div Size[j.of]})
-----------------------------------------------------------------------------
\* The lists of files that the user can pick.
Picks == UNION {SetToSeqs(S) : S \in SUBSET {u \in Uploads : request[u] = "unsent"}}

User ==
  \/ \E list \in Picks : Pick(list)
  \/ \E i \in DOMAIN shown : ClickPause(i) \/ ClickResume(i) \/ ClickDismiss(i)
  \/ LeavePage

Server(u) == ServerStores(u) \/ ServerRefuses(u)

Callback(u) == OnLoad(u) \/ OnLoadNot201(u) \/ OnError(u)

Lists == \E i \in DOMAIN loads : LoadServed(i) \/ LoadArrives(i) \/ LoadBreaksOff(i) \/ LoadFails(i)

Next ==
  \/ User
  \/ \E u \in Uploads : Server(u) \/ OnProgress(u) \/ Callback(u)
  \/ Lists \/ RenderQueued

Spec == Init /\ [][Next]_vars

\* The server answers every upload somebody waits for, the browser runs the
\* callback, and React renders.
Fairness ==
  /\ WF_vars(RenderQueued)
  /\ \A u \in Uploads :
       WF_vars(request[u] = "sending" /\ Server(u)) /\ WF_vars(Callback(u))

FairSpec == Spec /\ Fairness
-----------------------------------------------------------------------------
\* A request is under way exactly for the jobs that are active: a paused or a
\* dismissed job does not go on behind the page, and an active job will hear of
\* its end, also if a click meets a job whose new status is not rendered yet
\* (page.tsx, togglePause and remove).
ActiveIffInFlight ==
  \A u \in Uploads :
    request[u] \in InFlight <=> \E i \in DOMAIN jobs : jobs[i].of = u /\ jobs[i].status = "active"

\* A row that says COMPLETE, or how much time is LEFT, does not report an error as
\* well: no text of an earlier failure outlives it, and nothing more happens to a job
\* that has failed (page.tsx, the row of SendTab, togglePause and the callbacks).
OneOutcome ==
  \A i \in DOMAIN shown : Cardinality(Words(shown[i]) \ {"PAUSED"}) <= 1

\* Once the page has shown COMPLETE for a job, it never shows anything else for it
\* (page.tsx, togglePause).
CompleteStaysComplete ==
  [][\A i \in DOMAIN shown, j \in DOMAIN shown' :
       shown[i].status = "done" /\ shown'[j].of = shown[i].of => shown'[j].status = "done"]_vars

\* The bar of a job never moves backwards, although onprogress counts the bytes of
\* the multipart body and onload sets those of the file (page.tsx, onprogress, onload
\* and togglePause; Bits.tsx, ProgressBar).
BarNeverFallsBack ==
  [][\A i \in DOMAIN shown, j \in DOMAIN shown' :
       shown'[j].of = shown[i].of => Bar(shown'[j]) >= Bar(shown[i])]_vars

\* Whenever the page shows the answer to its latest call of api.files(), it lists
\* every file whose upload it calls COMPLETE: loadFiles is called after the server
\* has stored the file, and again for each of them (page.tsx, onload).
CompleteIsListed ==
  newest = "shown" => \A i \in DOMAIN jobs : jobs[i].status = "done" => jobs[i].of \in files

\* Every job that is shown active ends: COMPLETE, failed, paused, dismissed, or gone
\* with its page.
JobsSettle ==
  \A k \in Keys :
    LET active == \E i \in DOMAIN shown : shown[i].key = k /\ shown[i].status = "active"
    IN  active ~> ~ active
=============================================================================
