# PoryFlux: a verification project

PoryFlux is a small file-sharing service: a Go backend that stores encrypted files and hands out
public links, PostgreSQL, a storage directory, and a Next.js frontend. This directory holds TLA+
models of its core logic, TLC runs over small instances of them, and TLAPS proofs of the safety
properties for every instance. Paths below are relative to `src/src/` of the repository unless
they say otherwise.

```
tlc  -workers 2 -config store_faults.cfg MCFileStore.tla     # one model-checking run
tlapm FileStoreProofs.tla                                    # one module of proofs
```

`PROJECT.json` lists, in a form for tools, the components, the runs, for every property a variant
of the code that breaks it, the source lines behind every definition, the hazards, the
disagreements found and the theorems.

## 1. The system

```
 browser                              backend (one process)              stores
 -------                              ---------------------              ------
 AuthProvider, login page  --cookie-> auth.Handler, RequireAuth  ------> users
 transfer page: jobs, XHR  --POST --> files.Handler.Upload
                                        Service.Upload  ---------------> STORAGE_DIR/<id>
                                        Repository.CreateFile ---------> files
                list       --GET  --> List / Download / Delete --------> files, STORAGE_DIR
                share btn  --POST --> CreateShare / RevokeShare -------> shares (FK -> files, cascade)
 anybody with a link       --GET  --> PublicDownload -> serveDecrypted
```

| Component | State | Operations | Modelled by |
|---|---|---|---|
| file store (`backend/internal/files/{service,repository,handler}.go`) | `files` table, blobs in the storage directory, one goroutine per request | upload, list, download, delete | `FileStore`, `FileLife` |
| share links (`files/handler.go`, `files/repository.go`, `migrations/0001_init.up.sql`) | `shares` table | create, revoke, follow | `ShareLinks` over `FileLife` |
| range download (`files/handler.go` `parseRange`, `serveDecrypted`) | positions in blob and keystream | parse, seek, copy | `RangeServe` |
| counter arithmetic and keys (`crypto/crypto.go`) | the counter block of a stream | jump to a block, walk block by block; master key | `CtrSeek` over `RangeServe`; the master key is left out |
| upload intake (`files/handler.go` up to the answer) | temporary files of the multipart parser | limit, parse, spill, clean up | `Resources` |
| connection pool (`db/postgres.go`) | ten connections | wait, acquire, release | `Resources` |
| accounts and sessions (`backend/internal/auth`, `middleware/auth.go`) | `users` table, JWT in a cookie | register, login, logout, me | `AuthSession` (partly) |
| browser session (`frontend/lib/api.tsx`, `app/login/page.tsx`) | `user`, `loading`, the form, calls under way | refresh, submit, sign out, reload | `AuthSession`, `Site` |
| navigation (`components/{Navbar,Sidebar,Footer}.tsx`, the pages) | the session history, the menu, the form | links, Back, guard, router.push | `Site` |
| theme (`components/ThemeToggle.tsx`, `app/layout.tsx`) | `localStorage`, the class of `html`, the state of each button | load, toggle, resize | `Theme` |
| transfer page: uploads (`app/transfer/page.tsx`, `components/UploadZone.tsx`) | jobs, requests, list of files | pick, progress, pause, resume, dismiss, leave, callbacks | `TransferPage` |
| transfer page: links (the same file) | the share button, the rows of LINK, clipboard, the field of RECEIVE | create, copy, paste, switch tabs | `ShareUi` |
| CORS and routing (`middleware/cors.go`, `cmd/server/main.go`) | none | a filter on one header | not modelled |
| landing page, drawings, build files | none | its links | `Site` has the links |

The components meet in five places. The file store and the share links share the `files` table
through a foreign key that cascades deletions. `PublicDownload` and `Download` both end in
`serveDecrypted`. The transfer page drives the file store and the links by HTTP, and hears of the
result in a callback. The session decides on whose behalf that is, by a cookie that every request
carries. All goroutines share the pool of database connections.

What is hard about it:

* The database and the storage directory have no common transaction. An upload is blob, then
  row; a delete is row, then blob. Any step can fail, be cut off or be the last one of the process.
* Every statement runs under a context: the request's, with a deadline of 5 s in `files`. When it
  ends, the handler sees an error and does not know whether the statement was, or will be, executed.
* Handlers read a row in one statement and act on the copy in a later one, while other goroutines
  and the clock go on.
* In the browser, callbacks of the network meet clicks. A click sees the page as rendered last.
  Answers of two calls can overtake each other.
* The download arithmetic (ranges, blocks, partial reads, the carry of the counter) turns an error
  into noise that no status code shows.
* A request holds a temporary file and a connection while it is served, and can end at any step.
* The pages redirect each other: the guard, `submit` and the user all change the address.

What makes each component correct:

* file store: a file answered 201 is kept; rows describe whole blobs; a listed file can be
  downloaded; an open download is not cut short; one of several deletes wins; no blob stays
  without a row; every upload and delete is answered.
* share links: no link without a file; a dead link is never served; a revocation is final; a link
  works until it expires or its owner ends it; links expire.
* range download: what is announced is what was asked for; what is sent is its plaintext, in full.
* session: the page shows the user of its cookie; signing out ends the session; of two
  registrations of one email the one that was answered 201 holds.
* upload intake and pool: no temporary file and no connection outlives its request; the announced
  size always fits; every upload ends, even if the database is silent.
* navigation and theme: nobody who has just signed in is sent back to the form; no skeleton stays;
  the form says one thing; the chosen theme stays.
* transfer page: a request is under way exactly for the active jobs; COMPLETE stays and reaches the
  list; a row reports one outcome; bars do not fall back; every active job ends. A link is that of the
  file it is shown with, and what is pasted downloads it.

## 2. The modules

| Module | What it is |
|---|---|
| `FileLife` | the abstract specification: the life of a file (absent, listed, deleted) and the promises made about it |
| `FileStore` | uploads, deletes and downloads, step by step, with all faults |
| `FileStoreInv`, `FileStoreProofs` | its inductive invariants, and the proofs |
| `ShareLinks` | links, composed with an instance of `FileLife` for the files |
| `ShareLinksInv`, `ShareLinksProofs` | its inductive invariant, and the proofs |
| `RangeServe` | one answer of `serveDecrypted` |
| `CtrSeek`, `RangeServeProofs` | the counter behind its keystream, and the proofs for both |
| `Resources`, `ResourcesProofs` | temporary files and connections, and the proofs |
| `TransferPage`, `TransferPageProofs` | the upload jobs of the page, their requests, what the server has stored, and the proofs |
| `ShareUi`, `ShareUiProofs` | the share button, the LINK and RECEIVE tabs, the clipboard, and the proofs |
| `AuthSession`, `AuthSessionProofs` | accounts, cookie jar and the calls of one browser, and the proofs |
| `Site` | one tab: its history, links, guard, login form and menu |
| `Theme`, `SiteProofs` | the theme and its buttons, and the proofs for `Site` and `Theme` |
| `MC*` | values for the constants; `MCSite` composes `Site` and `Theme` |

Operators with a comment "Faulty variant" are not used by any specification. Each one is a
definition of the module changed as a slip in the code would change it, and each property is
violated if the definition is replaced by it: that is how we know that the property can fail.

### FileStore

A *worker* is a request goroutine; `pc` is where it is between two statements or system calls.
`files` is the table, `dir` the directory entries, `written` the chunks in each inode: an open
descriptor reads an inode whose name is gone, as POSIX has it. A plaintext is a number of 32 KB chunks;
`Length` gives it for each id. `used` are the UUIDs drawn. `late` are statements whose caller has
given up.

* `UploadOpen`, `UploadChunk`, `UploadClose`, `DbInsert`, `UploadStored` follow `Service.Upload`,
  `Repository.CreateFile` and the end of `Handler.Upload`. `UploadFails` is the check of
  `ctx.Done()` and every error of the loop; `UploadCleanup` is the deferred removal.
* `DeleteLookup`, `DbDelete`, `DbDeleteNoRows`, `DeleteUnlink` follow `Service.Delete`. A delete begins with the
  row it has looked up: `Answered` speaks of the wait for the DELETE, and not of that for the lookup.
* `DownloadLookup` .. `DownloadEnd` follow `Handler.Download` and `serveDecrypted`, whose arithmetic
  is in `RangeServe`. Requests that answer 401, 404 or 400 at once change nothing and are left out.
* The environment: `DbRefuses` (no effect), `Deadline` (the context ends before the answer, the
  statement joins `late`), `LateInsert`, `LateDelete`, `LateDrop`, and `Crash`, after which `main`
  starts with both volumes as they are; `docker-compose.yaml` gives each store one and restarts the
  process. The constant `Faults` says which of these a run allows.

The table is atomic per statement (one statement is one transaction here); the primary key makes a
second INSERT of an id fail.

`FileStore!KeepsItsPromise` says that `FileStore` implements `FileLife` with `life` computed from the
table and the history of deletions.

### ShareLinks

Same shape: workers, a table, `late` statements. The token is known by the id of its row. `stale`
remembers, for each download, whether its link was dead when the request arrived. The files are an
instance of `FileLife`, so that what is shown here needs of the file store what was shown to hold
there. `FileErased` includes the cascade. `ListShares` only reads and is left out.

### RangeServe

One request, from the header to the last byte. A byte stands for its position; encrypting and
decrypting with different positions of the keystream gives `Garbage`. A header is what
`strconv.ParseInt` makes of it. One `Copy` is one `Read` of the copy loop, of any size up to `Buffer`.

### CtrSeek

`RangeServe` with two variables more: `iv`, any counter, and `ctr`, the counter of the block that the
next byte of the keystream is in. `Turn` is one turn of the loop of `NewCTRAt`, `Advanced` all of them, from the
last digit to the first; a byte is a digit of base `Base`. `Increment` and `Walk` are what
`cipher.NewCTR` does for `Upload`, and for the copy loop once it has been positioned.
`CounterIsOfBlock` relates the jump to the walk.

### Resources

A worker serves an upload or a request of the auth handlers. `ReadUnit` is the multipart parser behind
`MaxBytesReader`: the file goes to the disk once it is larger than `MaxMemory`. `ParseFails`, `Parsed`,
`Copied` and `Cleanup` follow `Handler.Upload`; the copy itself is the subject of `FileStore`. `RemoveTemp` is
`RemoveAll`, whose error is ignored, after an upload as after a parse that failed. Both kinds of
request then wait for a connection and make one query. Only that of an upload has a deadline, which
also runs while it waits. `ClientLeaves` ends the context of either. `orphans` says which temporary
files nobody can be blamed for: those of a crash, and those `RemoveAll` failed to remove.

### TransferPage

`jobs` is the state with every queued `setState`, `shown` is what React has rendered and what a click
handler sees. `RenderQueued` separates the two for callbacks of the network; clicks and drops are
rendered before the next event. `request` holds the `XMLHttpRequest` of each upload, including that the
server may store a file whose request was aborted or whose page was left; `sent` is what `onprogress` has
counted. `Patched` is `patch()`, which lays the fields of `Done`, `Paused` or `Failed` over a job (`Updated`);
`WithJob` puts a `NewJob` on top of the list for each file picked, and `Without` is `remove()`. `loads`
are the calls of `loadFiles` under way, each answered with a snapshot. `Words` are the words a row shows.
Left out: numbers of seconds and bytes, and the crash of `LinkTab` once `files` is no list
(`LoadBreaksOff`).

### ShareUi

The state of a tab goes when another tab is rendered, but its calls go on: `here` says whether the
component a call was made in is still on the page. Which transfer is selected is left to
`TransferPage`: any file may be under the details next (`SelectPanel`). A link is the number of its share, or
`Nowhere` if the answer broke off. A text in RECEIVE is a sequence of pieces; `Clean` is what
`ReceiveTab` makes of it.

### Site and Theme

`hist` and `pos` are the session history of one tab. `Links` are the links of the page that is shown;
`Follow`, `FollowMenu`, `Go`, `Reload` are the user, `GuardRedirects` is the effect of the transfer page,
`SubmitEnds` the `router.push` of the form, which also comes when the form has been left. There is one
user and one call at a time: overlapping calls are in `AuthSession`. `Theme` shares no state with
`Site`; `MCSite` runs both, each in behaviours of its own.

### AuthSession

A *call* is one run of `submit`, `signOut`, or of the `refresh` of `AuthProvider`, at one of its
`await`s. Requests are handled by `Register`, `Login`, `Logout` and `Me` (with `RequireAuth`), and may fail
before or after they were handled. The cookie jar obeys `Set-Cookie` when an answer arrives. `req` replaces a body that
breaks off by `{}`; a `/me` answered so leaves a user without an email on the page (`Nobody`). The
redirects are in `Site`; several tabs, and requests with empty fields, are left out. A JWT
cannot be forged here.

## 3. What TLC checks

Deadlock is checked in `site`, `site_shared_link`, `share_ui`, `page_wrong_link` and `resources`, where
somebody can always do something. In the other runs ids, uploads or the clock are used up, and the system
really stops.

| Run | Instance | Shows |
|---|---|---|
| `store_faults` | 2 goroutines, 2 users, files of 0 and 2 chunks, all faults | `TypeOK RowsAreWhole AckedKept NoShortRead OneDeleter ServableUnlessUnseen MissingOnlyIfErased NoLeak KeepsItsPromise Answered` |
| `store_lostack` | 2 goroutines, one file, lost answers only | violates `ListedIsServable` |
| `share_links` | 3 goroutines, 2 users, one file, one link, expiry 1, clock up to 3 | `TypeOK NoDanglingLink NoServiceFromDeadLink ClosedForGood GrantedLinksWork LinksExpire` |
| `share_frontend` | 2 goroutines, the same otherwise, links as the frontend creates them | violates `LinksExpire` |
| `range_serve` | files of 0 to 10 bytes, blocks of 3, reads of 1 and 2 bytes, every header, every counter of 3 bits | `AnnouncesWhatWasAsked SendsPlaintext BodyIsComplete CounterIsOfBlock` |
| `resources` | 2 workers, 1 connection, files of 0 to 4 units, 1 kept in memory, 2 announced, 2 of slack, 1 crash | `TempFilesAreOwned FitsIfAnnounced NoConnectionLost UploadsEnd` |
| `page_jobs` | 2 uploads, of 2 bytes and none, all faults | `ActiveIffInFlight CompleteIsListed OneOutcome CompleteStaysComplete BarNeverFallsBack JobsSettle` |
| `share_ui` | 2 files, 2 calls under way, 2 shares, 2 timeouts, all faults | `BusyIffCall PasteLeadsToItsFile LinksStay` |
| `page_wrong_link` | the same without faults | violates `LinkIsOfPanelFile` |
| `auth_session` | 2 calls, 2 emails, 2 passwords, tokens of 1 tick, clock up to 1 | `PageShowsSession SignOutEndsSession AckedPasswordHolds` |
| `site` | a history of 3 entries; for the theme everything | `FormHasOneState ChosenThemeStays GuardIsJustified SkeletonEnds` |
| `site_shared_link` | the same | violates `SharedLinkStays` |

Why the bounds are enough. Two goroutines on one file are every pairwise race (delete and
delete, delete and download, upload and anything). A UUID is never drawn twice, so files meet only in the
table and two of them suffice; a length of 0 is the empty file, one of 2 can be cut in the
middle. One link sees every race of its creation, revocation and use, since no statement names two
links; the third goroutine lets its owner act while two others do. A clock that runs to 3 passes an
expiry of 1 before, at and after its moment. Files of 10 bytes and blocks of 3 give ranges that begin at
every offset of a block and in each of four blocks; three blocks from every counter of three bits
is every carry, through all digits and past the highest. The header numbers run from -1 to one past the
file. In `resources` one connection is the whole pool at its limit; the sizes are
empty, in memory, spilled, larger than announced but let through, and too large. Two uploads, two calls
and two clicks are the smallest numbers that can overtake each other. A history of three entries has a
page before and one after the current one, and drops an entry on a push. Symmetry is
used only in `auth_session`, which checks safety alone, over calls, emails and passwords, which no
definition tells apart. The proofs of section 4 make the bounds of all safety properties irrelevant; those of
liveness remain.

Types are checked by TLC and proved for `FileStore` and `ShareLinks`, and proved for the other modules. In
those of the browser the sets `Job`, `Load`, `Call`, `Form` and `Location` describe them, and `TypeInv` in the module
of the proofs is a part of the inductive invariant.

Fairness:

* `FileStore!FairSpec`: a goroutine that can take its next step by itself does, and a deadline fires.
  The Go scheduler and `context.WithTimeout` give that. Nothing is assumed of the database,
  nor of the client of a download, since the server sets no write timeout.
* `ShareLinks!FairSpec`: the clock ticks (up to the bound, behind every expiry).
* `Resources!FairSpec`: a handler goes on by itself, and the deadline of `CreateFile` fires. A client that
  stalls in the middle of its body is left out of this: `net/http` has a read timeout only if one is set.
  The database need not answer, and an auth request need not end.
* `TransferPage!FairSpec`: the server answers a request somebody waits for, the browser runs the
  callback, React renders queued updates. The page sets no timeout, so without the first a
  job stays active for good; that is the one assumption the code itself does not provide.
* `MCSite!MCFairSpec` (that of `Site`, where `Theme` stands still): React runs the effect of the guard, `/me` is
  answered or fails, and the code behind an `await` goes on.

Calls of `AuthSession` can overlap, since SIGN OUT is not disabled and a form that was left goes on:
then the older answer of `/me` may arrive last, and the page shows the user of a cookie that has been
replaced. Nothing in the repository forbids that. The history `mixed` says that the `/me` which decided the
page came from such calls; `PageShowsSession` claims the page for every other time, so that one refresh
without another call beside it, or a reload, puts it right. `SignOutEndsSession` is claimed for a sign out
that ran alone, on whatever page it found.

## 4. What is proved

TLAPS checks the following for every value of the constants that satisfies the `ASSUME`s: any number of
goroutines, users, files and links, any lengths, times and block sizes, every set of faults.

* `FileStoreProofs`: `TypeCorrect`, `AckedFilesAreKept`, `RowsStayWhole`, `ReadsAreNotShort`,
  `DeletesAreExclusive`, `UnservableWereUnseen`, `MissingBlobsWereErased`, `BlobsDoNotLeak`; if no answer
  of the database is lost, `ListedFilesAreServable`; and `ImplementsFileLife`.
* `ShareLinksProofs`: `TypeCorrect`, `LinksDoNotDangle`, `DeadLinksAreNotServed`, `RevocationIsFinal`,
  `GrantedLinksKeepWorking`.
* `RangeServeProofs`: `TypeCorrect`, `RangesAreHonest`, `PlaintextIsSent`, `BodiesAreComplete`. Of the counter:
  `TurnKeepsTheSum` (a turn of the carry loop changes one digit and keeps digit + base * carry), `JumpIsWalk`
  (all turns together arrive where the walk block by block arrives), `CountersAgree` (`CounterIsOfBlock`), and
  `CounterIsADetail` (`CtrSpec` implements `RangeServe!Spec`, so the theorems above hold of it).
* `ResourcesProofs`: `TypeCorrect`, `PlaintextIsOwned`, `AnnouncedSizesFit`, `ConnectionsAreNotLost`.
* `AuthSessionProofs`: `RegistrationHolds`, `PageIsOfItsCookie`, `SignOutIsFinal`.
* `SiteProofs`: `FormIsConsistent`, `GuardNeverUndoesALogin`, `ThemeStays`; `PartsKeepTheirSpecs` says that a behaviour of
  the composition `MCSite` is one of `Site` and one of `Theme`.
* `ShareUiProofs`: `ButtonIsHonest`, `PastedLinksLead`, `RowsKeepTheirLinks`.
* `TransferPageProofs`: `RequestsHaveTheirJobs`, `CompleteFilesAreListed`, `RowsHaveOneOutcome`, `CompleteIsFinal`, `BarsMoveOn`,
  all as long as no two uploads have one key (`KeysDiffer`).

The argument for `FileStore`. None of the properties is inductive. The invariant `IInv`
(`FileStoreInv`) rests on one idea: call an id *Known* once its row has been in the table. Uploads that
have not committed, and late INSERTs, work on ids that are not Known, and each such id belongs to
exactly one of them (`OwnerInv`); everything else works on Known ids. So an upload in progress cannot
disturb another request, a cleanup cannot remove the blob of an answered file, and a late INSERT
cannot revive a deleted one. `NextInv` has one lemma per action. For the refinement every
action maps to a step of `FileLife` or stutters: DbInsert and LateInsert to `Appear`, UploadStored to
`Promise`, DeleteLookup to `AskDelete`, DbDelete and LateDelete to `Erase`.

Two histories say what a fault may excuse: `unseen`, the ids whose INSERT was given up without an answer,
and `stray`, those whose blob could not be unlinked or was left by a crash. With them `ServableUnlessUnseen`
and `NoLeak` hold under all faults at once (`AnswersInv`, `LeakInv`). Without lost answers `unseen` stays empty,
which gives `ListedIsServable`; `store_lostack` shows that the assumption is needed.

The argument for `ShareLinks` is similar with *Pending* ids, whose INSERT may still execute: such an
id has no row, was not answered and not closed. What is true of a row that is not pending lasts.

For `RangeServe`, `ParseRangeIsRequested` shows once that `parseRange` returns the slice
a header asks for, cut to the file; the invariant then keeps blob and keystream at the same place,
behind the last byte sent.

For `Resources`, the four properties and `UploadSteps` (only an upload parses, copies and cleans up) are
inductive together. The count of connections needs two facts about the cardinality of a finite set,
and `FitsIfAnnounced` the assumption that the envelope of a body fits into the slack.

For the counter, one turn is arithmetic: `DigitIsUnique` and `DigitAfterOneMore` say what a digit and its carry are
after one more. `TurnKeepsOneAhead` compares the loop run with a distance and with the next one, digit by digit: they
stay one `Increment` apart over the digits passed, whatever carry is left. By induction over the turns
(`AdvancedStep`), jumping `n + 1` blocks is jumping `n` and incrementing, and by induction over `n`
(`JumpIsWalk`) the jump is the walk. Inductions over numbers are done without the library's theorem, which
takes a predicate as a parameter: the set of the numbers that have the property contains 0 and each
successor (`Induction`), and its complement would have a least element (`LeastElement`).

For `AuthSession`, `RegistrationHolds` counts: an email has one 201 at most, answered or on the way, and a row, once
written, is never changed. The two properties of the page
speak of the time when no call is under way. `SoloInv` carries them over a call: if no two calls
have overlapped since nobody was calling, there is one at most, nobody else changes the cookie, and so the answer that
arrives, or will, is that of a `/me` sent with the cookie that is there now (`SoloCall`). What such an answer
made of the page holds until a refresh is due again, since whatever changes the cookie makes one due (`PageInv`). `AnswersInv` says what such an
answer tells of the token it was asked with.

For `Site`, `EnteredInv` says where a user who has just logged in and is not yet on the page can be: the
first `/me` is awaited, or his call is before its `router.push` on the form. The guard acts in neither case. `PlaceInv` ties a call that
still has its form to the address, so that no arrival leaves it behind. `PushArrives` says what a push does
to a history of any length, full or not. The proof of `SubmitEnds` found that an earlier definition of `form'` chose
between two overlapping cases, of which TLC takes the first; it is now an `IF`, in the order of the code.

For `ShareUi`, the button is disabled for one call of its own: `ButtonInv` adds that there is never a second, that
an old button's calls are marked (`OrphanedIs`), and that the button is under SEND only. For the links,
`CleanFindsTheToken` shows that `Clean` finds the token in every text the page can have copied, with or without white
space around it; the invariant follows the link from its grant through row and clipboard to the field.

For `TransferPage`, four relations are inductive together: a job beside its request and the stored files
(`JobsFit`); a request under way has its job (`RequestsFit`); a rendered row may lag behind its job, but only while it
says active, and its bar is never ahead (`RowsLag`); and the list on the page, or the newest one under way,
has every file of a job done (`ListsFit`). TLC has checked their conjunction on the instance of `page_jobs`. A click acts on the row, so that `RowsLag` is what
makes PAUSE and RESUME harmless: a row that no longer says active is its job. `upload()` and `remove()` are folds
over the list; what they do is shown by induction (`FoldRuns`, `StackedSound`, `DroppedType`).

`KeysDiffer` is a hypothesis of the theorems and no `ASSUME`, since the code does not provide it: a key is
`Date.now()` and the name of the file (`frontend/app/transfer/page.tsx:67`), and two files of one name from different folders can be
picked within a millisecond. Without it all five properties fail: with `kb = ka` in `page_jobs.cfg` TLC finds
each of them violated.

Assumptions on constants: `None` is none of the values it stands beside (`NamesAssumption`, `NoneAssumption`,
`KeyAssumption`), a user picks finitely many files (`UploadsAssumption`), and sizes and bounds are
numbers of the range the code gives them.

Only model-checked: liveness (`Answered`, `LinksExpire`, `UploadsEnd`, `JobsSettle`, `SkeletonEnds`), which is
out of reach of the prover. Every other property of a passing run is the subject of a theorem.
That AES-CTR is an XOR with a keystream, that UUIDs and tokens do not repeat and that PostgreSQL executes a
statement atomically is assumed.

## 5. Disagreements found

1. `backend/internal/files/service.go:115` (`store_lostack`). `CreateFile` returns an error when its
   context ends, although the INSERT may have been committed. `Upload` then removes the blob: the row
   stays listed, and its download answers 500 for good. The comment at line 63 speaks of the
   *partial* ciphertext; what goes here is the whole ciphertext of a committed row.
2. `frontend/app/transfer/page.tsx:242` (`share_frontend`). Every link of the frontend is created
   without an expiry, while the page says "LINKS EXPIRE · REVOCABLE BY OWNER" (line 291).
3. `frontend/app/transfer/page.tsx:218` (`page_wrong_link`). `ShareButton` has no `key`. After another
   transfer is selected it still shows, and copies, the link of the previous file, under the details of
   the new one; the same happens to an `api.share()` that was under way.
4. `frontend/app/transfer/page.tsx:54` (`site_shared_link`). The links that the page hands out lead to
   `/transfer?tab=receive#token`. Without a session the guard replaces that address by
   `/login?next=/transfer`: tab and token are gone, although a link needs no login
   (`backend/cmd/server/main.go:83`). With a session the token stays in the address, and `ReceiveTab` does not
   read it.

Also met while modelling, without a run:

* `frontend/app/transfer/page.tsx:110`: RESUME marks the job as failed and sends nothing, while its message
  says "resume re-uploads from start" and the landing page promises resume support (`frontend/app/page.tsx:36`).
* `frontend/app/transfer/page.tsx:107`: a PAUSE that meets a completion not yet rendered makes the job PAUSED,
  while its file is stored and listed.
* `frontend/app/transfer/page.tsx:47`: the answers of two `loadFiles` calls are applied in the order of their
  arrival. The page can say "NO FILES YET" to a user whose upload it calls COMPLETE.
* `frontend/app/transfer/page.tsx:42` and `:123`: one flag for all copy buttons. Every row with a link says
  COPIED; and COPY AGAIN copies a new link, not the one it shows.
* `backend/internal/files/handler.go:79`: the limit is on the body, with 10 MB of slack: a file of up to
  almost 510 MB passes where the error says "max 500MB".
* `backend/internal/files/handler.go:292`: a share lookup that fails for any reason answers 404, like a link
  that is gone.
* `frontend/components/Navbar.tsx:28`: a guest's GET STARTED in the menu leads to `/login?next=/login`;
  `/storage`, which several links lead to, has no page.
* `frontend/components/Navbar.tsx:73`: of the two theme buttons the one that becomes visible after a
  resize may offer the theme that is already there.

## 6. Plan

The order is that of importance to a user's data. Done: `FileLife` and `FileStore`, `ShareLinks` over `FileLife`,
`RangeServe`, `TransferPage`, `AuthSession`, `ShareUi`, `Site` and `Theme`, `CtrSeek`, `Resources`, each with proofs of its safety
properties. To come:

1. `TransferPage` without `KeysDiffer`: what is left of the properties for a job whose key is its own.
2. `ShareUi`: that the button shows the link of the file below it as long as the selection has not changed under it,
   the part of `LinkIsOfPanelFile` that the code does keep.

### Not modelled

* A crash of the host that loses unsynced pages: no `fsync` is called, and a model would restate that.
* The CORS filter and the route table, `ParseMasterKey`, `sanitizeFilename`, `formatBytes`: functions of one
  call without state.
* `ListShares` and the other requests that only read, or that answer 400, 401 or 404 at once.
* Requests with empty or missing fields, and the hashing of passwords.
* Several tabs of one browser: they share the cookie jar only, and two calls of `AuthSession` see as much.
* Text, styling and drawings, and the build files.
