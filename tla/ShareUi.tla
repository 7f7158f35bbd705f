-------------------------------- MODULE ShareUi --------------------------------
(***************************************************************************)
(* Sharing in the browser: the share button under TRANSFER DETAILS, the    *)
(* rows of the LINK tab, the clipboard and the field of the RECEIVE tab    *)
(* (frontend/app/transfer/page.tsx: ShareButton, LinkTab, ReceiveTab).     *)
(*                                                                         *)
(* The state of a tab's component is gone when another tab is rendered,    *)
(* but its calls of api.share() go on and end in the closures they were    *)
(* made in.  Which transfer is selected is left to TransferPage: here any  *)
(* file, or none, may be under the details next.  Share i is the i-th that *)
(* the server has granted, its token stands for i.  Writing to the         *)
(* clipboard and the promise of it are one step.                           *)
(***************************************************************************)
EXTENDS Integers, SequencesExt

CONSTANTS
  Files,      \* the user's files, all of them listed
  MaxShares,  \* bound: shares the server grants
  MaxCalls,   \* bound: calls of api.share() under way
  MaxTimers,  \* bound: timeouts of 1500 ms under way
  Faults,
  None,
  Nowhere,    \* the token "undefined", of the link that is made of {}
  Space, Hash, Slash, Word  \* what a text is made of, apart from tokens

FaultKinds == {
  "share",        \* the call fails, and the share may be granted all the same
  "body",         \* the answer breaks off in its body, which req takes for {}
  "clipboard" }   \* writeText rejects: no permission, no user gesture

ASSUME BoundsAssumption == {MaxShares, MaxCalls, MaxTimers} \subseteq Nat \ {0}
ASSUME FaultsAssumption == Faults \subseteq FaultKinds

Tabs == {"SEND", "RECEIVE", "LINK", "DEVICE"}

Shares == 1 .. MaxShares
Links == Shares \cup {Nowhere}

Call == [from : {"button", "row"}, file : Files, here : BOOLEAN,
         stage : {"awaited", "failed", "granted"}, link : Links \cup {None}]
Copied == [link : Links, row : Files \cup {None}]

Pieces == {Space, Hash, Slash, Word} \cup Links

ASSUME NamesAssumption ==
  /\ None \notin Files \cup Links \cup Copied
  /\ {Space, Hash, Slash} \cap ({Word} \cup Shares) = {}
  /\ Hash # Slash

VARIABLES
  tab,        \* the tab on the page
  panel,      \* the file under TRANSFER DETAILS that the share button is for
  link,       \* the link of the share button
  busy,       \* is the share button disabled?
  links,      \* [Files -> ..]: the link in each row of the LINK tab
  calls,      \* Seq(Call): the calls of api.share() under way
  granted,    \* the file of each share the server has granted
  clipboard,  \* a Copied: the link in the clipboard, and the row whose click put it there
  copied,     \* does the page say COPIED?
  timers,     \* how many timeouts will end that
  field,      \* the text in the field of the RECEIVE tab
  pasted      \* history: the copied link this text was made of

button == <<link, busy>>
receive == <<field, pasted>>
copying == <<clipboard, copied, timers>>
vars == <<tab, panel, link, busy, links, calls, granted, clipboard, copied, timers, field, pasted>>

Unlinked == [f \in Files |-> None]

Init ==
  /\ tab = "SEND" /\ panel = None
  /\ link = None /\ busy = FALSE /\ links = Unlinked
  /\ calls = <<>> /\ granted = <<>>
  /\ clipboard = None /\ copied = FALSE /\ timers = 0
  /\ field = <<>> /\ pasted = None

\* copy(): COPIED for 1500 ms, but for the timeout of an earlier copy.
Copy(l, row) ==
  \/ /\ timers < MaxTimers
     /\ clipboard' = [link |-> l, row |-> row]
     /\ copied' = TRUE /\ timers' = timers + 1
  \/ "clipboard" \in Faults /\ UNCHANGED copying

\* The component these calls were made in is gone.
Orphaned(from) ==
  [i \in DOMAIN calls |-> IF calls[i].from = from THEN [calls[i] EXCEPT !.here = FALSE] ELSE calls[i]]

\* The share button leaves the page, with its state.
ButtonGone == panel' = None /\ link' = None /\ busy' = FALSE

Share(from, f) ==
  /\ Len(calls) < MaxCalls
  /\ calls' = Append(calls, [from |-> from, file |-> f, here |-> TRUE, stage |-> "awaited", link |-> None])

(***************************************************************************)
(* What the user does.                                                     *)
(***************************************************************************)

\* The state of the tab that is left is lost.
SwitchTab(t) ==
  /\ t # tab
  /\ tab' = t
  /\ ButtonGone /\ links' = Unlinked /\ field' = <<>> /\ pasted' = None
  /\ calls' = CASE tab = "SEND" -> Orphaned("button")
                [] tab = "LINK" -> Orphaned("row")
                [] OTHER -> calls
  /\ UNCHANGED <<granted, copying>>

\* Another transfer is under the details.  The button keeps its state unless there
\* is no file to share any more.
SelectPanel(f) ==
  /\ tab = "SEND" /\ panel # f
  /\ IF f = None
     THEN ButtonGone /\ calls' = Orphaned("button")
     ELSE panel' = f /\ UNCHANGED <<button, calls>>
  /\ UNCHANGED <<tab, links, granted, copying, receive>>

\* COPY LINK, first click: the link is created.
ClickCreate ==
  /\ panel # None /\ link = None /\ ~ busy
  /\ Share("button", panel)
  /\ busy' = TRUE
  /\ UNCHANGED <<tab, panel, link, links, granted, copying, receive>>

\* COPY LINK, once there is one.
ClickCopy ==
  /\ link # None
  /\ Copy(link, None)
  /\ UNCHANGED <<tab, panel, button, links, calls, granted, receive>>

\* CREATE LINK or COPY AGAIN: both create a share, also while a call of this row is
\* under way.
ClickRow(f) ==
  /\ tab = "LINK"
  /\ Share("row", f)
  /\ UNCHANGED <<tab, panel, button, links, granted, copying, receive>>

\* The link of the frontend, the url in the server's answer, or the token alone.
Texts(l) == {<<Word, Slash, Hash, l>>, <<Word, Slash, l>>, <<l>>}

\* The user types or pastes into the field.
Paste ==
  /\ tab = "RECEIVE" /\ clipboard # None
  /\ \E text \in Texts(clipboard.link), before, after \in {<<>>, <<Space>>} :
       field' = before \o text \o after
  /\ pasted' = clipboard
  /\ UNCHANGED <<tab, panel, button, links, calls, granted, copying>>

(***************************************************************************)
(* The server.                                                             *)
(***************************************************************************)

Answer(i, stage, l) == calls' = [calls EXCEPT ![i].stage = stage, ![i].link = l]

Grant(i) ==
  /\ calls[i].stage = "awaited"
  /\ Len(granted) < MaxShares
  /\ granted' = Append(granted, calls[i].file)
  /\ \/ Answer(i, "granted", Len(granted'))
     \/ "body" \in Faults /\ Answer(i, "granted", Nowhere)
     \/ "share" \in Faults /\ Answer(i, "failed", None)
  /\ UNCHANGED <<tab, panel, button, links, copying, receive>>

Refuse(i) ==
  /\ "share" \in Faults
  /\ calls[i].stage = "awaited"
  /\ Answer(i, "failed", None)
  /\ UNCHANGED <<tab, panel, button, links, granted, copying, receive>>

(***************************************************************************)
(* The closures that wait for an answer.                                   *)
(***************************************************************************)

\* Faulty variant: busy is only reset after a success.
ButtonHearsNoFinally(i) ==
  /\ calls[i].from = "button" /\ calls[i].stage # "awaited"
  /\ calls' = RemoveAt(calls, i)
  /\ IF calls[i].here /\ calls[i].stage = "granted"
     THEN link' = calls[i].link /\ busy' = FALSE
     ELSE UNCHANGED button
  /\ UNCHANGED <<tab, panel, links, granted, copying, receive>>

\* try, catch and finally of the share button.
ButtonHears(i) ==
  /\ calls[i].from = "button" /\ calls[i].stage # "awaited"
  /\ calls' = RemoveAt(calls, i)
  /\ IF calls[i].here
     THEN /\ link' = IF calls[i].stage = "failed" THEN link ELSE calls[i].link
          /\ busy' = FALSE
     ELSE UNCHANGED button
  /\ UNCHANGED <<tab, panel, links, granted, copying, receive>>

\* Faulty variant: the links are those of the time of the click, when there were none.
RowHearsStale(i) ==
  LET c == calls[i]
  IN  /\ c.from = "row" /\ c.stage = "granted"
      /\ calls' = RemoveAt(calls, i)
      /\ links' = IF c.here THEN [Unlinked EXCEPT ![c.file] = c.link] ELSE links
      /\ Copy(c.link, c.file)
      /\ UNCHANGED <<tab, panel, button, granted, receive>>

\* setLinks, which has no effect without the tab, and copy(), which has.
RowHears(i) ==
  LET c == calls[i]
  IN  /\ c.from = "row" /\ c.stage = "granted"
      /\ calls' = RemoveAt(calls, i)
      /\ links' = IF c.here THEN [links EXCEPT ![c.file] = c.link] ELSE links
      /\ Copy(c.link, c.file)
      /\ UNCHANGED <<tab, panel, button, granted, receive>>

\* Nobody catches the error of a row.
RowRejects(i) ==
  /\ calls[i].from = "row" /\ calls[i].stage = "failed"
  /\ calls' = RemoveAt(calls, i)
  /\ UNCHANGED <<tab, panel, button, links, granted, copying, receive>>

\* setCopied(false), whichever copy the timeout is of.
TimerFires ==
  /\ timers > 0
  /\ timers' = timers - 1
  /\ copied' = FALSE
  /\ UNCHANGED <<tab, panel, button, links, calls, granted, clipboard, receive>>

(***************************************************************************)
(* What the field stands for.                                              *)
(***************************************************************************)

\* s.split(sep).pop()
AfterLast(s, sep) ==
  LET ends == {i \in DOMAIN s : s[i] = sep}
  IN  IF ends = {} THEN s ELSE SubSeq(s, Max(ends) + 1, Len(s))

\* s.trim()
Trimmed(s) ==
  LET ink == {i \in DOMAIN s : s[i] # Space}
  IN  IF ink = {} THEN <<>> ELSE SubSeq(s, Min(ink), Max(ink))

\* Faulty variant: the text is not trimmed.
CleanUntrimmed(text) == AfterLast(AfterLast(text, Hash), Slash)

\* The token of the DOWNLOAD link; without one the link is disabled.
Clean(text) == AfterLast(AfterLast(Trimmed(text), Hash), Slash)
-----------------------------------------------------------------------------
User ==
  \/ \E t \in Tabs : SwitchTab(t)
  \/ \E f \in Files \cup {None} : SelectPanel(f)
  \/ ClickCreate \/ ClickCopy \/ Paste
  \/ \E f \in Files : ClickRow(f)

Server == \E i \in DOMAIN calls : Grant(i) \/ Refuse(i)

Hears(i) == ButtonHears(i) \/ RowHears(i) \/ RowRejects(i)

Next == User \/ Server \/ (\E i \in DOMAIN calls : Hears(i)) \/ TimerFires

Spec == Init /\ [][Next]_vars
-----------------------------------------------------------------------------
\* A row does not lose its link because another row gets one, as long as the tab is
\* on the page (page.tsx, setLinks with a function of the current links).
LinksStay ==
  [][\A f \in Files : links[f] # None /\ tab' = tab => links'[f] # None]_vars

\* The share button is disabled exactly while a call of its own is under way: not
\* for the call of a button that was on the page before, and not for good after a
\* failure (page.tsx, ShareButton, finally).
BusyIffCall ==
  busy <=> \E i \in DOMAIN calls : calls[i].from = "button" /\ calls[i].here

\* Who pastes what the click on a row has put into the clipboard, as a link, as the
\* server's url or as a bare token, with white space around it, downloads the file
\* of that row, unless the answer broke off and the link leads nowhere
\* (page.tsx, LinkTab, copy and ReceiveTab).
PasteLeadsToItsFile ==
  pasted # None /\ pasted.row # None /\ pasted.link # Nowhere =>
    LET token == Clean(field)
    IN  Len(token) = 1 /\ granted[token[1]] = pasted.row

(***************************************************************************)
(* What the page says of itself, and does not keep (see the README).       *)
(***************************************************************************)

\* The link under TRANSFER DETAILS leads to the file these details are about
\* (page.tsx:193, SendTab).
LinkIsOfPanelFile ==
  link \in Shares => granted[link] = panel
=============================================================================
