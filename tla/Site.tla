---------------------------------- MODULE Site ---------------------------------
(***************************************************************************)
(* Moving through the site in one browser tab: its session history, the    *)
(* links of every page, the guard of the transfer page, the login form and *)
(* the menu of the Navbar (frontend/app/login/page.tsx, app/transfer/      *)
(* page.tsx, app/page.tsx, components/Navbar.tsx, Sidebar.tsx, Footer.tsx, *)
(* lib/api.tsx).                                                           *)
(*                                                                         *)
(* Next's router changes the page without loading it; the component of a   *)
(* page keeps its state while only the query changes.  There is one user,  *)
(* signed in or not, and one call of submit, signOut or the first refresh  *)
(* at a time: overlapping calls are the subject of AuthSession.  /storage  *)
(* has no page: Next shows its 404 there, which has no links.              *)
(***************************************************************************)
EXTENDS Integers, FiniteSets, SequencesExt

CONSTANTS
  MaxHist,   \* bound: entries of the session history, which drops the oldest
  None

ASSUME MaxHistAssumption == MaxHist \in Nat \ {0}

Paths == {"/", "/login", "/transfer", "/storage"}
TabParams == {None, "receive", "link", "device", "shared"}

\* An address: the path, ?tab= and ?next=, and whether it carries a share token.
Location == [path : Paths, tab : TabParams, next : Paths \cup {None}, token : BOOLEAN]

Page(p) == [path |-> p, tab |-> None, next |-> None, token |-> FALSE]
Tab(p, t) == [Page(p) EXCEPT !.tab = t]
Login(next) == [Page("/login") EXCEPT !.next = next]
ShareLink == [Tab("/transfer", "receive") EXCEPT !.token = TRUE]

Form == [mode : {"login", "register"}, busy : BOOLEAN, error : BOOLEAN]
NewForm == [mode |-> "login", busy |-> FALSE, error |-> FALSE]

\* here: is the form or the button it came from still on the page?
Call == [kind : {"mount", "login", "register", "logout"}, stage : {"sent", "refresh", "told"},
         answer : BOOLEAN, next : Paths, here : BOOLEAN]

ASSUME NoneAssumption == None \notin Call \cup Paths \cup BOOLEAN

VARIABLES
  hist, pos,  \* Seq(Location): the session history and the place of the current entry
  cookie,     \* does the browser hold a valid auth_token?
  user,       \* AuthProvider: is a user known?
  loading,    \* AuthProvider: has no refresh ended yet?
  call,       \* the Call under way, or None
  form,       \* a Form: the login form
  menu,       \* the path on which the open menu of the Navbar was opened
  entered     \* history: a login was answered 200, the user has not moved by himself
              \* before its call ended, and nothing has ended the session since

auth == <<cookie, user, loading, call>>
vars == <<hist, pos, cookie, user, loading, call, form, menu, entered>>

Here == hist[pos]

MountCall == [kind |-> "mount", stage |-> "refresh", answer |-> FALSE, next |-> "/", here |-> TRUE]

\* The tab is opened with some address.
Init ==
  /\ hist \in {<<l>> : l \in {Page("/"), Login(None), Page("/transfer"), ShareLink}}
  /\ pos = 1
  /\ cookie \in BOOLEAN /\ user = FALSE /\ loading = TRUE
  /\ call = MountCall
  /\ form = NewForm /\ menu = None
  /\ entered = FALSE

(***************************************************************************)
(* What the pages show.                                                    *)
(***************************************************************************)

\* Transfer and login page: nothing but a skeleton.
Skeleton ==
  \/ Here.path = "/transfer" /\ (loading \/ ~ user)
  \/ Here.path = "/login" /\ loading

FormShown == Here.path = "/login" /\ ~ loading /\ ~ user

\* Navbar: a guest is sent to the login page, with a return address.
AppHref(p) == IF ~ loading /\ ~ user THEN Login(p) ELSE Page(p)

NavbarLinks ==
  {Page("/"), AppHref("/transfer"), AppHref("/storage"), Page(IF user THEN "/storage" ELSE "/login")}

MenuLinks == {AppHref(p) : p \in {"/transfer", "/storage", IF user THEN "/storage" ELSE "/login"}}

FooterLinks == {Page("/transfer"), Page("/storage"), Page("/login")}

\* The landing page, apart from its #features.
HomeLinks == {Page("/transfer"), Page("/login")} \cup FooterLinks

LoginLinks ==
  IF loading THEN {} ELSE IF user THEN {Page("/transfer")} ELSE {Page("/")}

\* The items of the Sidebar.
Items ==
  {Page("/transfer"), Page("/storage"), Tab("/storage", "shared"),
   Tab("/transfer", "device"), Page("/login")}

SidebarLinks == {Page("/")} \cup Items

TabLinks ==
  IF Skeleton THEN {}
  ELSE {Page("/transfer")} \cup {Tab("/transfer", t) : t \in {"receive", "link", "device"}}

Links ==
  CASE Here.path = "/" -> NavbarLinks \cup HomeLinks
    [] Here.path = "/login" -> NavbarLinks \cup LoginLinks
    [] Here.path = "/transfer" -> SidebarLinks \cup TabLinks
    [] Here.path = "/storage" -> {}

(***************************************************************************)
(* Navigation.                                                             *)
(***************************************************************************)

\* The state of a page that is left is gone, and the menu closes when the path changes.
Arrive(old, new) ==
  /\ menu' = IF old = new THEN menu ELSE None
  /\ form' = IF old = "/login" /\ new = "/login" THEN form ELSE NewForm

\* What a call knows when the path changes.
Seen(c, old, new) ==
  IF c # None /\ old = "/login" /\ new # "/login" THEN [c EXCEPT !.here = FALSE] ELSE c

\* router.push: later entries are dropped; the address of now is not pushed again.
Push(l) ==
  IF l = Here THEN UNCHANGED <<hist, pos>>
  ELSE LET pushed == Append(SubSeq(hist, 1, pos), l)
           kept == IF Len(pushed) > MaxHist THEN Tail(pushed) ELSE pushed
       IN  hist' = kept /\ pos' = Len(kept)

\* The user moves by himself.
Moves == entered' = (entered /\ call = None)

Follow(l) ==
  /\ l \in Links
  /\ Push(l) /\ Arrive(Here.path, l.path)
  /\ call' = Seen(call, Here.path, l.path)
  /\ Moves
  /\ UNCHANGED <<cookie, user, loading>>

\* A link of the mobile menu, which closes it.
FollowMenu(l) ==
  /\ menu # None /\ l \in MenuLinks
  /\ Push(l)
  /\ menu' = None
  /\ form' = IF Here.path = "/login" /\ l.path = "/login" THEN form ELSE NewForm
  /\ call' = Seen(call, Here.path, l.path)
  /\ Moves
  /\ UNCHANGED <<cookie, user, loading>>

\* The browser's own Back and Forward.
Go(p) ==
  /\ p \in DOMAIN hist /\ p \in {pos - 1, pos + 1}
  /\ pos' = p /\ hist' = hist
  /\ Arrive(Here.path, hist[p].path)
  /\ call' = Seen(call, Here.path, hist[p].path)
  /\ Moves
  /\ UNCHANGED <<cookie, user, loading>>

\* The page is loaded again, but not a skeleton: the calls are gone.
Reload ==
  /\ ~ Skeleton
  /\ user' = FALSE /\ loading' = TRUE
  /\ call' = MountCall
  /\ form' = NewForm /\ menu' = None
  /\ Moves
  /\ UNCHANGED <<hist, pos, cookie>>

ToggleMenu ==
  /\ Here.path \in {"/", "/login"}
  /\ menu' = IF menu = None THEN Here.path ELSE None
  /\ UNCHANGED <<hist, pos, auth, form, entered>>

\* The effect of the transfer page: router.replace, if nobody is signed in.
GuardRedirects ==
  /\ Here.path = "/transfer" /\ ~ loading /\ ~ user
  /\ hist' = [hist EXCEPT ![pos] = Login("/transfer")] /\ pos' = pos
  /\ Arrive("/transfer", "/login")
  /\ UNCHANGED <<auth, entered>>

(***************************************************************************)
(* The login page.                                                         *)
(***************************************************************************)

ClickMode(m) ==
  /\ FormShown
  /\ form.mode # m \/ form.error
  /\ form' = [form EXCEPT !.mode = m, !.error = FALSE]
  /\ UNCHANGED <<hist, pos, auth, menu, entered>>

\* ?next=, or else the transfer page.
NextPath(l) == IF l.next = None THEN "/transfer" ELSE l.next

\* Faulty variant: the error of the last attempt stays.
SubmitKeepsError ==
  /\ FormShown /\ ~ form.busy /\ call = None
  /\ form' = [form EXCEPT !.busy = TRUE]
  /\ call' = [kind |-> form.mode, stage |-> "sent", answer |-> FALSE,
              next |-> NextPath(Here), here |-> TRUE]
  /\ UNCHANGED <<hist, pos, cookie, user, loading, menu, entered>>

Submit ==
  /\ FormShown /\ ~ form.busy /\ call = None
  /\ form' = [form EXCEPT !.busy = TRUE, !.error = FALSE]
  /\ call' = [kind |-> form.mode, stage |-> "sent", answer |-> FALSE,
              next |-> NextPath(Here), here |-> TRUE]
  /\ UNCHANGED <<hist, pos, cookie, user, loading, menu, entered>>

SignOut ==
  /\ Here.path = "/login" /\ ~ loading /\ user /\ call = None
  /\ call' = [kind |-> "logout", stage |-> "sent", answer |-> FALSE, next |-> "/", here |-> TRUE]
  /\ UNCHANGED <<hist, pos, cookie, user, loading, form, menu, entered>>

(***************************************************************************)
(* Requests and their answers.                                             *)
(***************************************************************************)

\* Only /login sets a cookie; /logout removes it.  A refusal, or no answer at all,
\* ends submit with its error, and signOut goes on to refresh.
Accepted ==
  /\ call # None /\ call.stage = "sent"
  /\ call' = [call EXCEPT !.stage = "refresh"]
  /\ cookie' = CASE call.kind = "login" -> TRUE
                 [] call.kind = "logout" -> FALSE
                 [] OTHER -> cookie
  /\ entered' = CASE call.kind = "login" -> call.here
                  [] call.kind = "logout" -> FALSE
                  [] OTHER -> entered
  /\ UNCHANGED <<hist, pos, user, loading, form, menu>>

Refused ==
  /\ call # None /\ call.stage = "sent"
  /\ IF call.kind = "logout"
     THEN call' = [call EXCEPT !.stage = "refresh"] /\ form' = form
     ELSE /\ call' = None
          /\ form' = IF call.here THEN [form EXCEPT !.busy = FALSE, !.error = TRUE] ELSE form
  /\ UNCHANGED <<hist, pos, cookie, user, loading, menu, entered>>

\* GET /me: the user of the cookie, or an error.  A body that breaks off is a user, too:
\* req makes it {}, which is not null (AuthSession has it).
MeAnswered ==
  /\ call # None /\ call.stage = "refresh"
  /\ \E answer \in {cookie, FALSE} :
       call' = [call EXCEPT !.stage = "told", !.answer = answer]
  /\ UNCHANGED <<hist, pos, cookie, user, loading, form, menu, entered>>

\* Faulty variant: loading ends only with a user.
ToldNoFinally ==
  /\ call # None /\ call.stage = "told"
  /\ user' = call.answer /\ loading' = (loading /\ ~ call.answer)
  /\ entered' = (entered /\ call.answer)
  /\ cookie' = cookie

\* setUser and, in any case, setLoading(false).
Told ==
  /\ call # None /\ call.stage = "told"
  /\ user' = call.answer /\ loading' = FALSE
  /\ entered' = (entered /\ call.answer)
  /\ cookie' = cookie

\* refresh ends, and with it the first one, or signOut.
RefreshEnds ==
  /\ Told
  /\ call.kind \in {"mount", "logout"}
  /\ call' = None
  /\ UNCHANGED <<hist, pos, form, menu>>

\* Faulty variant: submit does not await refresh.
SubmitEndsEarly ==
  /\ call # None /\ call.stage \in {"refresh", "told"}
  /\ call.kind \in {"login", "register"}
  /\ Push(Page(call.next)) /\ Arrive(Here.path, call.next)
  /\ call' = [call EXCEPT !.kind = "mount"]
  /\ UNCHANGED <<cookie, user, loading, entered>>

\* submit goes on after refresh: router.push(next), also if the form has been left,
\* and, for a form that is still there, setBusy(false).
SubmitEnds ==
  /\ Told
  /\ call.kind \in {"login", "register"}
  /\ call' = None
  /\ LET path == call.next
     IN  /\ Push(IF path = "/login" THEN Login(None) ELSE Page(path))
         /\ menu' = IF path = Here.path THEN menu ELSE None
         /\ form' = IF Here.path # "/login" \/ path # "/login" THEN NewForm
                    ELSE IF call.here THEN [form EXCEPT !.busy = FALSE] ELSE form

\* The token expires.
Expires ==
  /\ cookie /\ cookie' = FALSE
  /\ entered' = FALSE
  /\ UNCHANGED <<hist, pos, user, loading, call, form, menu>>
-----------------------------------------------------------------------------
User ==
  \/ \E l \in Links : Follow(l)
  \/ \E l \in MenuLinks : FollowMenu(l)
  \/ \E p \in DOMAIN hist : Go(p)
  \/ Reload \/ ToggleMenu \/ Submit \/ SignOut
  \/ \E m \in {"login", "register"} : ClickMode(m)

Answers == Accepted \/ Refused \/ MeAnswered

Next == User \/ GuardRedirects \/ Answers \/ RefreshEnds \/ SubmitEnds \/ Expires

Spec == Init /\ [][Next]_vars

\* React runs the effect, requests are answered or fail, and promises go on.
Fairness ==
  WF_vars(GuardRedirects) /\ WF_vars(Answers) /\ WF_vars(RefreshEnds \/ SubmitEnds)

FairSpec == Spec /\ Fairness
-----------------------------------------------------------------------------
\* The guard never sends a user back to the form whose login has just succeeded,
\* unless the first /me said no, the session has ended since, or he moved on by
\* himself while the login was under way (login/page.tsx, submit: refresh is awaited
\* before router.push; transfer/page.tsx, the effect of useTransferPage).
GuardIsJustified ==
  [][Here.path = "/transfer" /\ Here' = Login("/transfer") /\ pos' = pos => ~ entered]_vars

\* Nobody is left with a skeleton: the page is shown, or the guard sends the visitor to
\* the form, whatever /me answers (lib/api.tsx, refresh: finally; transfer/page.tsx).
SkeletonEnds == Skeleton ~> ~ Skeleton

\* The form never says WORKING… and the error of an earlier attempt at once, and it is
\* only busy for a call of its own, however often it is left, found again and switched
\* (login/page.tsx, submit and the buttons of the modes).
FormHasOneState ==
  form.busy => ~ form.error /\ call # None /\ call.kind \in {"login", "register"} /\ call.here

(***************************************************************************)
(* What the project says of itself, and does not keep (see the README).    *)
(***************************************************************************)

\* A share link needs no login (main.go:83): whoever opens one keeps its token in the
\* address, unless he leaves the page by himself.
SharedLinkStays == [][Here.token /\ pos' = pos => Here'.token]_vars
=============================================================================
