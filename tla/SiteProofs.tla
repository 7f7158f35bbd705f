------------------------------- MODULE SiteProofs -------------------------------
(***************************************************************************)
(* Proofs about the site, for session histories of any length: the form    *)
(* is busy only for a call of its own and then shows no error, the guard   *)
(* of the transfer page never sends a user back to the login that has just *)
(* succeeded, and the theme that was chosen stays.                         *)
(***************************************************************************)
EXTENDS MCSite, SequenceTheorems, TLAPS

TypeInv ==
  /\ hist \in Seq(Location) /\ Len(hist) <= MaxHist
  /\ pos \in 1 .. Len(hist)
  /\ cookie \in BOOLEAN /\ user \in BOOLEAN /\ loading \in BOOLEAN
  /\ call \in Call \cup {None}
  /\ form \in Form
  /\ menu \in {None, "/", "/login"}
  /\ entered \in BOOLEAN

\* The menu is open on the path on which it was opened.
MenuInv == menu # None => menu = Here.path

\* A call that still has its form has it on the page.
PlaceInv ==
  call # None /\ call.kind \in {"login", "register"} /\ call.here => Here.path = "/login"

\* The login that was answered, has not been followed by /me, and has its form on the page.
EnteringNow ==
  call # None /\ call.kind = "login" /\ call.stage # "sent" /\ Here.path = "/login"

\* After a login a guest is only seen while its refresh is under way, on its form.
EnteredInv == entered => user \/ loading \/ EnteringNow

IInv == TypeInv /\ MenuInv /\ PlaceInv /\ FormHasOneState /\ EnteredInv
-----------------------------------------------------------------------------
LEMMA HereIsALocation ==
  ASSUME TypeInv
  PROVE  Here \in Location
  BY ElementOfSeq DEF TypeInv, Here

LEMMA PagesAreLocations ==
  ASSUME NEW p \in Paths
  PROVE  /\ Page(p) \in Location /\ Page(p).path = p /\ Page(p).next = None
         /\ \A t \in TabParams : Tab(p, t) \in Location /\ Tab(p, t).path = p /\ Tab(p, t).next = None
  BY DEF Page, Tab, Location, TabParams

LEMMA LoginsAreLocations ==
  ASSUME NEW n \in Paths \cup {None}
  PROVE  Login(n) \in Location /\ Login(n).path = "/login" /\ Login(n).next = n
  BY DEF Login, Page, Location, TabParams, Paths

\* No link of the transfer page leads to the address the guard replaces it by.
LEMMA LinksAreLocations ==
  ASSUME TypeInv
  PROVE  /\ Links \subseteq Location /\ MenuLinks \subseteq Location
         /\ Here.path = "/transfer" => Login("/transfer") \notin Links
  <1> USE NoneAssumption
  <1>1. \A p \in Paths : Page(p) \in Location /\ Login(p) \in Location
    BY PagesAreLocations, LoginsAreLocations
  <1>2. \A p \in Paths, t \in TabParams : Tab(p, t) \in Location
    BY PagesAreLocations
  <1>3. \A p \in Paths : AppHref(p) \in Location
    BY <1>1 DEF AppHref
  <1>4. NavbarLinks \subseteq Location /\ MenuLinks \subseteq Location
    BY <1>1, <1>3 DEF NavbarLinks, MenuLinks, Paths
  <1>5. HomeLinks \subseteq Location /\ LoginLinks \subseteq Location
    BY <1>1 DEF HomeLinks, FooterLinks, LoginLinks, Paths
  <1>6. SidebarLinks \subseteq Location /\ TabLinks \subseteq Location
    BY <1>1, <1>2 DEF SidebarLinks, Items, TabLinks, Paths, TabParams
  <1>7. Here.path \in Paths
    BY HereIsALocation DEF Location
  <1>8. Links \subseteq Location
    BY <1>4, <1>5, <1>6, <1>7 DEF Links, Paths
  <1>9. ASSUME Here.path = "/transfer" PROVE Login("/transfer") \notin Links
    <2>1. Login("/transfer").next = "/transfer" /\ "/transfer" # None
      BY LoginsAreLocations DEF Paths
    <2>2. \A l \in SidebarLinks \cup TabLinks : l.next = None
      <3>1. \A p \in Paths : Page(p).next = None
        BY PagesAreLocations
      <3>2. \A p \in Paths, t \in TabParams : Tab(p, t).next = None
        BY PagesAreLocations
      <3> QED BY <3>1, <3>2 DEF SidebarLinks, Items, TabLinks, Paths, TabParams
    <2>3. Links = SidebarLinks \cup TabLinks
      BY <1>9 DEF Links
    <2> QED BY <2>1, <2>2, <2>3
  <1> QED BY <1>4, <1>8, <1>9

\* router.push arrives at the address that is pushed.
LEMMA PushArrives ==
  ASSUME TypeInv, NEW l \in Location, Push(l)
  PROVE  /\ hist' \in Seq(Location) /\ Len(hist') <= MaxHist /\ pos' \in 1 .. Len(hist')
         /\ Here' = l
  <1>1. CASE l = Here
    BY <1>1 DEF Push, TypeInv, Here
  <1>2. CASE l # Here
    <2> DEFINE before == SubSeq(hist, 1, pos)
               pushed == Append(before, l)
               kept == IF Len(pushed) > MaxHist THEN Tail(pushed) ELSE pushed
    <2>1. pos \in Nat /\ pos >= 1 /\ pos <= Len(hist) /\ Len(hist) <= MaxHist /\ MaxHist \in Nat
      BY MaxHistAssumption, LenProperties DEF TypeInv
    <2>2. before \in Seq(Location) /\ Len(before) = pos
      <3>1. \A i \in 1 .. pos : hist[i] \in Location
        BY <2>1, ElementOfSeq, LenProperties DEF TypeInv
      <3> QED BY <2>1, <3>1, SubSeqProperties
    <2>3. /\ pushed \in Seq(Location) /\ pushed # <<>>
          /\ Len(pushed) = pos + 1 /\ pushed[pos + 1] = l
      <3> HIDE DEF before
      <3> QED BY <2>2, AppendProperties
    <2>4. hist' = kept /\ pos' = Len(kept)
      BY <1>2 DEF Push
    <2> HIDE DEF pushed
    <2>5. CASE Len(pushed) > MaxHist
      <3>1. /\ Tail(pushed) \in Seq(Location) /\ Len(Tail(pushed)) = pos
            /\ Tail(pushed)[pos] = pushed[pos + 1]
        BY <2>1, <2>3, HeadTailProperties
      <3> QED BY <2>1, <2>3, <2>4, <2>5, <3>1 DEF Here
    <2>6. CASE ~ (Len(pushed) > MaxHist)
      BY <2>1, <2>3, <2>4, <2>6 DEF Here
    <2> QED BY <2>5, <2>6
  <1> QED BY <1>1, <1>2
-----------------------------------------------------------------------------
LEMMA InitIInv == Init => IInv
  <1> SUFFICES ASSUME Init PROVE IInv
    OBVIOUS
  <1> USE NoneAssumption, MaxHistAssumption
  <1>1. PICK l \in {Page("/"), Login(None), Page("/transfer"), ShareLink} : hist = <<l>>
    BY DEF Init
  <1>2. l \in Location
    <2>1. Page("/") \in Location /\ Page("/transfer") \in Location
      BY PagesAreLocations DEF Paths
    <2>2. Login(None) \in Location
      BY LoginsAreLocations
    <2>3. ShareLink \in Location
      BY DEF ShareLink, Tab, Page, Location, Paths, TabParams
    <2> QED BY <2>1, <2>2, <2>3
  <1>3. hist \in Seq(Location) /\ Len(hist) = 1 /\ pos = 1
    BY <1>1, <1>2 DEF Init
  <1>4. MountCall \in Call /\ MountCall.kind = "mount" /\ NewForm \in Form /\ NewForm.busy = FALSE
    BY DEF MountCall, Call, Paths, NewForm, Form
  <1>5. TypeInv
    <2>1. Len(hist) <= MaxHist /\ pos \in 1 .. Len(hist)
      BY <1>3
    <2>2. call \in Call \cup {None} /\ form \in Form
      BY <1>4 DEF Init
    <2> QED BY <1>3, <2>1, <2>2 DEF Init, TypeInv
  <1>6. MenuInv /\ PlaceInv /\ FormHasOneState /\ EnteredInv
    BY <1>4 DEF Init, MenuInv, PlaceInv, FormHasOneState, EnteredInv
  <1> QED BY <1>5, <1>6 DEF IInv

\* The page that is left loses its form and its menu, and its call the form.
LEMMA ArrivalKeeps ==
  ASSUME IInv, NEW l \in Location, Here' = l,
         hist' \in Seq(Location), Len(hist') <= MaxHist, pos' \in 1 .. Len(hist'),
         menu' \in {None, menu}, menu' # None => Here.path = l.path,
         form' = IF Here.path = "/login" /\ l.path = "/login" THEN form ELSE NewForm,
         call' = Seen(call, Here.path, l.path),
         entered' = (entered /\ call = None),
         UNCHANGED <<cookie, user, loading>>
  PROVE  IInv'
  <1> USE NoneAssumption DEF IInv
  <1>1. /\ call = None => call' = None
        /\ call # None => /\ call' \in Call /\ call' # None
                          /\ call'.kind = call.kind /\ call'.stage = call.stage
                          /\ call'.here => call.here
                          /\ Here.path = "/login" /\ l.path # "/login" => ~ call'.here
                          /\ l.path = "/login" \/ Here.path # "/login" => call' = call
    BY DEF Seen, TypeInv, Call
  <1>2. TypeInv'
    <2>1. form' \in Form
      BY DEF TypeInv, NewForm, Form
    <2>2. menu' \in {None, "/", "/login"} /\ call' \in Call \cup {None} /\ entered' \in BOOLEAN
      BY <1>1 DEF TypeInv
    <2> QED BY <2>1, <2>2 DEF TypeInv
  <1>3. MenuInv'
    BY DEF MenuInv
  <1>4. PlaceInv'
    BY <1>1 DEF PlaceInv, TypeInv
  <1>5. FormHasOneState'
    BY <1>1 DEF FormHasOneState, NewForm
  <1>6. EnteredInv'
    BY DEF EnteredInv, EnteringNow
  <1> QED BY <1>2, <1>3, <1>4, <1>5, <1>6

LEMMA FollowKeeps ==
  ASSUME IInv, NEW l \in Links, Follow(l)
  PROVE  IInv'
  <1>1. l \in Location
    BY LinksAreLocations DEF IInv
  <1>2. /\ hist' \in Seq(Location) /\ Len(hist') <= MaxHist /\ pos' \in 1 .. Len(hist')
        /\ Here' = l
    BY <1>1, PushArrives DEF IInv, Follow
  <1> QED BY <1>1, <1>2, ArrivalKeeps DEF Follow, Arrive, Moves

LEMMA FollowMenuKeeps ==
  ASSUME IInv, NEW l \in MenuLinks, FollowMenu(l)
  PROVE  IInv'
  <1>1. l \in Location
    BY LinksAreLocations DEF IInv
  <1>2. /\ hist' \in Seq(Location) /\ Len(hist') <= MaxHist /\ pos' \in 1 .. Len(hist')
        /\ Here' = l
    BY <1>1, PushArrives DEF IInv, FollowMenu
  <1> QED BY <1>1, <1>2, ArrivalKeeps DEF FollowMenu, Moves

LEMMA GoKeeps ==
  ASSUME IInv, NEW p \in DOMAIN hist, Go(p)
  PROVE  IInv'
  <1>1. p \in 1 .. Len(hist) /\ hist[p] \in Location
    BY ElementOfSeq, LenProperties DEF IInv, TypeInv
  <1>2. /\ hist' \in Seq(Location) /\ Len(hist') <= MaxHist /\ pos' \in 1 .. Len(hist')
        /\ Here' = hist[p]
    BY <1>1 DEF IInv, TypeInv, Go, Here
  <1> QED BY <1>1, <1>2, ArrivalKeeps DEF Go, Arrive, Moves

\* The guard finds no login under way on its page, and so nobody who has just entered.
LEMMA GuardRedirectsKeeps ==
  ASSUME IInv, GuardRedirects
  PROVE  IInv' /\ ~ entered
  <1> USE NoneAssumption
  <1>1. ~ entered
    BY DEF IInv, TypeInv, EnteredInv, EnteringNow, GuardRedirects
  <1>2. Login("/transfer") \in Location /\ Login("/transfer").path = "/login"
    BY LoginsAreLocations DEF Paths
  <1>3. /\ hist' \in Seq(Location) /\ Len(hist') = Len(hist) /\ pos' \in 1 .. Len(hist')
        /\ Here' = Login("/transfer")
    BY <1>2, ExceptSeq DEF IInv, TypeInv, GuardRedirects, Here
  <1>4. call' = Seen(call, Here.path, "/login") /\ entered' = (entered /\ call = None)
    BY <1>1 DEF GuardRedirects, auth, Seen, IInv, TypeInv
  <1> QED BY <1>1, <1>2, <1>3, <1>4, ArrivalKeeps DEF GuardRedirects, Arrive, auth, IInv, TypeInv

LEMMA ReloadKeeps ==
  ASSUME IInv, Reload
  PROVE  IInv'
  <1> USE NoneAssumption DEF IInv
  <1>1. MountCall \in Call /\ MountCall.kind = "mount" /\ NewForm \in Form /\ NewForm.busy = FALSE
    BY DEF MountCall, Call, Paths, NewForm, Form
  <1>2. TypeInv'
    BY <1>1 DEF TypeInv, Reload, Moves
  <1> QED BY <1>1, <1>2 DEF Reload, MenuInv, PlaceInv, FormHasOneState, EnteredInv

LEMMA ToggleMenuKeeps ==
  ASSUME IInv, ToggleMenu
  PROVE  IInv'
  BY NoneAssumption DEF IInv, ToggleMenu, auth, TypeInv, MenuInv, PlaceInv, FormHasOneState, EnteredInv,
    EnteringNow, Here

LEMMA ClickModeKeeps ==
  ASSUME IInv, NEW m \in {"login", "register"}, ClickMode(m)
  PROVE  IInv'
  <1>1. form \in Form /\ form' \in Form /\ form'.busy = form.busy /\ form'.error = FALSE
    BY DEF IInv, TypeInv, ClickMode, Form
  <1> QED BY <1>1 DEF IInv, ClickMode, auth, TypeInv, MenuInv, PlaceInv, FormHasOneState, EnteredInv,
    EnteringNow, Here

LEMMA SubmitKeeps ==
  ASSUME IInv, Submit
  PROVE  IInv'
  <1> USE NoneAssumption DEF IInv
  <1>1. NextPath(Here) \in Paths
    BY HereIsALocation DEF NextPath, Location, Paths
  <1>2. /\ form' \in Form /\ form'.error = FALSE
        /\ call' \in Call /\ call' # None /\ call'.here = TRUE /\ call'.kind \in {"login", "register"}
    <2>1. form \in Form /\ form' = [form EXCEPT !.busy = TRUE, !.error = FALSE]
      BY DEF TypeInv, Submit
    <2>2. call' = [kind |-> form.mode, stage |-> "sent", answer |-> FALSE,
                   next |-> NextPath(Here), here |-> TRUE]
      BY DEF Submit
    <2>3. form' \in Form /\ form'.error = FALSE /\ form.mode \in {"login", "register"}
      BY <2>1 DEF Form
    <2>4. call' \in Call /\ call'.here = TRUE /\ call'.kind \in {"login", "register"}
      BY <1>1, <2>2, <2>3 DEF Call
    <2> QED BY <2>3, <2>4
  <1>3. UNCHANGED <<hist, pos, cookie, user, loading, menu, entered>> /\ FormShown /\ call = None
    BY DEF Submit
  <1>4. UNCHANGED Here
    BY <1>3 DEF Here
  <1>5. TypeInv'
    BY <1>2, <1>3 DEF TypeInv
  <1> QED BY <1>2, <1>3, <1>4, <1>5 DEF MenuInv, PlaceInv, FormHasOneState, EnteredInv, EnteringNow, FormShown

LEMMA SignOutKeeps ==
  ASSUME IInv, SignOut
  PROVE  IInv'
  <1> USE NoneAssumption DEF IInv
  <1>1. call' \in Call /\ call' # None /\ call'.kind = "logout"
    <2>1. call' = [kind |-> "logout", stage |-> "sent", answer |-> FALSE, next |-> "/", here |-> TRUE]
      BY DEF SignOut
    <2>2. call' \in Call /\ call'.kind = "logout"
      BY <2>1 DEF Call, Paths
    <2> QED BY <2>2
  <1>2. UNCHANGED <<hist, pos, cookie, user, loading, form, menu, entered>> /\ user /\ call = None
    BY DEF SignOut
  <1>3. UNCHANGED Here
    BY <1>2 DEF Here
  <1>4. TypeInv'
    BY <1>1, <1>2 DEF TypeInv
  <1> QED BY <1>1, <1>2, <1>3, <1>4 DEF MenuInv, PlaceInv, FormHasOneState, EnteredInv
\* The steps of a call leave the page, and what it knows of the call but its stage.
LEMMA AnswersKeep ==
  ASSUME IInv, Answers
  PROVE  IInv'
  <1> USE NoneAssumption DEF IInv
  <1>1. call \in Call /\ call # None /\ form \in Form /\ UNCHANGED <<hist, pos, user, loading, menu>>
    BY DEF Answers, Accepted, Refused, MeAnswered, TypeInv
  <1>2. UNCHANGED Here
    BY <1>1 DEF Here
  <1>3. CASE Accepted
    <2>1. /\ call' \in Call /\ call' # None /\ call'.stage = "refresh"
          /\ call'.kind = call.kind /\ call'.here = call.here
      BY <1>1, <1>3 DEF Accepted, Call
    <2>2. form' = form /\ cookie' \in BOOLEAN /\ entered' \in BOOLEAN
      BY <1>1, <1>3 DEF Accepted, TypeInv, Call
    <2>3. TypeInv'
      BY <1>1, <2>1, <2>2 DEF TypeInv
    <2>4. EnteredInv'
      <3>1. CASE call.kind = "login" /\ entered' = call.here
        BY <1>1, <1>2, <2>1, <3>1 DEF EnteredInv, EnteringNow, PlaceInv
      <3>2. CASE call.kind = "logout" /\ entered' = FALSE
        BY <3>2 DEF EnteredInv
      <3>3. CASE call.kind \notin {"login", "logout"} /\ entered' = entered
        BY <1>1, <1>2, <2>1, <3>3 DEF EnteredInv, EnteringNow
      <3> QED BY <1>3, <3>1, <3>2, <3>3 DEF Accepted
    <2> QED BY <1>1, <1>2, <2>1, <2>2, <2>3, <2>4 DEF MenuInv, PlaceInv, FormHasOneState
  <1>4. CASE Refused
    <2>1. UNCHANGED <<cookie, entered>> /\ call.stage = "sent"
      BY <1>4 DEF Refused
    <2>2. EnteredInv'
      BY <1>1, <2>1 DEF EnteredInv, EnteringNow
    <2>3. CASE call.kind = "logout"
      <3>1. call' \in Call /\ call' # None /\ call'.kind = "logout" /\ form' = form
        BY <1>1, <1>4, <2>3 DEF Refused, Call
      <3>2. TypeInv'
        BY <1>1, <2>1, <3>1 DEF TypeInv
      <3> QED BY <1>1, <1>2, <2>2, <2>3, <3>1, <3>2 DEF MenuInv, PlaceInv, FormHasOneState
    <2>4. CASE call.kind # "logout"
      <3>1. /\ call' = None
            /\ form' = IF call.here THEN [form EXCEPT !.busy = FALSE, !.error = TRUE] ELSE form
        BY <1>4, <2>4 DEF Refused
      <3>2. form' \in Form /\ ~ form'.busy
        BY <1>1, <3>1 DEF Form, FormHasOneState
      <3>3. TypeInv'
        BY <1>1, <2>1, <3>1, <3>2 DEF TypeInv
      <3> QED BY <1>1, <1>2, <2>2, <3>1, <3>2, <3>3 DEF MenuInv, PlaceInv, FormHasOneState
    <2> QED BY <2>3, <2>4
  <1>5. CASE MeAnswered
    <2>1. /\ call' \in Call /\ call' # None /\ call'.stage = "told"
          /\ call'.kind = call.kind /\ call'.here = call.here
      <3>1. PICK answer \in {cookie, FALSE} : call' = [call EXCEPT !.stage = "told", !.answer = answer]
        BY <1>5 DEF MeAnswered
      <3>2. answer \in BOOLEAN
        BY <3>1 DEF TypeInv
      <3> QED BY <1>1, <3>1, <3>2 DEF Call
    <2>2. UNCHANGED <<cookie, form, entered>> /\ call.stage = "refresh"
      BY <1>5 DEF MeAnswered
    <2>3. TypeInv'
      BY <1>1, <2>1, <2>2 DEF TypeInv
    <2> QED BY <1>1, <1>2, <2>1, <2>2, <2>3 DEF MenuInv, PlaceInv, FormHasOneState, EnteredInv, EnteringNow
  <1> QED BY <1>3, <1>4, <1>5 DEF Answers

\* Who is told no user is not taken for one who has entered.
LEMMA ToldKeepsEntered ==
  ASSUME IInv, Told
  PROVE  /\ user' \in BOOLEAN /\ loading' \in BOOLEAN /\ cookie' \in BOOLEAN /\ entered' \in BOOLEAN
         /\ EnteredInv' /\ call \in Call /\ call # None
  BY DEF IInv, Told, TypeInv, EnteredInv, Call

LEMMA RefreshEndsKeeps ==
  ASSUME IInv, RefreshEnds
  PROVE  IInv'
  <1> USE NoneAssumption DEF IInv
  <1>1. /\ user' \in BOOLEAN /\ loading' \in BOOLEAN /\ cookie' \in BOOLEAN /\ entered' \in BOOLEAN
        /\ EnteredInv'
    BY ToldKeepsEntered DEF RefreshEnds
  <1>2. call' = None /\ call.kind \in {"mount", "logout"} /\ UNCHANGED <<hist, pos, form, menu>>
    BY DEF RefreshEnds
  <1>3. UNCHANGED Here
    BY <1>2 DEF Here
  <1>4. TypeInv'
    BY <1>1, <1>2 DEF TypeInv
  <1> QED BY <1>1, <1>2, <1>3, <1>4 DEF MenuInv, PlaceInv, FormHasOneState

\* submit never pushes the address that the guard replaces the transfer page by.
LEMMA SubmitEndsKeeps ==
  ASSUME IInv, SubmitEnds
  PROVE  IInv' /\ Here' # Login("/transfer")
  <1> USE NoneAssumption DEF IInv
  <1>1. /\ user' \in BOOLEAN /\ loading' \in BOOLEAN /\ cookie' \in BOOLEAN /\ entered' \in BOOLEAN
        /\ EnteredInv' /\ call \in Call /\ call' = None
    BY ToldKeepsEntered DEF SubmitEnds
  <1> DEFINE path == call.next
             l == IF path = "/login" THEN Login(None) ELSE Page(path)
  <1>2. path \in Paths
    BY <1>1 DEF Call
  <1>3. l \in Location /\ l.path = path /\ l.next = None
    BY <1>2, PagesAreLocations, LoginsAreLocations
  <1>4. /\ hist' \in Seq(Location) /\ Len(hist') <= MaxHist /\ pos' \in 1 .. Len(hist')
        /\ Here' = l
    BY <1>3, PushArrives DEF SubmitEnds
  <1>5. /\ menu' = IF path = Here.path THEN menu ELSE None
        /\ form' = IF Here.path # "/login" \/ path # "/login" THEN NewForm
                   ELSE IF call.here THEN [form EXCEPT !.busy = FALSE] ELSE form
    BY DEF SubmitEnds
  <1>6. form' \in Form /\ ~ form'.busy
    <2>1. NewForm \in Form /\ ~ NewForm.busy
      BY DEF NewForm, Form
    <2>2. form \in Form /\ (call.here \/ ~ form.busy)
      BY DEF TypeInv, FormHasOneState
    <2>3. CASE Here.path # "/login" \/ path # "/login"
      BY <1>5, <2>1, <2>3
    <2>4. CASE Here.path = "/login" /\ path = "/login" /\ call.here
      <3>1. form' = [form EXCEPT !.busy = FALSE]
        BY <1>5, <2>4
      <3> QED BY <2>2, <3>1 DEF Form
    <2>5. CASE Here.path = "/login" /\ path = "/login" /\ ~ call.here
      <3>1. form' = form
        BY <1>5, <2>5
      <3> QED BY <2>2, <2>5, <3>1
    <2> QED BY <2>3, <2>4, <2>5
  <1>7. TypeInv'
    BY <1>1, <1>4, <1>5, <1>6 DEF TypeInv
  <1>8. MenuInv'
    BY <1>3, <1>4, <1>5 DEF MenuInv
  <1>9. Here' # Login("/transfer")
    BY <1>3, <1>4, LoginsAreLocations DEF Paths
  <1> QED BY <1>1, <1>6, <1>7, <1>8, <1>9 DEF PlaceInv, FormHasOneState

LEMMA ExpiresKeeps ==
  ASSUME IInv, Expires
  PROVE  IInv'
  BY DEF IInv, Expires, TypeInv, MenuInv, PlaceInv, FormHasOneState, EnteredInv, Here

LEMMA StutterKeeps ==
  ASSUME IInv, UNCHANGED vars
  PROVE  IInv'
  BY DEF IInv, vars, TypeInv, MenuInv, PlaceInv, FormHasOneState, EnteredInv, EnteringNow, Here

LEMMA NextKeeps == IInv /\ [Next]_vars => IInv'
  <1> SUFFICES ASSUME IInv, [Next]_vars PROVE IInv'
    OBVIOUS
  <1>1. CASE User
    BY <1>1, FollowKeeps, FollowMenuKeeps, GoKeeps, ReloadKeeps, ToggleMenuKeeps, SubmitKeeps,
       SignOutKeeps, ClickModeKeeps DEF User
  <1>2. CASE GuardRedirects \/ Answers \/ RefreshEnds \/ SubmitEnds \/ Expires
    BY <1>2, GuardRedirectsKeeps, AnswersKeep, RefreshEndsKeeps, SubmitEndsKeeps, ExpiresKeeps
  <1>3. CASE UNCHANGED vars
    BY <1>3, StutterKeeps
  <1> QED BY <1>1, <1>2, <1>3 DEF Next

LEMMA IInvHolds == Spec => []IInv
  BY InitIInv, NextKeeps, PTL DEF Spec
-----------------------------------------------------------------------------
\* The form is busy for a call of its own only, and then shows no error, for session
\* histories of any length (login/page.tsx, submit).
THEOREM FormIsConsistent == Spec => []FormHasOneState
  <1>1. IInv => FormHasOneState
    BY DEF IInv
  <1> QED BY <1>1, IInvHolds, PTL

\* The only step that replaces the transfer page by the form with its return address
\* is the guard's, and by EnteredInv it never meets a user who has just entered.
LEMMA StepIsJustified ==
  ASSUME IInv, [Next]_vars, Here.path = "/transfer", Here' = Login("/transfer"), pos' = pos
  PROVE  ~ entered
  <1> USE NoneAssumption
  <1>1. Here \in Location /\ Here # Login("/transfer")
    BY HereIsALocation, LoginsAreLocations DEF IInv, Paths
  <1>2. CASE GuardRedirects
    BY <1>2, GuardRedirectsKeeps
  <1>3. CASE SubmitEnds
    BY <1>3, SubmitEndsKeeps
  <1>4. CASE UNCHANGED <<hist, pos>>
    BY <1>1, <1>4 DEF Here
  <1>5. ASSUME NEW l \in Links, Follow(l) PROVE FALSE
    <2>1. l \in Location /\ l # Login("/transfer")
      BY LinksAreLocations DEF IInv
    <2> QED BY <1>5, <2>1, PushArrives DEF IInv, Follow
  <1>6. ASSUME NEW l \in MenuLinks, FollowMenu(l) PROVE FALSE
    BY <1>6 DEF FollowMenu, IInv, TypeInv, MenuInv
  <1>7. ASSUME NEW p \in DOMAIN hist, Go(p) PROVE FALSE
    BY <1>7, LenProperties DEF Go, IInv, TypeInv
  <1>8. CASE User
    <2>1. CASE Reload \/ ToggleMenu \/ Submit \/ SignOut \/ \E m \in {"login", "register"} : ClickMode(m)
      BY <1>4, <2>1 DEF Reload, ToggleMenu, Submit, SignOut, ClickMode
    <2> QED BY <1>5, <1>6, <1>7, <1>8, <2>1 DEF User
  <1>9. CASE Answers \/ RefreshEnds \/ Expires \/ UNCHANGED vars
    BY <1>4, <1>9 DEF Answers, Accepted, Refused, MeAnswered, RefreshEnds, Expires, vars
  <1> QED BY <1>2, <1>3, <1>8, <1>9 DEF Next

\* Who has just logged in is not sent back to the form, for session histories of any
\* length (login/page.tsx, submit; transfer/page.tsx, the effect of useTransferPage).
THEOREM GuardNeverUndoesALogin == Spec => GuardIsJustified
  <1>1. IInv /\ [Next]_vars =>
          [Here.path = "/transfer" /\ Here' = Login("/transfer") /\ pos' = pos => ~ entered]_vars
    BY StepIsJustified
  <1> QED BY <1>1, IInvHolds, PTL DEF Spec, GuardIsJustified
-----------------------------------------------------------------------------
(***************************************************************************)
(* The theme.                                                              *)
(***************************************************************************)

ThemeTypeInv ==
  /\ system \in BOOLEAN /\ blocked \in BOOLEAN /\ wide \in BOOLEAN /\ html \in BOOLEAN
  /\ stored \in BOOLEAN \cup {None} /\ chosen \in BOOLEAN \cup {None}
  /\ toggles \in [T!Slots -> BOOLEAN \cup {None}]

ThemeInv == ThemeTypeInv /\ ChosenThemeStays

LEMMA ThemeInitInv == T!Init => ThemeInv
  BY NoneAssumption DEF ThemeInv, ThemeTypeInv, ChosenThemeStays, T!ChosenThemeStays, T!Init, T!Script,
    T!Mounted, T!Slots, T!Pages

LEMMA ThemeNextKeeps == ThemeInv /\ [T!Next]_themeVars => ThemeInv'
  <1> SUFFICES ASSUME ThemeInv, [T!Next]_themeVars PROVE ThemeInv'
    OBVIOUS
  <1> USE NoneAssumption DEF ThemeInv
  <1>1. \A page : T!Mounted(page, html) \in [T!Slots -> BOOLEAN \cup {None}]
    BY DEF T!Mounted, ThemeTypeInv
  <1>2. ASSUME NEW page, T!Load(page) PROVE ThemeInv'
    <2>1. html' = T!Script /\ T!Script \in BOOLEAN
      BY <1>2 DEF T!Load, T!Script
    <2>2. toggles' = T!Mounted(page, html') /\ toggles' \in [T!Slots -> BOOLEAN \cup {None}]
      BY <1>2, <2>1 DEF T!Load, T!Mounted
    <2>3. /\ chosen' = IF stored = chosen /\ ~ blocked THEN chosen ELSE None
          /\ UNCHANGED <<system, blocked, stored, wide>>
      BY <1>2 DEF T!Load
    <2>4. ThemeTypeInv'
      BY <2>1, <2>2, <2>3 DEF ThemeTypeInv
    <2>5. ChosenThemeStays'
      BY <2>1, <2>3 DEF ThemeTypeInv, ChosenThemeStays, T!ChosenThemeStays, T!Script
    <2> QED BY <2>4, <2>5
  <1>3. ASSUME NEW page, T!Navigate(page) PROVE ThemeInv'
    BY <1>1, <1>3 DEF T!Navigate, ThemeTypeInv, ChosenThemeStays, T!ChosenThemeStays
  <1>4. ASSUME NEW s \in T!Slots, T!Toggle(s) PROVE ThemeInv'
    <2>1. toggles[s] \in BOOLEAN /\ toggles' = [toggles EXCEPT ![s] = ~ @]
      BY <1>4 DEF T!Toggle, T!Visible, ThemeTypeInv
    <2>2. toggles' \in [T!Slots -> BOOLEAN \cup {None}] /\ toggles'[s] \in BOOLEAN
      BY <2>1 DEF ThemeTypeInv
    <2>3. /\ html' = toggles'[s] /\ chosen' = toggles'[s] /\ UNCHANGED <<system, blocked, wide>>
          /\ stored' \in {stored, toggles'[s]}
      BY <1>4 DEF T!Toggle
    <2> QED BY <2>2, <2>3 DEF ThemeTypeInv, ChosenThemeStays, T!ChosenThemeStays
  <1>5. CASE T!Resize \/ T!SystemChanges
    BY <1>5 DEF T!Resize, T!SystemChanges, ThemeTypeInv, ChosenThemeStays, T!ChosenThemeStays
  <1>6. CASE UNCHANGED themeVars
    BY <1>6 DEF themeVars, ThemeTypeInv, ChosenThemeStays, T!ChosenThemeStays
  <1> QED BY <1>2, <1>3, <1>4, <1>5, <1>6 DEF T!Next

\* The composition the run checks moves as the site or as the theme does.
THEOREM PartsKeepTheirSpecs == MCSpec => Spec /\ T!Spec
  <1>1. MCInit => Init /\ T!Init
    BY DEF MCInit
  <1>2. [MCNext]_<<part, vars, themeVars>> => [Next]_vars /\ [T!Next]_(T!vars)
    BY DEF MCNext, themeVars, T!vars
  <1> QED BY <1>1, <1>2, PTL DEF MCSpec, Spec, T!Spec

\* The theme the user has switched to stays, whatever pages are loaded or shown, as
\* long as it could be stored (ThemeToggle.tsx, toggle; layout.tsx, THEME_SCRIPT).
THEOREM ThemeStays == MCSpec => []ChosenThemeStays
  <1>1. ThemeInv => ChosenThemeStays
    BY DEF ThemeInv
  <1>2. ThemeInv /\ [T!Next]_(T!vars) => ThemeInv'
    BY ThemeNextKeeps DEF T!vars, themeVars
  <1> QED BY <1>1, <1>2, ThemeInitInv, PartsKeepTheirSpecs, PTL DEF T!Spec
=============================================================================
