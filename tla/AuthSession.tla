------------------------------ MODULE AuthSession ------------------------------
(***************************************************************************)
(* Accounts and the session of one browser: the users table, the JWT in    *)
(* the cookie, and the asynchronous calls of the login page and of         *)
(* AuthProvider that decide which user the page shows (backend/internal/   *)
(* auth and middleware, frontend/lib/api.tsx, app/login/page.tsx).         *)
(*                                                                         *)
(* A call is one run of submit, of signOut, or of the refresh that         *)
(* AuthProvider starts when the page is loaded.  Each awaits its requests; *)
(* nothing orders two calls but the state of the form.  A user is known by *)
(* the email; the signature of a JWT is taken as perfect.  A request whose *)
(* caller has given up is handled before that or not at all.               *)
(***************************************************************************)
EXTENDS Integers, Sequences

CONSTANTS
  Calls,
  Emails,
  Passwords,
  Life,     \* tokenExpiry
  MaxNow,   \* bound: the clock stops there
  None

Token == [sub : Emails, exp : Nat]

\* The answer to a /me that could not be had.
Failed == "failed"

\* A /me answered 200 whose body broke off: req returns {}, a user without an email.
Nobody == "nobody"

VARIABLES
  users,       \* the users table: [Emails -> Passwords \cup {None}]
  now,         \* the clock
  cookie,      \* a Token or None: auth_token in the browser's cookie jar
  user,        \* AuthProvider: the user the page shows
  loading,     \* AuthProvider: has no refresh ended yet?
  busy,        \* LoginInner: is the submit button disabled?
  call,        \* [Calls -> Call \cup {None}]: the calls under way
  acked,       \* history: the passwords of the registrations of each email answered 201
  last,        \* history: the call that ended last
  unreachable, \* history: did the last /me, or its answer, fail?
  overlapped,  \* history: has a call overlapped with another since no call was under way?
  mixed        \* history: did the /me that decided the page come from such calls?

page == <<user, loading, busy>>
history == <<acked, last, unreachable, overlapped, mixed>>
vars == <<users, now, cookie, user, loading, busy, call, acked, last, unreachable,
          overlapped, mixed>>

Kinds == {"mount", "login", "register", "logout"}
Stages == {"sent", "ok", "refused", "refresh", "me", "told"}

\* here: is the component that started it still on the page?
Call == [kind : Kinds, stage : Stages, email : Emails \cup {None},
         pw : Passwords \cup {None}, token : Token \cup {None},
         answer : Emails \cup {None, Failed, Nobody}, here : BOOLEAN]

ASSUME NamesAssumption ==
  /\ None \notin Emails \cup Passwords \cup {Failed, Nobody} \cup Token \cup Call
  /\ {Failed, Nobody} \cap Emails = {}
ASSUME ClockAssumption == Life \in Nat \ {0} /\ MaxNow \in Nat

NewCall(kind, stage, e, p) ==
  [kind |-> kind, stage |-> stage, email |-> e, pw |-> p,
   token |-> None, answer |-> None, here |-> TRUE]

Quiet == \A c \in Calls : call[c] = None

Valid(t) == t # None /\ now < t.exp

Step(c, stage) == call' = [call EXCEPT ![c].stage = stage]

\* A page is loaded without knowing its user; AuthProvider's effect calls refresh.
Init ==
  /\ users = [e \in Emails |-> None]
  /\ now = 0
  /\ cookie = None
  /\ user = None /\ loading = TRUE /\ busy = FALSE
  /\ \E c \in Calls :
       call = [d \in Calls |-> IF d = c THEN NewCall("mount", "refresh", None, None) ELSE None]
  /\ acked = [e \in Emails |-> <<>>]
  /\ last = "mount" /\ unreachable = FALSE /\ overlapped = FALSE /\ mixed = FALSE

Start(c, kind, e, p) ==
  /\ call[c] = None
  /\ call' = [call EXCEPT ![c] = NewCall(kind, "sent", e, p)]
  /\ overlapped' = ~ Quiet

\* The call returns.  Its setBusy(false) is lost on a form that is gone.
End(c) ==
  /\ call' = [call EXCEPT ![c] = None]
  /\ busy' = IF call[c].kind \in {"login", "register"} /\ call[c].here THEN FALSE ELSE busy
  /\ last' = call[c].kind

(***************************************************************************)
(* The user.                                                               *)
(***************************************************************************)

Submit(c, kind, e, p) ==
  /\ ~ loading /\ user = None /\ ~ busy
  /\ kind \in {"login", "register"}
  /\ Start(c, kind, e, p)
  /\ busy' = TRUE
  /\ UNCHANGED <<users, now, cookie, user, loading, acked, last, unreachable, mixed>>

\* SIGN OUT is not disabled while a call is under way.
SignOut(c) ==
  /\ user # None
  /\ Start(c, "logout", None, None)
  /\ UNCHANGED <<users, now, cookie, page, acked, last, unreachable, mixed>>

\* To another page and back: the form is a new one, the calls go on.
LeaveForm ==
  /\ \E c \in Calls : call[c] # None /\ call[c].here /\ call[c].kind # "mount"
  /\ busy' = FALSE
  /\ call' = [c \in Calls |-> IF call[c] = None THEN None ELSE [call[c] EXCEPT !.here = FALSE]]
  /\ UNCHANGED <<users, now, cookie, user, loading, history>>

\* The page is loaded again: the calls are gone, the cookie stays.
Reload ==
  /\ user' = None /\ loading' = TRUE /\ busy' = FALSE
  /\ \E c \in Calls :
       call' = [d \in Calls |-> IF d = c THEN NewCall("mount", "refresh", None, None) ELSE None]
  /\ last' = "mount" /\ overlapped' = FALSE
  /\ UNCHANGED <<users, now, cookie, acked, unreachable, mixed>>

(***************************************************************************)
(* The backend.                                                            *)
(***************************************************************************)

\* Faulty variant: INSERT .. ON CONFLICT DO UPDATE.
RegisterUpsert(c) ==
  /\ call[c] # None /\ call[c].kind = "register" /\ call[c].stage = "sent"
  /\ users' = [users EXCEPT ![call[c].email] = call[c].pw]
  /\ Step(c, "ok")
  /\ UNCHANGED <<now, cookie, page, history>>

\* INSERT INTO users; users.email is UNIQUE: 201 or 409.
Register(c) ==
  /\ call[c] # None /\ call[c].kind = "register" /\ call[c].stage = "sent"
  /\ \/ /\ users[call[c].email] = None
        /\ users' = [users EXCEPT ![call[c].email] = call[c].pw]
        /\ Step(c, "ok")
     \/ /\ users[call[c].email] # None
        /\ Step(c, "refused") /\ UNCHANGED users
  /\ UNCHANGED <<now, cookie, page, history>>

\* GetUserByEmail, ComparePassword, IssueToken: 200 with the cookie, or 401.
Login(c) ==
  /\ call[c] # None /\ call[c].kind = "login" /\ call[c].stage = "sent"
  /\ \/ /\ users[call[c].email] = call[c].pw
        /\ call' = [call EXCEPT ![c].stage = "ok",
                      ![c].token = [sub |-> call[c].email, exp |-> now + Life]]
     \/ users[call[c].email] # call[c].pw /\ Step(c, "refused")
  /\ UNCHANGED <<users, now, cookie, page, history>>

\* Faulty variant: the attributes of the two cookies differ, so it is not deleted.
LogoutKeepsCookie(c) ==
  /\ call[c] # None /\ call[c].kind = "logout" /\ call[c].stage = "sent"
  /\ call' = [call EXCEPT ![c].stage = "ok", ![c].token = cookie]
  /\ UNCHANGED <<users, now, cookie, page, history>>

\* 204 with an empty cookie that has expired.
Logout(c) ==
  /\ call[c] # None /\ call[c].kind = "logout" /\ call[c].stage = "sent"
  /\ Step(c, "ok")
  /\ UNCHANGED <<users, now, cookie, page, history>>

\* RequireAuth verifies the token that was sent; a user is never deleted.
Me(c) ==
  /\ call[c] # None /\ call[c].stage = "me"
  /\ call' = [call EXCEPT ![c].stage = "told",
                ![c].answer = IF Valid(call[c].token) THEN call[c].token.sub ELSE None]
  /\ UNCHANGED <<users, now, cookie, page, history>>

\* The database or the network fails.
RequestFails(c) ==
  /\ call[c] # None
  /\ \/ call[c].stage \in {"sent", "ok"} /\ Step(c, "refused")
     \/ /\ call[c].stage \in {"me", "told"}
        /\ call' = [call EXCEPT ![c].stage = "told", ![c].answer = Failed]
     \/ /\ call[c].stage = "told" /\ call[c].answer \in Emails
        /\ call' = [call EXCEPT ![c].answer = Nobody]
  /\ UNCHANGED <<users, now, cookie, page, history>>

Tick ==
  /\ now < MaxNow
  /\ now' = now + 1
  /\ UNCHANGED <<users, cookie, page, call, history>>

(***************************************************************************)
(* The callbacks in the browser.                                           *)
(***************************************************************************)

\* The answer arrives: Set-Cookie is obeyed, and refresh is next.
Accepted(c) ==
  /\ call[c] # None /\ call[c].stage = "ok"
  /\ cookie' = IF call[c].kind = "register" THEN cookie ELSE call[c].token
  /\ acked' = IF call[c].kind = "register"
              THEN [acked EXCEPT ![call[c].email] = Append(@, call[c].pw)] ELSE acked
  /\ call' = [call EXCEPT ![c].stage = "refresh", ![c].token = None]
  /\ UNCHANGED <<users, now, page, last, unreachable, overlapped, mixed>>

\* submit shows the error and ends; signOut ignores it, and goes on as a refresh.
Refused(c) ==
  /\ call[c] # None /\ call[c].stage = "refused"
  /\ \/ /\ call[c].kind = "logout"
        /\ call' = [call EXCEPT ![c].stage = "refresh", ![c].kind = "mount"]
        /\ UNCHANGED <<busy, last>>
     \/ call[c].kind # "logout" /\ End(c)
  /\ UNCHANGED <<users, now, cookie, user, loading, acked, unreachable, overlapped, mixed>>

\* refresh sends GET /me with the cookie of that moment.
SendMe(c) ==
  /\ call[c] # None /\ call[c].stage = "refresh"
  /\ call' = [call EXCEPT ![c].stage = "me", ![c].token = cookie]
  /\ UNCHANGED <<users, now, cookie, page, history>>

\* Faulty variant: the user is kept if /me does not answer 200.
MeArrivesKeepsUser(c) ==
  /\ call[c] # None /\ call[c].stage = "told"
  /\ user' = IF call[c].answer \in Emails \cup {Nobody} THEN call[c].answer ELSE user
  /\ loading' = FALSE
  /\ unreachable' = (call[c].answer \in {Failed, Nobody})
  /\ mixed' = overlapped
  /\ End(c)
  /\ UNCHANGED <<users, now, cookie, acked, overlapped>>

\* setUser(await api.me()), or setUser(null) for whatever error; then the caller
\* of refresh returns.
MeArrives(c) ==
  /\ call[c] # None /\ call[c].stage = "told"
  /\ user' = IF call[c].answer \in Emails \cup {Nobody} THEN call[c].answer ELSE None
  /\ loading' = FALSE
  /\ unreachable' = (call[c].answer \in {Failed, Nobody})
  /\ mixed' = overlapped
  /\ End(c)
  /\ UNCHANGED <<users, now, cookie, acked, overlapped>>
-----------------------------------------------------------------------------
Backend(c) == Register(c) \/ Login(c) \/ Logout(c) \/ Me(c) \/ RequestFails(c)

Callback(c) == Accepted(c) \/ Refused(c) \/ SendMe(c) \/ MeArrives(c)

User(c) ==
  \/ \E kind \in Kinds, e \in Emails, p \in Passwords : Submit(c, kind, e, p)
  \/ SignOut(c)

Next ==
  \/ \E c \in Calls : User(c) \/ Backend(c) \/ Callback(c)
  \/ LeaveForm \/ Reload \/ Tick

Spec == Init /\ [][Next]_vars
-----------------------------------------------------------------------------
\* Of all registrations of one email one at most is answered 201, and its password is
\* the one that logs in from then on (auth/repository.go, CreateUser).
AckedPasswordHolds ==
  \A e \in Emails : Len(acked[e]) <= 1 /\ \A i \in DOMAIN acked[e] : acked[e][i] = users[e]

\* At rest the page shows the user of its cookie, and no user without one, unless the
\* /me that decided it came from calls that overlapped: then one refresh without
\* another call beside it, or a reload, puts the page right.  A user whose token has
\* run out stays shown until the next refresh (api.tsx, refresh).
PageShowsSession ==
  Quiet /\ ~ mixed =>
    /\ user \in Emails => cookie # None /\ cookie.sub = user
    /\ user = None => ~ Valid(cookie) \/ unreachable
    /\ user = Nobody => cookie # None /\ unreachable

\* A sign out that was answered, and ran without another call beside it, has ended the
\* session when it returns, and the page says so, whatever it said before
\* (auth/handler.go, Logout: the cookie must be deleted).
SignOutEndsSession ==
  Quiet /\ ~ overlapped /\ last = "logout" => user = None /\ cookie = None
=============================================================================
