--------------------------- MODULE AuthSessionProofs ---------------------------
(***************************************************************************)
(* Proofs that the page shows the session of its cookie, that a sign out   *)
(* ends it and that a registration that was answered holds, for any        *)
(* accounts, calls and lifetimes.                                          *)
(*                                                                         *)
(* The two properties of the page speak of the time when no call is under  *)
(* way.  What carries them over a call is SoloInv: as long as the calls do *)
(* not overlap there is one at most, nobody else changes the cookie, and   *)
(* so the answer that arrives is about the cookie that is there.  PageInv  *)
(* says when the page is right: whenever no refresh is due or under way,   *)
(* also beside other calls, if the last one came from such a call.         *)
(***************************************************************************)
EXTENDS AuthSession, TLAPS

Refreshing == {"refresh", "me", "told"}

TypeInv ==
  /\ users \in [Emails -> Passwords \cup {None}]
  /\ now \in Nat
  /\ cookie \in Token \cup {None}
  /\ user \in Emails \cup {None, Nobody}
  /\ loading \in BOOLEAN /\ busy \in BOOLEAN
  /\ unreachable \in BOOLEAN /\ overlapped \in BOOLEAN /\ mixed \in BOOLEAN
  /\ last \in Kinds
  /\ call \in [Calls -> Call \cup {None}]

\* The stages a call of its kind passes through.
StagesInv ==
  \A c \in Calls : call[c] # None =>
    /\ call[c].kind = "mount" => call[c].stage \in {"refresh", "me", "told"}
    /\ call[c].kind \in {"login", "register"} => call[c].email \in Emails /\ call[c].pw \in Passwords
    /\ call[c].kind = "login" /\ call[c].stage = "ok" => call[c].token \in Token
    /\ call[c].kind = "logout" /\ call[c].stage \in {"sent", "ok"} => call[c].token = None

\* What c has registered when its 201 is on the way.
Registers(c, e) ==
  call[c] # None /\ call[c].kind = "register" /\ call[c].stage = "ok" /\ call[c].email = e

\* A registration that is answered, or will be, has its row, and is the only one.
RowsInv ==
  /\ acked \in [Emails -> Seq(Passwords)]
  /\ AckedPasswordHolds
  /\ \A c \in Calls, e \in Emails : Registers(c, e) =>
       /\ users[e] = call[c].pw /\ Len(acked[e]) = 0
       /\ \A d \in Calls : Registers(d, e) => d = c

\* What /me has answered is true of the token that was sent.
AnswersInv ==
  \A c \in Calls : call[c] # None /\ call[c].stage = "told" =>
    /\ call[c].answer \in Emails => call[c].token # None /\ call[c].token.sub = call[c].answer
    /\ call[c].answer = Nobody => call[c].token # None
    /\ call[c].answer = None => ~ Valid(call[c].token)

\* The page is true to its cookie.
PageIsTrue ==
  /\ user \in Emails => cookie # None /\ cookie.sub = user
  /\ user = None => ~ Valid(cookie) \/ unreachable
  /\ user = Nobody => cookie # None /\ unreachable

\* No other call is under way.
Alone(c) == \A d \in Calls : call[d] # None => d = c

\* Where the one call that is under way stands to the cookie.
SoloCall(c) ==
  /\ call[c].stage \in {"me", "told"} => call[c].token = cookie
  /\ call[c].kind = "logout" /\ call[c].stage \in Refreshing => cookie = None

SoloInv ==
  ~ overlapped =>
    /\ \A c \in Calls : call[c] # None => Alone(c) /\ SoloCall(c)
    /\ Quiet /\ last = "logout" => user = None /\ cookie = None

\* No refresh is due or under way.
Settled == \A c \in Calls : call[c] # None => call[c].stage \notin Refreshing

PageInv == ~ mixed /\ Settled => PageIsTrue

IInv == TypeInv /\ StagesInv /\ RowsInv /\ AnswersInv /\ SoloInv /\ PageInv
-----------------------------------------------------------------------------
\* What writing one entry of call does.
LEMMA CallChanges ==
  ASSUME TypeInv, NEW c \in Calls, NEW k \in Call \cup {None}, call' = [call EXCEPT ![c] = k]
  PROVE  /\ call' \in [Calls -> Call \cup {None}]
         /\ call'[c] = k
         /\ \A d \in Calls : d # c => call'[d] = call[d]
  BY DEF TypeInv

\* A call that moves to another stage is still a call.
LEMMA NextStage ==
  ASSUME NEW k \in Call, NEW s \in Stages
  PROVE  /\ [k EXCEPT !.stage = s] \in Call
         /\ [k EXCEPT !.stage = s, !.kind = "mount"] \in Call
         /\ \A t \in Token \cup {None} : [k EXCEPT !.stage = s, !.token = t] \in Call
         /\ \A a \in Emails \cup {None, Failed, Nobody} :
              [k EXCEPT !.stage = s, !.answer = a] \in Call
  BY DEF Call, Kinds

\* A step of c that no refresh preceded leaves a page that was right as it is.
LEMMA PageStays ==
  ASSUME PageInv, NEW c \in Calls, call[c] # None => call[c].stage \notin Refreshing,
         \A d \in Calls : d # c => call'[d] = call[d],
         UNCHANGED <<now, cookie, user, unreachable, mixed>>
  PROVE  PageInv'
  <1>1. Settled' => Settled
    BY DEF Settled
  <1>2. PageIsTrue' = PageIsTrue
    BY DEF PageIsTrue, Valid
  <1> QED BY <1>1, <1>2 DEF PageInv

\* While a refresh is due or under way nothing is claimed of the page.
LEMMA PageIsOpen ==
  ASSUME NEW c \in Calls, call'[c] # None, call'[c].stage \in Refreshing
  PROVE  PageInv'
  BY DEF PageInv, Settled

\* A step that neither registers nor answers a registration.
LEMMA RowsStay ==
  ASSUME RowsInv, UNCHANGED <<users, acked>>,
         \A d \in Calls, e \in Emails :
           Registers(d, e)' => Registers(d, e) /\ call'[d].pw = call[d].pw
  PROVE  RowsInv'
  BY DEF RowsInv, AckedPasswordHolds

LEMMA InitIInv == Init => IInv
  <1> SUFFICES ASSUME Init PROVE IInv
    OBVIOUS
  <1> USE NamesAssumption
  <1>1. PICK c \in Calls :
          call = [d \in Calls |-> IF d = c THEN NewCall("mount", "refresh", None, None) ELSE None]
    BY DEF Init
  <1>2. NewCall("mount", "refresh", None, None) \in Call
    BY DEF NewCall, Call, Kinds, Stages
  <1>3. TypeInv
    BY <1>1, <1>2 DEF Init, TypeInv, Kinds
  <1>4. StagesInv /\ RowsInv /\ AnswersInv
    BY <1>1 DEF Init, StagesInv, RowsInv, AnswersInv, AckedPasswordHolds, Registers, NewCall
  <1>5. SoloInv
    <2>1. call[c] # None /\ call[c].kind = "mount" /\ call[c].stage = "refresh" /\ ~ Quiet
      BY <1>1, <1>2 DEF NewCall, Quiet
    <2>2. \A d \in Calls : call[d] # None => d = c
      BY <1>1
    <2> QED BY <2>1, <2>2 DEF SoloInv, SoloCall, Alone
  <1>6. PageInv
    BY <1>1, <1>2 DEF PageInv, Settled, Refreshing, NewCall
  <1> QED BY <1>3, <1>4, <1>5, <1>6 DEF IInv

(***************************************************************************)
(* One lemma for each action.  The cases that matter are in SoloInv: a     *)
(* call that starts finds the page quiet, or overlapped is set; the step   *)
(* of a call that is alone changes what SoloCall says of its stage.        *)
(***************************************************************************)
LEMMA SubmitKeeps ==
  ASSUME IInv, NEW c \in Calls, NEW kind \in Kinds, NEW e \in Emails, NEW p \in Passwords, Submit(c, kind, e, p)
  PROVE  IInv'
  <1> USE NamesAssumption, ClockAssumption DEF IInv
  <1>0. /\ call' = [call EXCEPT ![c] = NewCall(kind, "sent", e, p)]
        /\ NewCall(kind, "sent", e, p) \in Call
        /\ NewCall(kind, "sent", e, p).stage = "sent"
    BY DEF NewCall, Call, Kinds, Stages, Submit, Start
  <1>1. TypeInv'
    BY DEF TypeInv, Call, Kinds, Stages, Token, Submit, Start, NewCall
  <1>2. StagesInv'
    BY DEF TypeInv, StagesInv, Call, Submit, Start, NewCall
  <1>3. RowsInv'
    <2>1. \A d \in Calls, m \in Emails :
            Registers(d, m)' => Registers(d, m) /\ call'[d].pw = call[d].pw
      BY DEF TypeInv, StagesInv, Call, Registers, Submit, Start, NewCall
    <2> QED BY <2>1, RowsStay DEF Submit, Start, NewCall
  <1>4. AnswersInv'
    BY DEF TypeInv, AnswersInv, Call, Token, Valid, Submit, Start, NewCall
  <1>5. SoloInv'
    <2> SUFFICES ASSUME ~ overlapped' PROVE SoloInv'
      BY DEF SoloInv
    <2>1. Quiet
      BY DEF Submit, Start
    <2>2. call'[c] # None /\ call'[c].stage = "sent" /\ \A d \in Calls : d # c => call'[d] = None
      BY <2>1, <1>0 DEF TypeInv, Quiet
    <2> QED BY <2>2 DEF SoloInv, SoloCall, Alone, Quiet, Refreshing
  <1>10. PageInv'
    <2>1. call[c] # None => call[c].stage \notin Refreshing
      BY DEF Submit, Start, Refreshing
    <2>2. \A d \in Calls : d # c => call'[d] = call[d]
      BY DEF TypeInv, Submit, Start
    <2>3. UNCHANGED <<now, cookie, user, unreachable, mixed>>
      BY DEF Submit, Start, page, history
    <2> QED BY <2>1, <2>2, <2>3, PageStays
  <1> QED BY <1>1, <1>2, <1>3, <1>4, <1>5, <1>10

LEMMA SignOutKeeps ==
  ASSUME IInv, NEW c \in Calls, SignOut(c)
  PROVE  IInv'
  <1> USE NamesAssumption, ClockAssumption DEF IInv
  <1>0. /\ call' = [call EXCEPT ![c] = NewCall("logout", "sent", None, None)]
        /\ NewCall("logout", "sent", None, None) \in Call
        /\ NewCall("logout", "sent", None, None).stage = "sent"
    BY DEF NewCall, Call, Kinds, Stages, SignOut, Start
  <1>1. TypeInv'
    BY DEF TypeInv, Call, Kinds, Stages, Token, SignOut, Start, NewCall, page
  <1>2. StagesInv'
    BY DEF TypeInv, StagesInv, Call, SignOut, Start, NewCall, page
  <1>3. RowsInv'
    <2>1. \A d \in Calls, m \in Emails :
            Registers(d, m)' => Registers(d, m) /\ call'[d].pw = call[d].pw
      BY DEF TypeInv, StagesInv, Call, Registers, SignOut, Start, NewCall, page
    <2> QED BY <2>1, RowsStay DEF SignOut, Start, NewCall, page
  <1>4. AnswersInv'
    BY DEF TypeInv, AnswersInv, Call, Token, Valid, SignOut, Start, NewCall, page
  <1>5. SoloInv'
    <2> SUFFICES ASSUME ~ overlapped' PROVE SoloInv'
      BY DEF SoloInv
    <2>1. Quiet
      BY DEF SignOut, Start
    <2>2. call'[c] # None /\ call'[c].stage = "sent" /\ \A d \in Calls : d # c => call'[d] = None
      BY <2>1, <1>0 DEF TypeInv, Quiet
    <2> QED BY <2>2 DEF SoloInv, SoloCall, Alone, Quiet, Refreshing
  <1>10. PageInv'
    <2>1. call[c] # None => call[c].stage \notin Refreshing
      BY DEF SignOut, Start, Refreshing
    <2>2. \A d \in Calls : d # c => call'[d] = call[d]
      BY DEF TypeInv, SignOut, Start
    <2>3. UNCHANGED <<now, cookie, user, unreachable, mixed>>
      BY DEF SignOut, Start, page, history
    <2> QED BY <2>1, <2>2, <2>3, PageStays
  <1> QED BY <1>1, <1>2, <1>3, <1>4, <1>5, <1>10

LEMMA LeaveFormKeeps ==
  ASSUME IInv, LeaveForm
  PROVE  IInv'
  <1> USE NamesAssumption, ClockAssumption DEF IInv
  <1> DEFINE Gone(c) == [call[c] EXCEPT !.here = FALSE]
  <1>0. \A c \in Calls :
          /\ call[c] = None => call'[c] = None
          /\ call[c] # None =>
               /\ call'[c] \in Call /\ call'[c] # None
               /\ call'[c].kind = call[c].kind /\ call'[c].stage = call[c].stage
               /\ call'[c].email = call[c].email /\ call'[c].pw = call[c].pw
               /\ call'[c].token = call[c].token /\ call'[c].answer = call[c].answer
    <2>1. \A c \in Calls : call'[c] = IF call[c] = None THEN None ELSE Gone(c)
      BY DEF LeaveForm
    <2>2. ASSUME NEW c \in Calls, call[c] # None
          PROVE  /\ Gone(c) \in Call /\ Gone(c) # None
                 /\ Gone(c).kind = call[c].kind /\ Gone(c).stage = call[c].stage
                 /\ Gone(c).email = call[c].email /\ Gone(c).pw = call[c].pw
                 /\ Gone(c).token = call[c].token /\ Gone(c).answer = call[c].answer
      <3>1. call[c] \in Call
        BY <2>2 DEF TypeInv
      <3>2. Gone(c) \in Call
        BY <3>1 DEF Call
      <3> QED BY <3>1, <3>2 DEF Call
    <2> QED BY <2>1, <2>2
  <1>1. TypeInv'
    <2>1. call' \in [Calls -> Call \cup {None}]
      <3>1. DOMAIN call' = Calls /\ call' = [c \in Calls |-> call'[c]]
        BY DEF LeaveForm
      <3>2. \A c \in Calls : call'[c] \in Call \cup {None}
        BY <1>0
      <3> QED BY <3>1, <3>2
    <2> QED BY <2>1 DEF LeaveForm, history, TypeInv
  <1>2. StagesInv'
    BY DEF TypeInv, StagesInv, Call, LeaveForm, history
  <1>3. RowsInv'
    <2>1. \A d \in Calls, m \in Emails :
            Registers(d, m)' => Registers(d, m) /\ call'[d].pw = call[d].pw
      BY DEF TypeInv, StagesInv, Call, Registers, LeaveForm, history
    <2> QED BY <2>1, RowsStay DEF LeaveForm, history
  <1>4. AnswersInv'
    BY DEF TypeInv, AnswersInv, Call, Token, Valid, LeaveForm, history
  <1>5. SoloInv'
    <2>1. UNCHANGED <<users, now, cookie, user, loading, history>>
      BY DEF LeaveForm
    <2>2. Quiet' = Quiet
      BY <1>0 DEF Quiet
    <2>3. ASSUME NEW c \in Calls, call[c] # None, SoloCall(c) PROVE SoloCall(c)'
      BY <1>0, <2>1, <2>2, <2>3 DEF SoloCall
    <2>4. \A c \in Calls : call'[c] # None => call[c] # None
      BY <1>0
    <2>5. ASSUME NEW c \in Calls, Alone(c) PROVE Alone(c)'
      BY <2>4, <2>5 DEF Alone
    <2> QED BY <2>1, <2>2, <2>3, <2>4, <2>5 DEF SoloInv, history
  <1>10. PageInv'
    <2>1. UNCHANGED <<users, now, cookie, user, loading, history>>
      BY DEF LeaveForm
    <2>2. Settled' => Settled
      BY <1>0 DEF Settled
    <2> QED BY <2>1, <2>2 DEF PageInv, PageIsTrue, Valid, history
  <1> QED BY <1>1, <1>2, <1>3, <1>4, <1>5, <1>10

LEMMA ReloadKeeps ==
  ASSUME IInv, Reload
  PROVE  IInv'
  <1> USE NamesAssumption, ClockAssumption DEF IInv
  <1>0. PICK c \in Calls :
          call' = [d \in Calls |-> IF d = c THEN NewCall("mount", "refresh", None, None) ELSE None]
    BY DEF Reload
  <1>6. NewCall("mount", "refresh", None, None) \in Call
    BY DEF NewCall, Call, Kinds, Stages
  <1>1. TypeInv'
    BY <1>0, <1>6 DEF Reload, TypeInv, Kinds
  <1>2. StagesInv'
    BY DEF TypeInv, StagesInv, Call, Reload, NewCall
  <1>3. RowsInv'
    <2>1. \A d \in Calls, m \in Emails :
            Registers(d, m)' => Registers(d, m) /\ call'[d].pw = call[d].pw
      BY DEF TypeInv, StagesInv, Call, Registers, Reload, NewCall
    <2> QED BY <2>1, RowsStay DEF Reload, NewCall
  <1>4. AnswersInv'
    BY DEF TypeInv, AnswersInv, Call, Token, Valid, Reload, NewCall
  <1>5. SoloInv'
    <2>1. call'[c] # None /\ call'[c].kind = "mount" /\ call'[c].stage = "refresh"
      BY <1>0, <1>6 DEF NewCall
    <2>2. \A d \in Calls : call'[d] # None => d = c
      BY <1>0
    <2> QED BY <2>1, <2>2 DEF SoloInv, SoloCall, Alone, Quiet
  <1>10. PageInv'
    <2>1. call'[c] # None /\ call'[c].stage = "refresh"
      BY <1>0, <1>6 DEF NewCall
    <2> QED BY <2>1, PageIsOpen DEF Refreshing
  <1> QED BY <1>1, <1>2, <1>3, <1>4, <1>5, <1>10

LEMMA RegisterKeeps ==
  ASSUME IInv, NEW c \in Calls, Register(c)
  PROVE  IInv'
  <1> USE NamesAssumption, ClockAssumption DEF IInv
  <1>0. call'[c] \in Call /\ call'[c].stage \in {"ok", "refused"}
    BY DEF TypeInv, Call, Kinds, Stages, Token, Register, Step, page, history
  <1>1. TypeInv'
    BY DEF TypeInv, Call, Kinds, Stages, Token, Register, Step, page, history
  <1>2. StagesInv'
    BY DEF TypeInv, StagesInv, Call, Register, Step, page, history
  <1>3. RowsInv'
    <2> DEFINE e0 == call[c].email
    <2>0. /\ call[c] \in Call /\ call[c].kind = "register" /\ call[c].stage = "sent" /\ e0 \in Emails
          /\ call[c].pw \in Passwords /\ acked' = acked
      BY DEF TypeInv, StagesInv, Register, Call, history
    <2>1. \A d \in Calls : d # c => call'[d] = call[d]
      BY DEF TypeInv, Register, Step
    <2>2. CASE users[e0] = None /\ users' = [users EXCEPT ![e0] = call[c].pw] /\ Step(c, "ok")
      <3>1. call'[c] # None /\ call'[c].email = e0 /\ call'[c].pw = call[c].pw
        <4> DEFINE k == [call[c] EXCEPT !.stage = "ok"]
        <4>1. k \in Call /\ k # None
          BY <2>0, NextStage DEF Stages
        <4>2. k.email = e0 /\ k.pw = call[c].pw
          BY <2>0 DEF Call
        <4>3. call'[c] = k
          BY <2>2 DEF Step, TypeInv
        <4> HIDE DEF k
        <4> QED BY <4>1, <4>2, <4>3
      <3>2. users'[e0] = call[c].pw /\ \A e \in Emails : e # e0 => users'[e] = users[e]
        BY <2>0, <2>2 DEF TypeInv
      <3>3. Len(acked[e0]) = 0
        <4>1. acked[e0] \in Seq(Passwords) /\ Len(acked[e0]) <= 1
          BY <2>0 DEF RowsInv, AckedPasswordHolds
        <4>2. Len(acked[e0]) = 1 => acked[e0][1] \in Passwords /\ 1 \in DOMAIN acked[e0]
          BY <4>1
        <4> QED BY <4>1, <4>2, <2>0, <2>2 DEF RowsInv, AckedPasswordHolds
      <3>4. ASSUME NEW d \in Calls, NEW e \in Emails, Registers(d, e)'
            PROVE  \/ d = c /\ e = e0
                   \/ d # c /\ e # e0 /\ Registers(d, e) /\ call'[d].pw = call[d].pw
        <4>1. CASE d = c
          BY <4>1, <3>4, <3>1 DEF Registers
        <4>2. CASE d # c
          <5>1. Registers(d, e) /\ call'[d].pw = call[d].pw
            BY <2>1, <3>4, <4>2 DEF Registers
          <5>2. users[e] = call[d].pw /\ call[d].pw \in Passwords
            BY <5>1 DEF RowsInv, Registers, StagesInv
          <5> QED BY <5>1, <5>2, <4>2, <2>2
        <4> QED BY <4>1, <4>2
      <3>5. AckedPasswordHolds'
        <4> SUFFICES ASSUME NEW e \in Emails
                     PROVE  Len(acked[e]) <= 1 /\ \A i \in DOMAIN acked[e] : acked[e][i] = users'[e]
          BY <2>0 DEF AckedPasswordHolds
        <4>1. CASE e = e0
          <5>1. acked[e] \in Seq(Passwords)
            BY DEF RowsInv
          <5>2. DOMAIN acked[e] = {}
            BY <3>3, <4>1, <5>1
          <5> QED BY <3>3, <4>1, <5>2
        <4>2. CASE e # e0
          BY <4>2, <3>2 DEF RowsInv, AckedPasswordHolds
        <4> QED BY <4>1, <4>2
      <3>6. ASSUME NEW d \in Calls, NEW e \in Emails, Registers(d, e)'
            PROVE  /\ users'[e] = call'[d].pw /\ Len(acked[e]) = 0
                   /\ \A g \in Calls : Registers(g, e)' => g = d
        <4>1. CASE d = c /\ e = e0
          BY <4>1, <3>1, <3>2, <3>3, <3>4
        <4>2. CASE d # c /\ e # e0 /\ Registers(d, e) /\ call'[d].pw = call[d].pw
          BY <4>2, <3>2, <3>4 DEF RowsInv
        <4> QED BY <4>1, <4>2, <3>4, <3>6
      <3> QED BY <2>0, <3>5, <3>6 DEF RowsInv
    <2>3. CASE Step(c, "refused") /\ UNCHANGED users
      <3>1. call'[c].stage = "refused"
        BY <2>0, <2>3 DEF Step, TypeInv, Call
      <3>2. \A d \in Calls, e \in Emails :
              Registers(d, e)' => Registers(d, e) /\ call'[d].pw = call[d].pw
        BY <2>1, <3>1 DEF Registers
      <3> QED BY <2>0, <2>3, <3>2, RowsStay
    <2> QED BY <2>2, <2>3 DEF Register
  <1>4. AnswersInv'
    BY DEF TypeInv, AnswersInv, Call, Token, Valid, Register, Step, page, history
  <1>5. SoloInv'
    <2> SUFFICES ASSUME ~ overlapped' PROVE SoloInv'
      BY DEF SoloInv
    <2>1. ~ overlapped /\ Alone(c) /\ SoloCall(c)
      BY DEF SoloInv, Register, Step, page, history
    <2>2. call'[c] # None /\ \A d \in Calls : d # c => call'[d] = None
      BY <2>1, <1>0 DEF Alone, TypeInv, Register, Step, page, history
    <2>3. SoloCall(c)'
      BY <2>1, <1>0 DEF SoloCall, Refreshing, Valid, StagesInv, AnswersInv, Register, Step, page, history
    <2> QED BY <2>2, <2>3 DEF SoloInv, Alone, Quiet
  <1>10. PageInv'
    <2>1. call[c] # None => call[c].stage \notin Refreshing
      BY DEF Register, Step, Refreshing
    <2>2. \A d \in Calls : d # c => call'[d] = call[d]
      BY DEF TypeInv, Register, Step
    <2>3. UNCHANGED <<now, cookie, user, unreachable, mixed>>
      BY DEF Register, Step, page, history
    <2> QED BY <2>1, <2>2, <2>3, PageStays
  <1> QED BY <1>1, <1>2, <1>3, <1>4, <1>5, <1>10

LEMMA LoginKeeps ==
  ASSUME IInv, NEW c \in Calls, Login(c)
  PROVE  IInv'
  <1> USE NamesAssumption, ClockAssumption DEF IInv
  <1>0. call'[c] \in Call /\ call'[c].stage \in {"ok", "refused"}
    BY DEF TypeInv, Call, Kinds, Stages, Token, Login, Step, page, history
  <1>1. TypeInv'
    BY DEF TypeInv, Call, Kinds, Stages, Token, Login, Step, page, history
  <1>2. StagesInv'
    <2>1. ASSUME NEW d \in Calls, d # c PROVE call'[d] = call[d]
      BY <2>1 DEF TypeInv, Login, Step
    <2>2. call[c] \in Call /\ call[c] # None /\ call[c].kind = "login" /\ call[c].stage = "sent"
      BY DEF TypeInv, Login
    <2>3. call'[c].kind = "login" /\ call'[c].email = call[c].email /\ call'[c].pw = call[c].pw
      BY <2>2 DEF TypeInv, Login, Step, Call
    <2>4. call'[c].stage = "ok" => call'[c].token \in Token
      BY <2>2 DEF TypeInv, StagesInv, Login, Step, Call, Token
    <2> QED BY <2>1, <2>2, <2>3, <2>4 DEF StagesInv
  <1>3. RowsInv'
    <2>1. \A d \in Calls, m \in Emails :
            Registers(d, m)' => Registers(d, m) /\ call'[d].pw = call[d].pw
      BY DEF TypeInv, StagesInv, Call, Registers, Login, Step, page, history
    <2> QED BY <2>1, RowsStay DEF Login, Step, page, history
  <1>4. AnswersInv'
    BY DEF TypeInv, AnswersInv, Call, Token, Valid, Login, Step, page, history
  <1>5. SoloInv'
    <2> SUFFICES ASSUME ~ overlapped' PROVE SoloInv'
      BY DEF SoloInv
    <2>1. ~ overlapped /\ Alone(c) /\ SoloCall(c)
      BY DEF SoloInv, Login, Step, page, history
    <2>2. call'[c] # None /\ \A d \in Calls : d # c => call'[d] = None
      BY <2>1, <1>0 DEF Alone, TypeInv, Login, Step, page, history
    <2>3. SoloCall(c)'
      BY <2>1, <1>0 DEF SoloCall, Refreshing, Valid, StagesInv, AnswersInv, Login, Step, page, history
    <2> QED BY <2>2, <2>3 DEF SoloInv, Alone, Quiet
  <1>10. PageInv'
    <2>1. call[c] # None => call[c].stage \notin Refreshing
      BY DEF Login, Step, Refreshing
    <2>2. \A d \in Calls : d # c => call'[d] = call[d]
      BY DEF TypeInv, Login, Step
    <2>3. UNCHANGED <<now, cookie, user, unreachable, mixed>>
      BY DEF Login, Step, page, history
    <2> QED BY <2>1, <2>2, <2>3, PageStays
  <1> QED BY <1>1, <1>2, <1>3, <1>4, <1>5, <1>10

LEMMA LogoutKeeps ==
  ASSUME IInv, NEW c \in Calls, Logout(c)
  PROVE  IInv'
  <1> USE NamesAssumption, ClockAssumption DEF IInv
  <1>0. call'[c] \in Call /\ call'[c].stage = "ok"
    BY DEF TypeInv, Call, Kinds, Stages, Token, Logout, Step, page, history
  <1>1. TypeInv'
    BY DEF TypeInv, Call, Kinds, Stages, Token, Logout, Step, page, history
  <1>2. StagesInv'
    BY DEF TypeInv, StagesInv, Call, Logout, Step, page, history
  <1>3. RowsInv'
    <2>1. \A d \in Calls, m \in Emails :
            Registers(d, m)' => Registers(d, m) /\ call'[d].pw = call[d].pw
      BY DEF TypeInv, StagesInv, Call, Registers, Logout, Step, page, history
    <2> QED BY <2>1, RowsStay DEF Logout, Step, page, history
  <1>4. AnswersInv'
    BY DEF TypeInv, AnswersInv, Call, Token, Valid, Logout, Step, page, history
  <1>5. SoloInv'
    <2> SUFFICES ASSUME ~ overlapped' PROVE SoloInv'
      BY DEF SoloInv
    <2>1. ~ overlapped /\ Alone(c) /\ SoloCall(c)
      BY DEF SoloInv, Logout, Step, page, history
    <2>2. call'[c] # None /\ \A d \in Calls : d # c => call'[d] = None
      BY <2>1, <1>0 DEF Alone, TypeInv, Logout, Step, page, history
    <2>3. SoloCall(c)'
      BY <2>1, <1>0 DEF SoloCall, Refreshing, Valid, StagesInv, AnswersInv, Logout, Step, page, history
    <2> QED BY <2>2, <2>3 DEF SoloInv, Alone, Quiet
  <1>10. PageInv'
    <2>1. call[c] # None => call[c].stage \notin Refreshing
      BY DEF Logout, Step, Refreshing
    <2>2. \A d \in Calls : d # c => call'[d] = call[d]
      BY DEF TypeInv, Logout, Step
    <2>3. UNCHANGED <<now, cookie, user, unreachable, mixed>>
      BY DEF Logout, Step, page, history
    <2> QED BY <2>1, <2>2, <2>3, PageStays
  <1> QED BY <1>1, <1>2, <1>3, <1>4, <1>5, <1>10

LEMMA MeKeeps ==
  ASSUME IInv, NEW c \in Calls, Me(c)
  PROVE  IInv'
  <1> USE NamesAssumption, ClockAssumption DEF IInv
  <1> DEFINE a == IF Valid(call[c].token) THEN call[c].token.sub ELSE None
             k == [call[c] EXCEPT !.stage = "told", !.answer = a]
  <1>6. call[c] \in Call
    BY DEF TypeInv, Me
  <1>9. a \in Emails \cup {None}
    BY <1>6 DEF Valid, Call, Token
  <1>7. k \in Call
    BY <1>6, NextStage, <1>9 DEF TypeInv, Stages
  <1>8. call' = [call EXCEPT ![c] = k]
    BY DEF TypeInv, Me
  <1>0. /\ k \in Call /\ call' = [call EXCEPT ![c] = k]
        /\ call'[c] \in Call /\ call'[c].stage = "told" /\ call'[c].token = call[c].token /\ call'[c].kind = call[c].kind
    BY <1>6, <1>7, <1>8 DEF TypeInv, Call
  <1>1. TypeInv'
    BY <1>0, CallChanges DEF TypeInv, Me, page, history
  <1>2. StagesInv'
    BY DEF TypeInv, StagesInv, Call, Me, page, history
  <1>3. RowsInv'
    <2>1. \A d \in Calls, m \in Emails :
            Registers(d, m)' => Registers(d, m) /\ call'[d].pw = call[d].pw
      BY DEF TypeInv, StagesInv, Call, Registers, Me, page, history
    <2> QED BY <2>1, RowsStay DEF Me, page, history
  <1>4. AnswersInv'
    BY DEF TypeInv, AnswersInv, Call, Token, Valid, Me, page, history
  <1>5. SoloInv'
    <2> SUFFICES ASSUME ~ overlapped' PROVE SoloInv'
      BY DEF SoloInv
    <2>1. ~ overlapped /\ Alone(c) /\ SoloCall(c)
      BY DEF SoloInv, Me, page, history
    <2>2. call'[c] # None /\ \A d \in Calls : d # c => call'[d] = None
      BY <2>1, <1>0 DEF Alone, TypeInv, Me, page, history
    <2>3. SoloCall(c)'
      BY <2>1, <1>0 DEF SoloCall, Refreshing, Valid, StagesInv, AnswersInv, Me, page, history
    <2> QED BY <2>2, <2>3 DEF SoloInv, Alone, Quiet
  <1>10. PageInv'
    BY <1>0, PageIsOpen, NamesAssumption DEF Refreshing
  <1> QED BY <1>1, <1>2, <1>3, <1>4, <1>5, <1>10

LEMMA RequestFailsKeeps ==
  ASSUME IInv, NEW c \in Calls, RequestFails(c)
  PROVE  IInv'
  <1> USE NamesAssumption, ClockAssumption DEF IInv
  <1>0. call'[c] \in Call /\ call'[c].token = call[c].token /\ call'[c].kind = call[c].kind
    BY DEF TypeInv, Call, Kinds, Stages, Token, RequestFails, Step, page, history
  <1>1. TypeInv'
    BY DEF TypeInv, Call, Kinds, Stages, Token, RequestFails, Step, page, history
  <1>2. StagesInv'
    BY DEF TypeInv, StagesInv, Call, RequestFails, Step, page, history
  <1>3. RowsInv'
    <2>1. \A d \in Calls, m \in Emails :
            Registers(d, m)' => Registers(d, m) /\ call'[d].pw = call[d].pw
      BY DEF TypeInv, StagesInv, Call, Registers, RequestFails, Step, page, history
    <2> QED BY <2>1, RowsStay DEF RequestFails, Step, page, history
  <1>4. AnswersInv'
    <2>1. ASSUME NEW d \in Calls, d # c PROVE call'[d] = call[d]
      BY <2>1 DEF TypeInv, RequestFails, Step
    <2>2. call[c] \in Call /\ call[c] # None
      BY DEF TypeInv, RequestFails
    <2>3. CASE call[c].stage \in {"sent", "ok"} /\ Step(c, "refused")
      <3>1. call'[c].stage # "told"
        BY <2>2, <2>3 DEF Step, TypeInv, Call
      <3> QED BY <2>1, <3>1 DEF AnswersInv, Valid, RequestFails
    <2>4. CASE call' = [call EXCEPT ![c].stage = "told", ![c].answer = Failed]
      <3>1. call'[c].answer = Failed
        BY <2>2, <2>4 DEF TypeInv, Call
      <3> QED BY <2>1, <3>1 DEF AnswersInv, Valid, RequestFails, Failed, Nobody
    <2>5. CASE /\ call[c].stage = "told" /\ call[c].answer \in Emails
               /\ call' = [call EXCEPT ![c].answer = Nobody]
      <3>1. call'[c].answer = Nobody /\ call'[c].token = call[c].token /\ call[c].token # None
        BY <2>2, <2>5 DEF TypeInv, Call, AnswersInv
      <3> QED BY <2>1, <3>1 DEF AnswersInv, Valid, RequestFails, Nobody
    <2> QED BY <2>3, <2>4, <2>5 DEF RequestFails
  <1>5. SoloInv'
    <2> SUFFICES ASSUME ~ overlapped' PROVE SoloInv'
      BY DEF SoloInv
    <2>1. ~ overlapped /\ Alone(c) /\ SoloCall(c)
      BY DEF SoloInv, RequestFails, Step, page, history
    <2>2. call'[c] # None /\ \A d \in Calls : d # c => call'[d] = None
      BY <2>1, <1>0 DEF Alone, TypeInv, RequestFails, Step, page, history
    <2>3. SoloCall(c)'
      <3>1. UNCHANGED <<cookie, user, now, unreachable>>
        BY DEF RequestFails, page, history
      <3>3. call[c] \in Call
        BY DEF TypeInv, RequestFails
      <3>4. CASE call[c].stage \in {"sent", "ok"} /\ Step(c, "refused")
        <4>1. call'[c].stage = "refused"
          BY <3>3, <3>4 DEF Step, TypeInv, Call
        <4> QED BY <4>1 DEF SoloCall, Refreshing
      <3>5. CASE call[c].stage \in {"me", "told"} /\ call'[c].stage = "told"
        BY <2>1, <1>0, <3>1, <3>5 DEF SoloCall, Refreshing
      <3>6. \/ call[c].stage \in {"sent", "ok"} /\ Step(c, "refused")
            \/ call[c].stage \in {"me", "told"} /\ call'[c].stage = "told"
        <4>1. call[c].stage = "told" /\ call' = [call EXCEPT ![c].answer = Nobody] => call'[c].stage = "told"
          BY <3>3 DEF TypeInv, Call
        <4>2. call' = [call EXCEPT ![c].stage = "told", ![c].answer = Failed] => call'[c].stage = "told"
          BY <3>3 DEF TypeInv, Call
        <4>3. \/ call[c].stage \in {"sent", "ok"} /\ Step(c, "refused")
              \/ /\ call[c].stage \in {"me", "told"}
                 /\ call' = [call EXCEPT ![c].stage = "told", ![c].answer = Failed]
              \/ call[c].stage = "told" /\ call' = [call EXCEPT ![c].answer = Nobody]
          BY DEF RequestFails
        <4> QED BY <4>1, <4>2, <4>3
      <3> QED BY <3>4, <3>5, <3>6
    <2> QED BY <2>2, <2>3 DEF SoloInv, Alone, Quiet
  <1>10. PageInv'
    <2>1. call[c] \in Call /\ call[c] # None /\ call'[c] # None
      BY <1>0 DEF TypeInv, RequestFails
    <2>2. CASE call[c].stage \in {"sent", "ok"}
      <3>1. \A d \in Calls : d # c => call'[d] = call[d]
        BY DEF TypeInv, RequestFails, Step
      <3>2. UNCHANGED <<now, cookie, user, unreachable, mixed>>
        BY DEF RequestFails, page, history
      <3> QED BY <2>2, <3>1, <3>2, PageStays DEF Refreshing
    <2>3. CASE call[c].stage \in {"me", "told"}
      <3>1. call'[c].stage = "told"
        BY <2>1, <2>3 DEF TypeInv, RequestFails, Step, Call
      <3> QED BY <2>1, <3>1, PageIsOpen DEF Refreshing
    <2> QED BY <2>2, <2>3 DEF RequestFails
  <1> QED BY <1>1, <1>2, <1>3, <1>4, <1>5, <1>10

LEMMA AcceptedKeeps ==
  ASSUME IInv, NEW c \in Calls, Accepted(c)
  PROVE  IInv'
  <1> USE NamesAssumption, ClockAssumption DEF IInv
  <1> DEFINE k == [call[c] EXCEPT !.stage = "refresh", !.token = None]
  <1>6. call[c] \in Call
    BY DEF TypeInv, Accepted
  <1>7. k \in Call
    BY <1>6, NextStage DEF TypeInv, Stages
  <1>8. call' = [call EXCEPT ![c] = k]
    BY DEF TypeInv, Accepted
  <1>0. /\ k \in Call /\ call' = [call EXCEPT ![c] = k]
        /\ call'[c] \in Call /\ call'[c].stage = "refresh" /\ call'[c].kind = call[c].kind
    BY <1>6, <1>7, <1>8 DEF TypeInv, Call
  <1>1. TypeInv'
    <2>1. call' \in [Calls -> Call \cup {None}]
      BY <1>0, CallChanges
    <2>2. cookie' \in Token \cup {None}
      BY <1>6 DEF TypeInv, Accepted, Call
    <2> QED BY <2>1, <2>2 DEF TypeInv, Accepted, page
  <1>2. StagesInv'
    BY DEF TypeInv, StagesInv, Call, Accepted, page
  <1>3. RowsInv'
    <2> DEFINE e0 == call[c].email
    <2>0. users' = users /\ call[c] # None /\ call[c].stage = "ok"
      BY DEF Accepted
    <2>1. \A d \in Calls, e \in Emails :
            Registers(d, e)' => d # c /\ Registers(d, e) /\ call'[d].pw = call[d].pw
      BY <1>0, CallChanges DEF Registers
    <2>2. CASE call[c].kind # "register"
      BY <2>0, <2>1, <2>2, RowsStay DEF Accepted
    <2>3. CASE call[c].kind = "register"
      <3>1. e0 \in Emails /\ call[c].pw \in Passwords /\ Registers(c, e0)
        BY <2>0, <2>3 DEF StagesInv, Registers
      <3>2. /\ acked[e0] \in Seq(Passwords) /\ Len(acked[e0]) = 0 /\ users[e0] = call[c].pw
            /\ acked' = [acked EXCEPT ![e0] = Append(acked[e0], call[c].pw)]
        BY <3>1, <2>3 DEF RowsInv, Accepted
      <3>3. /\ acked' \in [Emails -> Seq(Passwords)]
            /\ \A e \in Emails : e # e0 => acked'[e] = acked[e]
            /\ acked'[e0] = Append(acked[e0], call[c].pw)
        BY <3>1, <3>2 DEF RowsInv
      <3>4. Len(acked'[e0]) = 1 /\ DOMAIN acked'[e0] = {1} /\ acked'[e0][1] = call[c].pw
        BY <3>1, <3>2, <3>3
      <3>5. AckedPasswordHolds'
        BY <2>0, <3>2, <3>3, <3>4 DEF AckedPasswordHolds, RowsInv
      <3>6. ASSUME NEW d \in Calls, NEW e \in Emails, Registers(d, e)' PROVE e # e0
        <4>1. d # c /\ Registers(d, e)
          BY <2>1, <3>6
        <4> QED BY <4>1, <3>1 DEF RowsInv
      <3>7. ASSUME NEW d \in Calls, NEW e \in Emails, Registers(d, e)'
            PROVE  /\ users'[e] = call'[d].pw /\ Len(acked'[e]) = 0
                   /\ \A g \in Calls : Registers(g, e)' => g = d
        <4>1. Registers(d, e) /\ call'[d].pw = call[d].pw /\ acked'[e] = acked[e]
          BY <2>1, <3>3, <3>6, <3>7
        <4> QED BY <4>1, <2>0, <2>1 DEF RowsInv
      <3> QED BY <3>3, <3>5, <3>7 DEF RowsInv
    <2> QED BY <2>2, <2>3
  <1>4. AnswersInv'
    BY DEF TypeInv, AnswersInv, Call, Token, Valid, Accepted, page
  <1>5. SoloInv'
    <2> SUFFICES ASSUME ~ overlapped' PROVE SoloInv'
      BY DEF SoloInv
    <2>1. ~ overlapped /\ Alone(c) /\ SoloCall(c)
      BY DEF SoloInv, history, Accepted, page
    <2>2. call'[c] # None /\ \A d \in Calls : d # c => call'[d] = None
      BY <2>1, <1>0 DEF Alone, TypeInv, Accepted, page
    <2>3. SoloCall(c)'
      BY <2>1, <1>0 DEF SoloCall, Refreshing, Valid, StagesInv, AnswersInv, Accepted, page
    <2> QED BY <2>2, <2>3 DEF SoloInv, Alone, Quiet
  <1>10. PageInv'
    BY <1>0, PageIsOpen, NamesAssumption DEF Refreshing
  <1> QED BY <1>1, <1>2, <1>3, <1>4, <1>5, <1>10

LEMMA SendMeKeeps ==
  ASSUME IInv, NEW c \in Calls, SendMe(c)
  PROVE  IInv'
  <1> USE NamesAssumption, ClockAssumption DEF IInv
  <1> DEFINE k == [call[c] EXCEPT !.stage = "me", !.token = cookie]
  <1>6. call[c] \in Call
    BY DEF TypeInv, SendMe
  <1>7. k \in Call
    BY <1>6, NextStage DEF TypeInv, Stages
  <1>8. call' = [call EXCEPT ![c] = k]
    BY DEF TypeInv, SendMe
  <1>0. /\ k \in Call /\ call' = [call EXCEPT ![c] = k]
        /\ call'[c] \in Call /\ call'[c].stage = "me" /\ call'[c].token = cookie /\ call'[c].kind = call[c].kind
    BY <1>6, <1>7, <1>8 DEF TypeInv, Call
  <1>1. TypeInv'
    BY <1>0, CallChanges DEF TypeInv, SendMe, page, history
  <1>2. StagesInv'
    BY DEF TypeInv, StagesInv, Call, SendMe, page, history
  <1>3. RowsInv'
    <2>1. \A d \in Calls, m \in Emails :
            Registers(d, m)' => Registers(d, m) /\ call'[d].pw = call[d].pw
      BY DEF TypeInv, StagesInv, Call, Registers, SendMe, page, history
    <2> QED BY <2>1, RowsStay DEF SendMe, page, history
  <1>4. AnswersInv'
    BY DEF TypeInv, AnswersInv, Call, Token, Valid, SendMe, page, history
  <1>5. SoloInv'
    <2> SUFFICES ASSUME ~ overlapped' PROVE SoloInv'
      BY DEF SoloInv
    <2>1. ~ overlapped /\ Alone(c) /\ SoloCall(c)
      BY DEF SoloInv, SendMe, page, history
    <2>2. call'[c] # None /\ \A d \in Calls : d # c => call'[d] = None
      BY <2>1, <1>0 DEF Alone, TypeInv, SendMe, page, history
    <2>3. SoloCall(c)'
      BY <2>1, <1>0 DEF SoloCall, Refreshing, Valid, StagesInv, AnswersInv, SendMe, page, history
    <2> QED BY <2>2, <2>3 DEF SoloInv, Alone, Quiet
  <1>10. PageInv'
    BY <1>0, PageIsOpen, NamesAssumption DEF Refreshing
  <1> QED BY <1>1, <1>2, <1>3, <1>4, <1>5, <1>10

LEMMA TickKeeps ==
  ASSUME IInv, Tick
  PROVE  IInv'
  <1> USE NamesAssumption, ClockAssumption DEF IInv
  <1>1. TypeInv'
    BY DEF TypeInv, Call, Kinds, Stages, Token, Tick, page, history
  <1>2. StagesInv'
    BY DEF TypeInv, StagesInv, Call, Tick, page, history
  <1>3. RowsInv'
    <2>1. \A d \in Calls, m \in Emails :
            Registers(d, m)' => Registers(d, m) /\ call'[d].pw = call[d].pw
      BY DEF TypeInv, StagesInv, Call, Registers, Tick, page, history
    <2> QED BY <2>1, RowsStay DEF Tick, page, history
  <1>4. AnswersInv'
    BY DEF TypeInv, AnswersInv, Call, Token, Valid, Tick, page, history
  <1>5. SoloInv'
    <2>1. UNCHANGED <<cookie, user, call, overlapped, last>>
      BY DEF Tick, page, history
    <2> QED BY <2>1 DEF SoloInv, SoloCall, Alone, Quiet
  <1>10. PageInv'
    <2>1. UNCHANGED <<cookie, user, call, unreachable, mixed>> /\ (~ Valid(cookie) => ~ Valid(cookie)')
      BY DEF Tick, page, history, Valid, TypeInv, Token
    <2> QED BY <2>1 DEF PageInv, Settled, PageIsTrue
  <1> QED BY <1>1, <1>2, <1>3, <1>4, <1>5, <1>10

LEMMA RefusedKeeps ==
  ASSUME IInv, NEW c \in Calls, Refused(c)
  PROVE  IInv'
  <1> USE NamesAssumption, ClockAssumption DEF IInv
  <1>1. call[c] \in Call /\ call[c] # None /\ call[c].stage = "refused"
    BY DEF TypeInv, Refused
  <1>2. UNCHANGED <<users, now, cookie, user, loading, acked, unreachable, overlapped, mixed>>
    BY DEF Refused
  <1>4. CASE call[c].kind = "logout" /\ UNCHANGED <<busy, last>>
                /\ call' = [call EXCEPT ![c].stage = "refresh", ![c].kind = "mount"]
    <2> DEFINE k == [call[c] EXCEPT !.stage = "refresh", !.kind = "mount"]
    <2>0. "refresh" \in Stages
      BY DEF Stages
    <2>1. k \in Call /\ k # None /\ k.stage = "refresh" /\ k.kind = "mount"
      <3>1. k \in Call
        BY <1>1, <2>0, NextStage
      <3>2. k.stage = "refresh" /\ k.kind = "mount"
        BY <1>1 DEF Call
      <3> QED BY <3>1, <3>2
    <2>2. call' = [call EXCEPT ![c] = k]
      BY <1>4 DEF TypeInv
    <2>3. /\ call' \in [Calls -> Call \cup {None}] /\ call'[c] = k
          /\ \A d \in Calls : d # c => call'[d] = call[d]
      BY <2>1, <2>2, CallChanges
    <2>4. TypeInv'
      BY <1>2, <1>4, <2>3 DEF TypeInv
    <2>5. StagesInv' /\ RowsInv' /\ AnswersInv'
      <3> HIDE DEF k
      <3>1. StagesInv'
        BY <2>1, <2>3 DEF StagesInv
      <3>2. RowsInv'
        <4>1. \A d \in Calls, e \in Emails :
                Registers(d, e)' => Registers(d, e) /\ call'[d].pw = call[d].pw
          BY <2>1, <2>3 DEF Registers
        <4> QED BY <1>2, <4>1, RowsStay
      <3>3. AnswersInv'
        BY <1>2, <2>1, <2>3 DEF AnswersInv, Valid
      <3> QED BY <3>1, <3>2, <3>3
    <2>6. SoloInv'
      <3> SUFFICES ASSUME ~ overlapped' PROVE SoloInv'
        BY DEF SoloInv
      <3>1. Alone(c)
        BY <1>1, <1>2 DEF SoloInv
      <3>2. call'[c] # None /\ \A d \in Calls : d # c => call'[d] = None
        BY <2>1, <2>3, <3>1 DEF Alone
      <3>3. SoloCall(c)'
        BY <2>1, <2>3 DEF SoloCall, Refreshing
      <3> QED BY <3>2, <3>3 DEF SoloInv, Alone, Quiet
    <2>7. PageInv'
      BY <2>1, <2>3, PageIsOpen DEF Refreshing
    <2> QED BY <2>4, <2>5, <2>6, <2>7
  <1>5. CASE call[c].kind # "logout" /\ End(c)
    <2>1. call' = [call EXCEPT ![c] = None] /\ busy' \in BOOLEAN /\ last' = call[c].kind
      BY <1>5 DEF End, TypeInv
    <2>2. /\ call' \in [Calls -> Call \cup {None}] /\ call'[c] = None
          /\ \A d \in Calls : d # c => call'[d] = call[d]
      BY <2>1, CallChanges
    <2>3. TypeInv'
      BY <1>1, <1>2, <2>1, <2>2 DEF TypeInv, Call
    <2>4. StagesInv' /\ RowsInv' /\ AnswersInv'
      <3>1. StagesInv' /\ AnswersInv'
        BY <1>2, <2>2 DEF StagesInv, AnswersInv, Valid
      <3>2. \A d \in Calls, e \in Emails :
              Registers(d, e)' => Registers(d, e) /\ call'[d].pw = call[d].pw
        BY <2>2 DEF Registers
      <3> QED BY <1>2, <3>1, <3>2, RowsStay
    <2>5. SoloInv'
      <3> SUFFICES ASSUME ~ overlapped' PROVE SoloInv'
        BY DEF SoloInv
      <3>1. Alone(c)
        BY <1>1, <1>2 DEF SoloInv
      <3>2. Quiet' /\ \A d \in Calls : call'[d] = None
        BY <2>2, <3>1 DEF Alone, Quiet
      <3> QED BY <1>5, <2>1, <3>2 DEF SoloInv
    <2>6. PageInv'
      BY <1>1, <1>2, <2>2, PageStays DEF Refreshing
    <2> QED BY <2>3, <2>4, <2>5, <2>6
  <1> QED BY <1>4, <1>5 DEF Refused

LEMMA MeArrivesKeeps ==
  ASSUME IInv, NEW c \in Calls, MeArrives(c)
  PROVE  IInv'
  <1> USE NamesAssumption, ClockAssumption DEF IInv
  <1>1. TypeInv'
    <2>1. call[c].answer \in Emails \cup {None, Failed, Nobody} /\ call[c].kind \in Kinds
      BY DEF TypeInv, Call, MeArrives
    <2>2. call' \in [Calls -> Call \cup {None}]
      BY DEF TypeInv, MeArrives, End
    <2>3. UNCHANGED <<users, now, cookie, acked, overlapped>> /\ mixed' = overlapped
      BY DEF MeArrives
    <2>4. user' \in Emails \cup {None, Nobody} /\ loading' = FALSE /\ unreachable' \in BOOLEAN
      BY <2>1 DEF MeArrives
    <2>5. busy' \in BOOLEAN /\ last' \in Kinds
      BY <2>1 DEF MeArrives, End, TypeInv
    <2> QED BY <2>2, <2>3, <2>4, <2>5 DEF TypeInv
  <1>2. StagesInv'
    BY DEF TypeInv, StagesInv, Call, MeArrives, End
  <1>3. RowsInv'
    <2>1. \A d \in Calls, m \in Emails :
            Registers(d, m)' => Registers(d, m) /\ call'[d].pw = call[d].pw
      BY DEF TypeInv, StagesInv, Call, Registers, MeArrives, End
    <2> QED BY <2>1, RowsStay DEF MeArrives, End
  <1>4. AnswersInv'
    BY DEF TypeInv, AnswersInv, Call, Token, Valid, MeArrives, End
  <1>5. SoloInv'
    <2> SUFFICES ASSUME ~ overlapped' PROVE SoloInv'
      BY DEF SoloInv
    <2>1. ~ overlapped /\ Alone(c) /\ SoloCall(c)
      BY DEF SoloInv, MeArrives
    <2>2. Quiet' /\ \A d \in Calls : call'[d] = None
      BY <2>1 DEF Alone, TypeInv, MeArrives, End, Quiet
    <2>3. /\ call[c].token = cookie /\ cookie' = cookie /\ now' = now
          /\ call[c].answer \in Emails \cup {None, Failed, Nobody}
      BY <2>1 DEF SoloCall, MeArrives, TypeInv, Call
    <2>5. last' = "logout" => user' = None /\ cookie' = None
      BY <2>1, <2>3 DEF SoloCall, AnswersInv, MeArrives, End, Refreshing
    <2> QED BY <2>2, <2>5 DEF SoloInv
  <1>10. PageInv'
    <2> SUFFICES ASSUME ~ mixed' PROVE PageIsTrue'
      BY DEF PageInv
    <2>1. call[c].token = cookie /\ cookie' = cookie /\ now' = now
      BY DEF SoloInv, SoloCall, MeArrives
    <2>2. call[c].answer \in Emails \cup {None, Failed, Nobody}
      BY DEF MeArrives, TypeInv, Call
    <2> QED BY <2>1, <2>2 DEF PageIsTrue, Valid, AnswersInv, MeArrives
  <1> QED BY <1>1, <1>2, <1>3, <1>4, <1>5, <1>10

\* A step that leaves vars unchanged.
LEMMA StutterKeeps ==
  ASSUME IInv, UNCHANGED vars
  PROVE  IInv'
  <1>1. /\ UNCHANGED <<users, now, cookie, user, loading, busy, call>>
        /\ UNCHANGED <<acked, last, unreachable, overlapped, mixed>>
    BY DEF vars
  <1> QED BY <1>1 DEF IInv, TypeInv, StagesInv, RowsInv, AckedPasswordHolds, Registers, AnswersInv,
                      SoloInv, SoloCall, PageInv, Settled, PageIsTrue, Alone, Quiet, Valid

LEMMA NextKeeps == IInv /\ [Next]_vars => IInv'
  <1> SUFFICES ASSUME IInv, [Next]_vars PROVE IInv'
    OBVIOUS
  <1>1. ASSUME NEW c \in Calls, User(c) PROVE IInv'
    BY <1>1, SubmitKeeps, SignOutKeeps DEF User
  <1>2. ASSUME NEW c \in Calls, Backend(c) PROVE IInv'
    BY <1>2, RegisterKeeps, LoginKeeps, LogoutKeeps, MeKeeps, RequestFailsKeeps DEF Backend
  <1>3. ASSUME NEW c \in Calls, Callback(c) PROVE IInv'
    BY <1>3, AcceptedKeeps, RefusedKeeps, SendMeKeeps, MeArrivesKeeps DEF Callback
  <1>4. CASE LeaveForm \/ Reload \/ Tick
    BY <1>4, LeaveFormKeeps, ReloadKeeps, TickKeeps
  <1>5. CASE UNCHANGED vars
    BY <1>5, StutterKeeps
  <1> QED BY <1>1, <1>2, <1>3, <1>4, <1>5 DEF Next

LEMMA IInvHolds == Spec => []IInv
  BY InitIInv, NextKeeps, PTL DEF Spec
-----------------------------------------------------------------------------
\* However many registrations of one email are under way, at most one is answered 201,
\* and its password is in the table, for any emails and passwords (CreateUser).
THEOREM RegistrationHolds == Spec => []AckedPasswordHolds
  <1>1. IInv => AckedPasswordHolds
    BY DEF IInv, RowsInv
  <1> QED BY <1>1, IInvHolds, PTL

\* Between calls the page shows the user of its cookie and nobody without one, unless
\* the refresh that decided it overlapped with another call: by SoloInv the answer
\* of one that did not is about the cookie that is still there (api.tsx, refresh).
THEOREM PageIsOfItsCookie == Spec => []PageShowsSession
  <1>1. IInv => PageShowsSession
    BY DEF IInv, PageInv, Settled, Quiet, PageIsTrue, PageShowsSession
  <1> QED BY <1>1, IInvHolds, PTL

\* A sign out that returns answered leaves neither a cookie nor a user, if no other
\* call ran beside it: its refresh asks /me without a token (signOut).
THEOREM SignOutIsFinal == Spec => []SignOutEndsSession
  <1>1. IInv => SignOutEndsSession
    BY DEF IInv, SoloInv, SignOutEndsSession
  <1> QED BY <1>1, IInvHolds, PTL
=============================================================================
