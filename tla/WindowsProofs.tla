---------------------------- MODULE WindowsProofs ----------------------------
(***************************************************************************)
(* Beside the windows of the login the pop-up windows behave as PopUps     *)
(* says; and for a user who has one of a kind at a time each acts on its   *)
(* own form and window, once, however many are opened, left and used.      *)
(* For a user who also waits for the answer to a login, the home window    *)
(* and the pop-ups act for the account the server has logged in, through   *)
(* any number of logins and logouts.                                       *)
(***************************************************************************)
EXTENDS Windows, TLAPS

\* What the two properties rest on: a window of each kind is on the screen or
\* on its way, and not both; a window that has sent was opened once.
OneIsComing ==
    /\ \A i, j \in DOMAIN pending : pending[i] = pending[j] => i = j
    /\ \A w \in screen : \A i \in DOMAIN pending : pending[i] # opened[w]

OnlyOpened ==
    /\ screen \subseteq DOMAIN opened
    /\ \A i \in DOMAIN sent : sent[i] \in DOMAIN opened

PopUpTypes ==
    /\ pending \in Seq(PopUp!Kinds) /\ opened \in Seq(PopUp!Kinds)
    /\ pointer \in [PopUp!Kinds -> Nat] /\ sent \in Seq(Nat)

WInv == PopUpTypes /\ OnlyOpened /\ OneIsComing /\ FormAndPointerMatch /\ SentOnce

\* Every step of the composition is one of the pop-ups or leaves them alone.
LEMMA StepOfPopUps ==
    [WindowsNext]_<<vars, popUpVars>> => [PopUp!Next]_(PopUp!vars)
<1> SUFFICES ASSUME [WindowsNext]_<<vars, popUpVars>>
             PROVE  PopUp!Next \/ UNCHANGED popUpVars
  BY DEF PopUp!vars, popUpVars
<1>1. CASE MainWindowNext
  BY <1>1 DEF MainWindowNext
<1>2. CASE TidyLogout
  BY <1>2 DEF TidyLogout
<1>3. CASE PopUpNext
  <2>1. ASSUME NEW k \in PopUp!Kinds, OpenPopUp(k) PROVE PopUp!Next
    BY <2>1, Zenon DEF OpenPopUp, PopUp!Next
  <2>2. CASE ShowPopUp
    BY <2>2, Zenon DEF ShowPopUp, PopUp!Next
  <2>3. ASSUME NEW w \in PopUp!WindowIds, SubmitPopUp(w) \/ ClosePopUp(w)
        PROVE  PopUp!Next
    BY <2>3, Zenon DEF SubmitPopUp, ClosePopUp, PopUp!Next
  <2> QED BY <1>3, <2>1, <2>2, <2>3, Zenon DEF PopUpNext
<1>4. CASE UNCHANGED <<vars, popUpVars>>
  BY <1>4
<1> QED BY <1>1, <1>2, <1>3, <1>4 DEF WindowsNext

\* Nothing is opened, under way or sent at first.
LEMMA InitWInv == WindowsInit => WInv
BY DEF WindowsInit, PopUp!Init, WInv, PopUpTypes, OnlyOpened, OneIsComing,
       FormAndPointerMatch, PopUp!FormAndPointerMatch, SentOnce, PopUp!SentOnce

\* A click opens no second window of a kind that is there or coming.
LEMMA ClickKeeps ==
    ASSUME Impatient = FALSE, WInv, NEW k \in PopUp!Kinds, PopUp!ClickOpen(k)
    PROVE  WInv'
<1>1. /\ pending' = Append(pending, k)
      /\ UNCHANGED <<opened, screen, pointer, live, sent>>
      /\ \A w \in screen : opened[w] # k
      /\ \A i \in DOMAIN pending : pending[i] # k
  BY DEF PopUp!ClickOpen
<1>2. /\ pending' \in Seq(PopUp!Kinds) /\ DOMAIN pending' = 1 .. Len(pending) + 1
      /\ DOMAIN pending = 1 .. Len(pending) /\ Len(pending) \in Nat
      /\ \A i \in DOMAIN pending' :
            pending'[i] = IF i \in DOMAIN pending THEN pending[i] ELSE k
      /\ \A i, j \in DOMAIN pending' :
            (i \notin DOMAIN pending /\ j \notin DOMAIN pending) => i = j
  BY <1>1 DEF WInv, PopUpTypes
<1>3. OneIsComing'
  <2>1. ASSUME NEW i \in DOMAIN pending', NEW j \in DOMAIN pending',
               pending'[i] = pending'[j]
        PROVE  i = j
    BY <1>1, <1>2, <2>1 DEF WInv, OneIsComing
  <2>2. ASSUME NEW w \in screen', NEW i \in DOMAIN pending'
        PROVE  pending'[i] # opened'[w]
    BY <1>1, <1>2, <2>2 DEF WInv, OneIsComing
  <2> QED BY <2>1, <2>2, Zenon DEF OneIsComing
<1> QED BY <1>1, <1>2, <1>3
        DEF WInv, PopUpTypes, OnlyOpened, FormAndPointerMatch, PopUp!FormAndPointerMatch,
            SentOnce, PopUp!SentOnce

\* The window that comes is new, and the only one of its kind.
LEMMA ShowKeeps ==
    ASSUME Impatient = FALSE, WInv, PopUp!Show
    PROVE  WInv'
<1> DEFINE k == Head(pending)
           w == Len(opened) + 1
<1>1. /\ pending # << >> /\ pending' = Tail(pending)
      /\ opened' = Append(opened, k)
      /\ screen' = screen \cup {w} /\ live' = live \cup {w}
      /\ pointer' = [pointer EXCEPT ![k] = w] /\ sent' = sent
  BY DEF PopUp!Show
<1>2. /\ k \in PopUp!Kinds /\ k = pending[1] /\ 1 \in DOMAIN pending
      /\ pending' \in Seq(PopUp!Kinds)
      /\ \A i \in DOMAIN pending' :
            /\ i + 1 \in DOMAIN pending /\ pending'[i] = pending[i + 1]
            /\ i \in Nat \ {0}
  BY <1>1 DEF WInv, PopUpTypes
<1>3. /\ opened' \in Seq(PopUp!Kinds) /\ w \in Nat /\ w \notin DOMAIN opened
      /\ DOMAIN opened' = DOMAIN opened \cup {w} /\ opened'[w] = k
      /\ \A v \in DOMAIN opened : opened'[v] = opened[v] /\ v \in Nat
  BY <1>1, <1>2 DEF WInv, PopUpTypes
<1>4. \A v \in screen : v \in DOMAIN opened /\ opened[v] # k
  BY <1>2 DEF WInv, OnlyOpened, OneIsComing
<1> HIDE DEF k, w
<1>5. pointer' \in [PopUp!Kinds -> Nat]
  BY <1>1, <1>3 DEF WInv, PopUpTypes
<1>6. FormAndPointerMatch'
  <2> SUFFICES ASSUME NEW v \in screen'
               PROVE  v \in live' /\ pointer'[opened'[v]] = v
    BY DEF FormAndPointerMatch, PopUp!FormAndPointerMatch
  <2>1. CASE v = w
    BY <1>1, <1>2, <1>3, <2>1 DEF WInv, PopUpTypes
  <2>2. CASE v # w
    <3>1. v \in screen /\ v \in live /\ pointer[opened[v]] = v
      BY <1>1, <2>2 DEF WInv, FormAndPointerMatch, PopUp!FormAndPointerMatch
    <3> QED BY <1>1, <1>3, <1>4, <3>1 DEF WInv, PopUpTypes
  <2> QED BY <2>1, <2>2
<1>7. OneIsComing'
  <2>1. \A i, j \in DOMAIN pending' : pending'[i] = pending'[j] => i = j
    <3> SUFFICES ASSUME NEW i \in DOMAIN pending', NEW j \in DOMAIN pending',
                        pending'[i] = pending'[j]
                 PROVE  i = j
      OBVIOUS
    <3>1. i + 1 = j + 1
      BY <1>2, Zenon DEF WInv, OneIsComing
    <3> QED BY <1>2, <3>1
  <2>2. \A i \in DOMAIN pending' : pending'[i] # k
    <3> SUFFICES ASSUME NEW i \in DOMAIN pending', pending'[i] = k PROVE FALSE
      OBVIOUS
    <3>1. i + 1 = 1
      BY <1>2, Zenon DEF WInv, OneIsComing
    <3> QED BY <1>2, <3>1
  <2>3. ASSUME NEW v \in screen', NEW i \in DOMAIN pending'
        PROVE  pending'[i] # opened'[v]
    <3>1. CASE v = w
      BY <1>3, <2>2, <3>1
    <3>2. CASE v # w
      BY <1>1, <1>2, <1>3, <1>4, <3>2 DEF WInv, OneIsComing
    <3> QED BY <3>1, <3>2
  <2> QED BY <2>1, <2>3, Zenon DEF OneIsComing
<1>8. SentOnce'
  BY <1>1, <1>3 DEF WInv, OnlyOpened, SentOnce, PopUp!SentOnce
<1>9. OnlyOpened'
  BY <1>1, <1>3 DEF WInv, OnlyOpened
<1> QED BY <1>1, <1>2, <1>3, <1>5, <1>6, <1>7, <1>8, <1>9 DEF WInv, PopUpTypes

\* The button of a window destroys that window, and no other of its kind is
\* there to keep the pointer it resets.
LEMMA SubmitKeeps ==
    ASSUME WInv, NEW w, PopUp!Submit(w)
    PROVE  WInv'
<1>1. /\ w \in screen /\ sent' = Append(sent, w)
      /\ screen' = screen \ {pointer[opened[w]]}
      /\ pointer' = [pointer EXCEPT ![opened[w]] = 0]
      /\ live' = live \ {w} /\ pending' = pending /\ opened' = opened
  BY DEF PopUp!Submit
<1>2. w \in DOMAIN opened /\ w \in Nat /\ opened[w] \in PopUp!Kinds
  BY <1>1 DEF WInv, OnlyOpened, PopUpTypes
<1>3. pointer[opened[w]] = w /\ screen' = screen \ {w}
  BY <1>1 DEF WInv, FormAndPointerMatch, PopUp!FormAndPointerMatch
<1>4. /\ sent' \in Seq(Nat) /\ Len(sent) \in Nat /\ DOMAIN sent = 1 .. Len(sent)
      /\ DOMAIN sent' = 1 .. Len(sent) + 1
      /\ \A i \in DOMAIN sent' : sent'[i] = IF i \in DOMAIN sent THEN sent[i] ELSE w
      /\ \A i, j \in DOMAIN sent' :
            (i \notin DOMAIN sent /\ j \notin DOMAIN sent) => i = j
  BY <1>1, <1>2 DEF WInv, PopUpTypes
<1>5. PopUpTypes'
  BY <1>1, <1>2, <1>4 DEF WInv, PopUpTypes
<1>6. FormAndPointerMatch'
  <2> SUFFICES ASSUME NEW v \in screen'
               PROVE  v \in live' /\ pointer'[opened'[v]] = v
    BY DEF FormAndPointerMatch, PopUp!FormAndPointerMatch
  <2>1. v \in screen /\ v # w /\ v \in live /\ pointer[opened[v]] = v
    BY <1>3 DEF WInv, FormAndPointerMatch, PopUp!FormAndPointerMatch
  <2>2. opened[v] \in PopUp!Kinds /\ opened[v] # opened[w]
    BY <1>3, <2>1 DEF WInv, OnlyOpened, PopUpTypes
  <2> QED BY <1>1, <1>2, <2>1, <2>2 DEF WInv, PopUpTypes
<1>7. SentOnce'
  BY <1>1, <1>3, <1>4 DEF WInv, SentOnce, PopUp!SentOnce
<1>8. OnlyOpened' /\ OneIsComing'
  BY <1>1, <1>2, <1>3, <1>4 DEF WInv, OnlyOpened, OneIsComing
<1> QED BY <1>5, <1>6, <1>7, <1>8 DEF WInv

\* A window that is left leaves its pointer and form behind, which no window
\* on the screen has for its own.
LEMMA CloseKeeps ==
    ASSUME WInv, NEW w, PopUp!Close(w)
    PROVE  WInv'
BY DEF PopUp!Close, WInv, PopUpTypes, OnlyOpened, OneIsComing, FormAndPointerMatch,
       PopUp!FormAndPointerMatch, SentOnce, PopUp!SentOnce

\* Every step of the pop-ups keeps the invariant.
LEMMA StepWInv ==
    ASSUME Impatient = FALSE
    PROVE  WInv /\ [PopUp!Next]_(PopUp!vars) => WInv'
<1> SUFFICES ASSUME WInv, [PopUp!Next]_(PopUp!vars) PROVE WInv'
  OBVIOUS
<1>1. CASE UNCHANGED PopUp!vars
  BY <1>1 DEF PopUp!vars, WInv, PopUpTypes, OnlyOpened, OneIsComing,
       FormAndPointerMatch, PopUp!FormAndPointerMatch, SentOnce, PopUp!SentOnce
<1>2. CASE PopUp!Next
  BY <1>2, ClickKeeps, ShowKeeps, SubmitKeeps, CloseKeeps, Zenon DEF PopUp!Next
<1> QED BY <1>1, <1>2

\* Each window on the screen has its form and its pointer, for any number of
\* windows, gestures and logins of a user who opens one of a kind at a time
\* (pop_up_join_group.c:28-33).
THEOREM WindowsKeepTheirForms ==
    ASSUME Impatient = FALSE
    PROVE  WindowsSpec => []FormAndPointerMatch
<1>1. WInv => FormAndPointerMatch
  BY DEF WInv
<1>2. WInv /\ [PopUp!Next]_(PopUp!vars) => WInv'
  BY StepWInv
<1> QED BY InitWInv, StepOfPopUps, <1>1, <1>2, PTL DEF WindowsSpec

\* Each of them sends one request at most (pop_up_join_group.c:27-34).
THEOREM WindowsSendOnce ==
    ASSUME Impatient = FALSE
    PROVE  WindowsSpec => []SentOnce
<1>1. WInv => SentOnce
  BY DEF WInv
<1>2. WInv /\ [PopUp!Next]_(PopUp!vars) => WInv'
  BY StepWInv
<1> QED BY InitWInv, StepOfPopUps, <1>1, <1>2, PTL DEF WindowsSpec

(***************************************************************************)
(* Who the user is.                                                        *)
(***************************************************************************)
Asked == [kind : {"login", "logout", "register", "home"}, id : Ids]
Told == [kind : {"ok", "refused", "bye"}, id : Ids]

LoginTypes ==
    /\ TypeOK
    /\ requests \in Seq(Asked) /\ toClient \in Seq(Told)
    /\ \A i \in DOMAIN requests : requests[i].kind = "login" => requests[i].id \in Accounts

Requested(kind) == \E i \in DOMAIN requests : requests[i].kind = kind
Answers == {i \in DOMAIN toClient : toClient[i].kind \in {"ok", "refused"}}

\* The client's side of being logged in: the home window is up, and no other
\* on its way, or it is on its way.
LoggedIn == (window = "home" /\ idle = << >>) \/ idle = <<"home">>

\* The requests of the home window, and the logout behind them, come first, and
\* the server has their account still logged in.
HomeFirst ==
    \A i \in DOMAIN requests :
        requests[i].kind \in {"home", "logout"} =>
            /\ account # 0
            /\ \A j \in 1 .. (i - 1) : requests[j].kind = "home"
            /\ requests[i].kind = "home" => requests[i].id = account

\* The user waits for the answer to a login: nothing is asked behind it, and
\* nothing told behind the answer.
LoginLast ==
    \A i \in DOMAIN requests :
        requests[i].kind = "login" =>
            i = Len(requests) /\ Answers = {} /\ window = "login" /\ idle = << >>

AnswerLast ==
    \A i \in Answers :
        /\ i = Len(toClient) /\ requests = << >> /\ window = "login" /\ idle = << >>
        /\ account = IF toClient[i].kind = "ok" THEN toClient[i].id ELSE 0
        /\ toClient[i].kind = "ok" => account \in Accounts

\* Client and server agree who is logged in, but for a logout or the answer to
\* a login that is under way.
InSession ==
    IF LoggedIn
    THEN /\ account # 0 /\ user.id = account /\ toClient = << >>
         /\ \A i \in DOMAIN requests : requests[i].kind = "home"
    ELSE account # 0 =>
            Requested("logout") \/ \E i \in Answers : toClient[i].kind = "ok"

OneWindowComes == Len(idle) <= 1

\* Pop-ups are opened in the home window, and gone before the user leaves it.
PopUpsAtHome == (pending # << >> \/ screen # {}) => window = "home" /\ idle = << >>

LInv ==
    /\ LoginTypes /\ HomeFirst /\ LoginLast /\ AnswerLast /\ InSession
    /\ OneWindowComes /\ PopUpsAtHome

Shown == {"login", "register", "home"}

LEMMA IdTypes ==
    /\ Accounts \subseteq Ids /\ 0 \in Ids /\ Placeholder \in Ids /\ 0 \notin Accounts
    /\ FreshUser \in [id : Ids, isOnline : BOOLEAN] /\ ~FreshUser.isOnline
    /\ \A a \in Ids, kind \in {"login", "logout", "register", "home"} :
          Request(kind, a) \in Asked /\ Request(kind, a).kind = kind /\ Request(kind, a).id = a
    /\ \A a \in Ids, kind \in {"ok", "refused", "bye"} :
          Request(kind, a) \in Told /\ Request(kind, a).kind = kind /\ Request(kind, a).id = a
BY LoginAssumption DEF Ids, FreshUser, Request, Asked, Told

LEMMA OnlineUser == ASSUME NEW a \in Ids PROVE [id |-> a, isOnline |-> TRUE] \in [id : Ids, isOnline : BOOLEAN]
OBVIOUS

LEMMA InitLInv == WindowsInit => LInv
<1> SUFFICES ASSUME WindowsInit PROVE LInv
  OBVIOUS
<1>1. /\ window = "none" /\ user = NoUser /\ requests = << >> /\ toClient = << >>
      /\ idle = <<"login">> /\ account = 0 /\ pending = << >> /\ screen = {}
  BY DEF WindowsInit, Init, PopUp!Init
<1>2. LoginTypes
  <2>1. user \in [id : Ids, isOnline : BOOLEAN] /\ idle \in Seq({"login", "register", "home"})
    BY <1>1 DEF NoUser, Ids
  <2> QED BY <1>1, <2>1 DEF LoginTypes, TypeOK
<1>3. OneWindowComes /\ PopUpsAtHome
  BY <1>1 DEF OneWindowComes, PopUpsAtHome
<1>4. HomeFirst /\ LoginLast /\ Answers = {}
  BY <1>1 DEF HomeFirst, LoginLast, Answers
<1>5. AnswerLast
  BY <1>4 DEF AnswerLast
<1>6. InSession
  BY <1>1 DEF InSession, LoggedIn
<1> QED BY <1>2, <1>3, <1>4, <1>5, <1>6 DEF LInv

LEMMA EmptyOrNot == ASSUME NEW S, NEW s \in Seq(S) PROVE s = << >> <=> Len(s) = 0
OBVIOUS

LEMMA AppendTyped == ASSUME NEW S, NEW s \in Seq(S), NEW e \in S PROVE Append(s, e) \in Seq(S)
OBVIOUS

(***************************************************************************)
(* Types: for any user, however impatient.                                 *)
(***************************************************************************)
LEMMA StepLoginTypes == LoginTypes /\ [WindowsNext]_<<vars, popUpVars>> => LoginTypes'
<1> SUFFICES ASSUME LoginTypes, [WindowsNext]_<<vars, popUpVars>> PROVE LoginTypes'
  OBVIOUS
<1>1. /\ requests \in Seq(Asked) /\ toClient \in Seq(Told)
      /\ window \in {"none", "login", "register", "home"}
      /\ user \in [id : Ids, isOnline : BOOLEAN] /\ user.id \in Ids
      /\ account \in Accounts \cup {0}
      /\ idle \in Seq(Shown)
      /\ \A i \in DOMAIN requests : requests[i].kind = "login" => requests[i].id \in Accounts
  BY DEF LoginTypes, TypeOK, Shown
\* It is enough to look at what a step adds.
<1>2. ASSUME window' \in {"none", "login", "register", "home"},
             user' \in [id : Ids, isOnline : BOOLEAN], account' \in Accounts \cup {0},
             idle' \in Seq(Shown),
             requests' \in Seq(Asked), toClient' \in Seq(Told),
             \A i \in DOMAIN requests' : requests'[i].kind = "login" => requests'[i].id \in Accounts
      PROVE  LoginTypes'
  <2>1. \A i \in DOMAIN requests' : requests'[i].id \in Ids
    <3>1. \A i \in DOMAIN requests' : requests'[i] \in Asked
      BY <1>2
    <3> QED BY <3>1 DEF Asked
  <2>2. \A i \in DOMAIN toClient' : toClient'[i].id \in Ids
    <3>1. \A i \in DOMAIN toClient' : toClient'[i] \in Told
      BY <1>2
    <3> QED BY <3>1 DEF Told
  <2> QED BY <1>2, <2>1, <2>2 DEF LoginTypes, TypeOK, Shown
\* A request is added, or not, and a window, or not.
<1>3. ASSUME NEW r \in Asked, r.kind = "login" => r.id \in Accounts,
             requests' = Append(requests, r) \/ requests' = requests,
             idle' = idle \/ \E w \in Shown : idle' = Append(idle, w),
             user' \in [id : Ids, isOnline : BOOLEAN],
             UNCHANGED <<window, toClient, account>>
      PROVE  LoginTypes'
  <2>1. idle' \in Seq(Shown)
    <3>1. CASE idle' = idle
      BY <1>1, <3>1
    <3>2. ASSUME NEW w \in Shown, idle' = Append(idle, w) PROVE idle' \in Seq(Shown)
      BY <1>1, <3>2, AppendTyped
    <3> QED BY <1>3, <3>1, <3>2
  <2>2. CASE requests' = requests
    BY <1>1, <1>2, <1>3, <2>1, <2>2
  <2>3. CASE requests' = Append(requests, r)
    <3>1. /\ requests' \in Seq(Asked)
          /\ \A i \in DOMAIN requests' : i \in DOMAIN requests \/ i = Len(requests) + 1
          /\ \A i \in DOMAIN requests : requests'[i] = requests[i]
          /\ requests'[Len(requests) + 1] = r
      BY <1>1, <2>3
    <3> QED BY <1>1, <1>2, <1>3, <2>1, <3>1
  <2> QED BY <1>3, <2>2, <2>3
<1>4. ASSUME NEW a \in Accounts, ClickLogin(a) PROVE LoginTypes'
  <2>1. /\ user' = FreshUser /\ UNCHANGED <<window, toClient, idle, account>>
        /\ requests' = requests \o LoginRequest(user', a)
    BY <1>4 DEF ClickLogin
  <2>2. LoginRequest(user', a) = <<Request("login", a)>>
    BY <2>1, IdTypes DEF LoginRequest
  <2>3. Request("login", a) \in Asked /\ Request("login", a).id \in Accounts
    BY IdTypes
  <2>4. requests' = Append(requests, Request("login", a))
    BY <1>1, <2>1, <2>2, <2>3
  <2> QED BY <1>3, <2>1, <2>3, <2>4, IdTypes
<1>5. CASE SwitchForm
  <2>1. /\ \E w \in Shown : idle' = Append(idle, w)
        /\ UNCHANGED <<window, user, requests, toClient, account>>
    BY <1>5 DEF SwitchForm, Shown
  <2>2. Request("home", user.id) \in Asked /\ Request("home", user.id).kind = "home"
    BY <1>1, IdTypes
  <2> QED BY <1>1, <1>3, <2>1, <2>2
<1>6. CASE ClickRegister
  <2>1. /\ user' = FreshUser /\ requests' = Append(requests, Request("register", 0))
        /\ idle' = Append(idle, "login") /\ UNCHANGED <<window, toClient, account>>
    BY <1>6 DEF ClickRegister, RegisterRequest, Shown
  <2>2. Request("register", 0) \in Asked /\ Request("register", 0).kind = "register"
    BY IdTypes
  <2> QED BY <1>3, <2>1, <2>2, IdTypes DEF Shown
<1>7. CASE ClickLogout
  <2>1. /\ user' = user /\ requests' = Append(requests, Request("logout", 0))
        /\ idle' = Append(idle, "login") /\ UNCHANGED <<window, toClient, account>>
    BY <1>7 DEF ClickLogout
  <2>2. Request("logout", 0) \in Asked /\ Request("logout", 0).kind = "logout"
    BY IdTypes
  <2> QED BY <1>1, <1>3, <2>1, <2>2 DEF Shown
<1>8. CASE \/ HomeRequest \/ \E w \in PopUp!WindowIds : SubmitPopUp(w)
  <2>1. /\ requests' = Append(requests, Request("home", user.id))
        /\ UNCHANGED <<window, user, toClient, idle, account>>
    BY <1>8 DEF HomeRequest, SubmitPopUp
  <2>2. Request("home", user.id) \in Asked /\ Request("home", user.id).kind = "home"
    BY <1>1, IdTypes
  <2> QED BY <1>1, <1>3, <2>1, <2>2
<1>9. CASE Serve
  <2>1. /\ requests # << >> /\ requests' = Tail(requests) /\ UNCHANGED <<window, user, idle>>
        /\ \/ account' = Head(requests).id /\ Head(requests).kind = "login"
           \/ account' = account
           \/ account' = 0
        /\ \/ toClient' = Append(toClient, Request("ok", Head(requests).id))
           \/ toClient' = Append(toClient, Request("refused", 0))
           \/ toClient' = Append(toClient, Request("bye", 0))
           \/ toClient' = toClient
    BY <1>9 DEF Serve
  <2>2. /\ requests' \in Seq(Asked) /\ Head(requests) = requests[1] /\ requests[1] \in Asked
        /\ 1 \in DOMAIN requests
        /\ \A i \in DOMAIN requests' : i + 1 \in DOMAIN requests /\ requests'[i] = requests[i + 1]
    BY <1>1, <2>1
  <2>3. account' \in Accounts \cup {0}
    BY <1>1, <2>1, <2>2
  <2>4. requests[1].id \in Ids
    BY <2>2 DEF Asked
  <2>5. /\ Request("ok", requests[1].id) \in Told /\ Request("refused", 0) \in Told
        /\ Request("bye", 0) \in Told
    BY <2>4, IdTypes
  <2>6. toClient' \in Seq(Told)
    <3>1. ASSUME NEW m \in Told PROVE Append(toClient, m) \in Seq(Told)
      BY <1>1, AppendTyped
    <3>2. /\ Append(toClient, Request("ok", requests[1].id)) \in Seq(Told)
          /\ Append(toClient, Request("refused", 0)) \in Seq(Told)
          /\ Append(toClient, Request("bye", 0)) \in Seq(Told)
      BY <2>5, <3>1
    <3>3. Head(requests) = requests[1]
      BY <2>2
    <3>4. \/ toClient' = Append(toClient, Request("ok", requests[1].id))
          \/ toClient' = Append(toClient, Request("refused", 0))
          \/ toClient' = Append(toClient, Request("bye", 0))
          \/ toClient' = toClient
      BY <2>1, <3>3, Zenon
    <3> QED BY <1>1, <3>2, <3>4, Zenon
  <2> QED BY <1>1, <1>2, <2>1, <2>2, <2>3, <2>6
<1>10. CASE HandleLogin \/ HandleLogout
  <2>1. /\ toClient # << >> /\ toClient' = Tail(toClient)
        /\ UNCHANGED <<window, requests, account>>
        /\ \/ user' = [id |-> Head(toClient).id, isOnline |-> TRUE] /\ idle' = Append(idle, "home")
           \/ user' = user /\ idle' = idle
    BY <1>10 DEF HandleLogin, HandleLogout
  <2>2. toClient' \in Seq(Told) /\ Head(toClient) = toClient[1] /\ toClient[1] \in Told
    BY <1>1, <2>1
  <2>3. Head(toClient).id \in Ids
    BY <2>2 DEF Told
  <2>4. user' \in [id : Ids, isOnline : BOOLEAN]
    BY <1>1, <2>1, <2>3, OnlineUser
  <2>5. idle' \in Seq(Shown)
    <3>1. "home" \in Shown
      BY DEF Shown
    <3>2. Append(idle, "home") \in Seq(Shown)
      BY <1>1, <3>1, AppendTyped
    <3> QED BY <1>1, <2>1, <3>2, Zenon
  <2> QED BY <1>1, <1>2, <2>1, <2>2, <2>4, <2>5
<1>11. CASE ShowWindow
  <2>1. /\ idle # << >> /\ window' = Head(idle) /\ idle' = Tail(idle)
        /\ requests' = Append(requests, Request("home", user.id)) \/ requests' = requests
        /\ UNCHANGED <<user, toClient, account>>
    BY <1>11 DEF ShowWindow
  <2>2. window' \in {"login", "register", "home"} /\ idle' \in Seq(Shown)
    <3>1. idle' \in Seq(Shown) /\ idle[1] \in Shown /\ window' = idle[1]
      <4>1. idle \in Seq(Shown) /\ idle # << >> /\ idle' = Tail(idle) /\ window' = Head(idle)
        BY <1>1, <2>1
      <4> QED BY <4>1
    <3> QED BY <3>1 DEF Shown
  <2>3. Request("home", user.id) \in Asked /\ Request("home", user.id).kind = "home"
    BY <1>1, IdTypes
  <2>4. CASE requests' = requests
    BY <1>1, <1>2, <2>1, <2>2, <2>4
  <2>5. CASE requests' = Append(requests, Request("home", user.id))
    <3>1. /\ requests' \in Seq(Asked)
          /\ \A i \in DOMAIN requests' : i \in DOMAIN requests \/ i = Len(requests) + 1
          /\ \A i \in DOMAIN requests : requests'[i] = requests[i]
          /\ requests'[Len(requests) + 1] = Request("home", user.id)
      BY <1>1, <2>3, <2>5
    <3> QED BY <1>1, <1>2, <2>1, <2>2, <2>3, <3>1
  <2> QED BY <2>1, <2>4, <2>5
<1>12. CASE UNCHANGED <<window, user, requests, toClient, idle, account>>
  BY <1>1, <1>2, <1>12
<1>13. CASE PopUpNext
  BY <1>8, <1>12, <1>13 DEF PopUpNext, OpenPopUp, ShowPopUp, ClosePopUp, vars
<1> QED BY <1>4, <1>5, <1>6, <1>7, <1>8, <1>9, <1>10, <1>11, <1>12, <1>13
        DEF WindowsNext, MainWindowNext, TidyLogout, vars

(***************************************************************************)
(* For a user who waits for the answer to a login and for the next window. *)
(***************************************************************************)
\* What a patient user has waited for when he does something.
LEMMA NothingAwaited ==
    ASSUME Impatient = FALSE, NEW w, Gesture(w)
    PROVE  window = w /\ idle = << >> /\ Answers = {} /\ ~Requested("login")
BY DEF Gesture, Awaiting, Answers, Requested

\* One more request behind the others.
LEMMA OneRequestMore ==
    ASSUME LInv, NEW r \in Asked, requests' = Append(requests, r)
    PROVE  /\ Len(requests) \in Nat /\ Len(requests') = Len(requests) + 1 /\ requests' # << >>
           /\ \A i \in DOMAIN requests' : i \in DOMAIN requests \/ i = Len(requests) + 1
           /\ \A i \in DOMAIN requests :
                 /\ i \in DOMAIN requests' /\ requests'[i] = requests[i] /\ i <= Len(requests)
                 /\ \A j \in 1 .. (i - 1) : j \in DOMAIN requests
           /\ \A j \in 1 .. Len(requests) : j \in DOMAIN requests
           /\ Len(requests) + 1 \in DOMAIN requests' /\ requests'[Len(requests) + 1] = r
<1>1. requests \in Seq(Asked)
  BY DEF LInv, LoginTypes
<1>2. /\ Len(requests) \in Nat /\ Len(requests') = Len(requests) + 1 /\ requests' # << >>
      /\ DOMAIN requests' = 1 .. (Len(requests) + 1) /\ DOMAIN requests = 1 .. Len(requests)
      /\ \A i \in 1 .. Len(requests) : requests'[i] = requests[i]
      /\ requests'[Len(requests) + 1] = r
  BY <1>1
<1> QED BY <1>2

\* A request of the home window, by a button, a pop-up or the window's coming.
LEMMA HomeAsks ==
    ASSUME LInv, LoggedIn, LoggedIn', LoginTypes',
           requests' = Append(requests, Request("home", user.id)),
           UNCHANGED <<user, toClient, account>>, OneWindowComes', PopUpsAtHome'
    PROVE  LInv'
<1> DEFINE r == Request("home", user.id)
<1>1. /\ account # 0 /\ user.id = account /\ toClient = << >>
      /\ \A i \in DOMAIN requests : requests[i].kind = "home"
  BY DEF LInv, InSession
<1>2. r \in Asked /\ r.kind = "home" /\ r.id = account
  <2>1. user.id \in Ids
    BY DEF LInv, LoginTypes, TypeOK
  <2> QED BY <1>1, <2>1, IdTypes
<1> HIDE DEF r
<1>3. requests' = Append(requests, r)
  BY DEF r
<1>4. \A i \in DOMAIN requests' : requests'[i].kind = "home" /\ (i \notin DOMAIN requests => requests'[i] = r)
  BY <1>1, <1>2, <1>3, OneRequestMore
<1>5. \A i \in DOMAIN requests' : \A j \in 1 .. (i - 1) : j \in DOMAIN requests'
  <2>1. requests' \in Seq(Asked)
    BY DEF LoginTypes
  <2> QED BY <2>1
<1>6. \A i \in DOMAIN requests' : requests'[i].id = account
  <2>1. \A i \in DOMAIN requests : requests[i].id = account
    BY <1>1 DEF LInv, HomeFirst
  <2> QED BY <1>2, <1>3, <2>1, OneRequestMore
<1>7. HomeFirst'
  BY <1>1, <1>4, <1>5, <1>6 DEF HomeFirst
<1>8. LoginLast'
  BY <1>4 DEF LoginLast
<1>9. AnswerLast'
  BY <1>1 DEF AnswerLast, Answers
<1>10. InSession'
  BY <1>1, <1>4 DEF InSession
<1> QED BY <1>7, <1>8, <1>9, <1>10 DEF LInv

LEMMA ClickLoginKeeps ==
    ASSUME Impatient = FALSE, LInv, LoginTypes', NEW a \in Accounts, ClickLogin(a),
           UNCHANGED popUpVars
    PROVE  LInv'
<1> DEFINE r == Request("login", a)
<1>1. /\ user' = FreshUser /\ UNCHANGED <<window, toClient, idle, account, pending, screen>>
      /\ requests' = requests \o LoginRequest(user', a) /\ Gesture("login")
  BY DEF ClickLogin, popUpVars
<1>2. window = "login" /\ idle = << >> /\ Answers = {} /\ ~Requested("login")
  BY <1>1, NothingAwaited
<1>3. r \in Asked /\ r.kind = "login"
  BY IdTypes
<1>4. requests' = Append(requests, r)
  <2>1. LoginRequest(user', a) = <<r>> /\ requests \in Seq(Asked)
    BY <1>1, IdTypes DEF LoginRequest, LInv, LoginTypes
  <2> QED BY <1>1, <1>3, <2>1
<1> HIDE DEF r
<1>5. ~LoggedIn /\ ~LoggedIn' /\ Answers' = Answers
  BY <1>1, <1>2 DEF LoggedIn, Answers
<1>6. HomeFirst'
  <2> SUFFICES ASSUME NEW i \in DOMAIN requests', requests'[i].kind \in {"home", "logout"}
               PROVE  /\ account # 0
                      /\ \A j \in 1 .. (i - 1) : requests'[j].kind = "home"
                      /\ requests'[i].kind = "home" => requests'[i].id = account
    BY <1>1 DEF HomeFirst
  <2>1. i \in DOMAIN requests /\ requests'[i] = requests[i]
    BY <1>3, <1>4, OneRequestMore
  <2> QED BY <1>3, <1>4, <2>1, OneRequestMore DEF LInv, HomeFirst
<1>7. LoginLast'
  <2>1. \A i \in DOMAIN requests' : requests'[i].kind = "login" => i = Len(requests')
    BY <1>2, <1>3, <1>4, OneRequestMore DEF Requested
  <2> QED BY <1>1, <1>2, <1>5, <2>1 DEF LoginLast
<1>8. AnswerLast'
  BY <1>2, <1>5 DEF AnswerLast
<1>9. InSession'
  <2>1. account # 0 => Requested("logout")
    BY <1>2, <1>5 DEF LInv, InSession
  <2>2. Requested("logout") => Requested("logout")'
    BY <1>3, <1>4, OneRequestMore DEF Requested
  <2> QED BY <1>1, <1>5, <2>1, <2>2 DEF InSession
<1>10. OneWindowComes' /\ PopUpsAtHome'
  BY <1>1 DEF LInv, OneWindowComes, PopUpsAtHome
<1> QED BY <1>6, <1>7, <1>8, <1>9, <1>10 DEF LInv

\* on_register_button_clicked and on_back_button_clicked.
LEMMA FormKeeps ==
    ASSUME Impatient = FALSE, LInv, LoginTypes', SwitchForm \/ ClickRegister,
           UNCHANGED popUpVars
    PROVE  LInv'
<1> DEFINE r == Request("register", 0)
<1>1. /\ requests' = requests \/ requests' = Append(requests, r)
      /\ \E w \in {"login", "register"} : Gesture(w)
      /\ \E w \in {"login", "register"} : idle' = Append(idle, w)
      /\ UNCHANGED <<window, toClient, account, pending, screen>>
  BY DEF SwitchForm, ClickRegister, RegisterRequest, popUpVars
<1>2. window \in {"login", "register"} /\ idle = << >> /\ Answers = {} /\ ~Requested("login")
  BY <1>1, NothingAwaited
<1>3. r \in Asked /\ r.kind = "register"
  BY IdTypes
<1> HIDE DEF r
<1>4. idle' \in {<<"login">>, <<"register">>} /\ Len(idle') = 1
  BY <1>1, <1>2
<1>5. ~LoggedIn /\ ~LoggedIn' /\ Answers' = Answers
  <2>1. idle' # << >> /\ idle' # <<"home">> /\ idle # <<"home">> /\ window # "home"
    BY <1>2, <1>4
  <2> QED BY <1>1, <2>1 DEF LoggedIn, Answers
\* The requests that were there are there, and the one that may have come is no
\* request of the home window and no login.
<1>6. /\ \A i \in DOMAIN requests' : i \in DOMAIN requests \/ requests'[i] = r
      /\ \A i \in DOMAIN requests :
            /\ i \in DOMAIN requests' /\ requests'[i] = requests[i]
            /\ \A j \in 1 .. (i - 1) : requests'[j] = requests[j]
  <2>1. CASE requests' = requests
    BY <2>1
  <2>2. CASE requests' = Append(requests, r)
    BY <1>3, <2>2, OneRequestMore
  <2> QED BY <1>1, <2>1, <2>2
<1>7. HomeFirst'
  <2> SUFFICES ASSUME NEW i \in DOMAIN requests', requests'[i].kind \in {"home", "logout"}
               PROVE  /\ account # 0
                      /\ \A j \in 1 .. (i - 1) : requests'[j].kind = "home"
                      /\ requests'[i].kind = "home" => requests'[i].id = account
    BY <1>1 DEF HomeFirst
  <2>1. i \in DOMAIN requests /\ requests'[i] = requests[i]
    BY <1>3, <1>6
  <2> QED BY <1>6, <2>1 DEF LInv, HomeFirst
<1>8. LoginLast'
  BY <1>2, <1>3, <1>6 DEF LoginLast, Requested
<1>9. AnswerLast'
  BY <1>2, <1>5 DEF AnswerLast
<1>10. InSession'
  <2>1. account # 0 => Requested("logout")
    BY <1>2, <1>5 DEF LInv, InSession
  <2>2. Requested("logout") => Requested("logout")'
    BY <1>6 DEF Requested
  <2> QED BY <1>1, <1>5, <2>1, <2>2 DEF InSession
<1>11. OneWindowComes' /\ PopUpsAtHome'
  BY <1>1, <1>2, <1>4 DEF LInv, OneWindowComes, PopUpsAtHome
<1> QED BY <1>7, <1>8, <1>9, <1>10, <1>11 DEF LInv

LEMMA LogoutKeeps ==
    ASSUME Impatient = FALSE, LInv, LoginTypes', TidyLogout
    PROVE  LInv'
<1> DEFINE r == Request("logout", 0)
<1>1. /\ requests' = Append(requests, r) /\ Gesture("home") /\ idle' = Append(idle, "login")
      /\ UNCHANGED <<window, user, toClient, account, pending, screen>>
      /\ pending = << >> /\ screen = {}
  BY DEF TidyLogout, ClickLogout, popUpVars
<1>2. window = "home" /\ idle = << >> /\ Answers = {}
  BY <1>1, NothingAwaited
<1>3. r \in Asked /\ r.kind = "logout"
  BY IdTypes
<1> HIDE DEF r
<1>4. LoggedIn /\ idle' = <<"login">> /\ Answers' = Answers
  BY <1>1, <1>2 DEF LoggedIn, Answers
<1>5. ~LoggedIn'
  <2>1. idle' # << >> /\ idle' # <<"home">>
    BY <1>4
  <2> QED BY <2>1 DEF LoggedIn
<1>6. account # 0 /\ \A i \in DOMAIN requests : requests[i].kind = "home"
  BY <1>4 DEF LInv, InSession
<1>7. HomeFirst'
  <2> SUFFICES ASSUME NEW i \in DOMAIN requests'
               PROVE  /\ account # 0
                      /\ \A j \in 1 .. (i - 1) : requests'[j].kind = "home"
                      /\ requests'[i].kind = "home" => requests'[i].id = account
    BY <1>1 DEF HomeFirst
  <2>1. CASE i \in DOMAIN requests
    BY <1>1, <1>3, <1>6, <2>1, OneRequestMore DEF LInv, HomeFirst
  <2>2. CASE i = Len(requests) + 1
    <3>1. i - 1 = Len(requests)
      BY <1>1, <1>3, <2>2, OneRequestMore
    <3> QED BY <1>1, <1>3, <1>6, <2>2, <3>1, OneRequestMore
  <2> QED BY <1>1, <1>3, <2>1, <2>2, OneRequestMore
<1>8. LoginLast'
  BY <1>1, <1>3, <1>6, OneRequestMore DEF LoginLast
<1>9. AnswerLast'
  BY <1>2, <1>4 DEF AnswerLast
<1>10. InSession'
  BY <1>1, <1>3, <1>5, OneRequestMore DEF InSession, Requested
<1>11. OneWindowComes' /\ PopUpsAtHome'
  <2>1. Len(idle') = 1
    BY <1>4
  <2>2. OneWindowComes'
    BY <2>1 DEF OneWindowComes
  <2>3. PopUpsAtHome'
    BY <1>1 DEF PopUpsAtHome
  <2> QED BY <2>2, <2>3
<1> QED BY <1>7, <1>8, <1>9, <1>10, <1>11 DEF LInv

\* The first request is taken.
LEMMA OneRequestLess ==
    ASSUME LInv, requests # << >>, requests' = Tail(requests)
    PROVE  /\ Head(requests) = requests[1] /\ requests[1] \in Asked /\ 1 \in DOMAIN requests
           /\ Len(requests') = Len(requests) - 1 /\ Len(requests) \in Nat \ {0}
           /\ (requests' = << >> <=> Len(requests) = 1)
           /\ \A i \in DOMAIN requests' :
                 /\ i + 1 \in DOMAIN requests /\ requests'[i] = requests[i + 1]
                 /\ 1 \in 1 .. ((i + 1) - 1)
                 /\ \A j \in 1 .. (i - 1) : j + 1 \in 1 .. ((i + 1) - 1) /\ requests'[j] = requests[j + 1]
<1>1. requests \in Seq(Asked) /\ Len(requests) \in Nat \ {0}
  BY DEF LInv, LoginTypes
<1>2. /\ requests' \in Seq(Asked) /\ Len(requests') = Len(requests) - 1
      /\ DOMAIN requests' = 1 .. (Len(requests) - 1)
      /\ \A i \in 1 .. (Len(requests) - 1) : requests'[i] = requests[i + 1]
      /\ Head(requests) = requests[1]
  BY <1>1
<1>3. 1 \in DOMAIN requests /\ requests[1] \in Asked
  BY <1>1
<1>4. requests' = << >> <=> Len(requests) = 1
  <2>1. requests' = << >> <=> Len(requests') = 0
    BY <1>2, EmptyOrNot
  <2> QED BY <1>1, <1>2, <2>1
<1>5. ASSUME NEW i \in DOMAIN requests'
      PROVE  /\ i + 1 \in DOMAIN requests /\ requests'[i] = requests[i + 1]
             /\ 1 \in 1 .. ((i + 1) - 1)
             /\ \A j \in 1 .. (i - 1) : j + 1 \in 1 .. ((i + 1) - 1) /\ requests'[j] = requests[j + 1]
  <2>1. i \in 1 .. (Len(requests) - 1)
    BY <1>2
  <2>2. i + 1 \in 1 .. Len(requests) /\ 1 \in 1 .. ((i + 1) - 1)
    BY <1>1, <2>1
  <2>3. \A j \in 1 .. (i - 1) : j + 1 \in 1 .. ((i + 1) - 1) /\ j \in 1 .. (Len(requests) - 1)
    BY <1>1, <2>1
  <2>4. DOMAIN requests = 1 .. Len(requests)
    BY <1>1
  <2> QED BY <1>2, <2>1, <2>2, <2>3, <2>4
<1> QED BY <1>1, <1>2, <1>3, <1>4, <1>5

\* One more message behind the others.
LEMMA OneMessageMore ==
    ASSUME LInv, NEW m \in Told, toClient' = Append(toClient, m)
    PROVE  /\ Len(toClient') \in DOMAIN toClient' /\ toClient'[Len(toClient')] = m
           /\ \A i \in DOMAIN toClient' :
                 \/ i = Len(toClient') /\ toClient'[i] = m
                 \/ i \in DOMAIN toClient /\ toClient'[i] = toClient[i]
           /\ \A i \in DOMAIN toClient : i \in DOMAIN toClient' /\ toClient'[i] = toClient[i]
<1>1. toClient \in Seq(Told) /\ Len(toClient) \in Nat
  BY DEF LInv, LoginTypes
<1>2. /\ toClient' \in Seq(Told) /\ Len(toClient') = Len(toClient) + 1
      /\ DOMAIN toClient' = 1 .. (Len(toClient) + 1) /\ DOMAIN toClient = 1 .. Len(toClient)
      /\ \A i \in 1 .. Len(toClient) : toClient'[i] = toClient[i]
      /\ toClient'[Len(toClient) + 1] = m
  BY <1>1
<1>3. \A i \in 1 .. (Len(toClient) + 1) : i = Len(toClient) + 1 \/ i \in 1 .. Len(toClient)
  BY <1>1
<1>4. /\ \A i \in 1 .. Len(toClient) : i \in 1 .. (Len(toClient) + 1)
      /\ Len(toClient) + 1 \in 1 .. (Len(toClient) + 1)
  BY <1>1
<1> QED BY <1>2, <1>3, <1>4

LEMMA ServeKeeps ==
    ASSUME LInv, LoginTypes', Serve, UNCHANGED popUpVars
    PROVE  LInv'
<1> DEFINE r == requests[1]
<1>1. /\ requests # << >> /\ requests' = Tail(requests)
      /\ UNCHANGED <<window, user, idle, pending, screen>>
  BY DEF Serve, popUpVars
<1>2. Head(requests) = r /\ r \in Asked /\ 1 \in DOMAIN requests
  BY <1>1, OneRequestLess
<1>3. \/ /\ r.kind = "login"
         /\ account' = r.id /\ toClient' = Append(toClient, Request("ok", r.id))
      \/ /\ r.kind = "login"
         /\ toClient' = Append(toClient, Request("refused", 0)) /\ account' = account
      \/ /\ r.kind = "logout"
         /\ account' = 0 /\ toClient' = Append(toClient, Request("bye", 0))
      \/ r.kind \in {"register", "home"} /\ account' = account /\ toClient' = toClient
  BY <1>2 DEF Serve
<1>4. OneWindowComes' /\ PopUpsAtHome' /\ (LoggedIn' <=> LoggedIn)
  BY <1>1 DEF LInv, OneWindowComes, PopUpsAtHome, LoggedIn
\* No answer is under way, as there is a request.
<1>5. Answers = {}
  BY <1>1 DEF LInv, AnswerLast
<1> HIDE DEF r
<1>6. ASSUME r.kind = "login", NEW m \in Told, m.kind \in {"ok", "refused"},
             toClient' = Append(toClient, m),
             m.kind = "ok" => account' = m.id /\ m.id \in Accounts,
             m.kind = "refused" => account' = account
      PROVE  LInv'
  <2>1. /\ Len(requests) = 1 /\ window = "login" /\ idle = << >> /\ requests' = << >>
        /\ \A i \in DOMAIN requests : i = 1
    <3>1. 1 = Len(requests) /\ window = "login" /\ idle = << >>
      BY <1>2, <1>6 DEF LInv, LoginLast, r
    <3>2. requests \in Seq(Asked)
      BY DEF LInv, LoginTypes
    <3> QED BY <1>1, <3>1, <3>2, OneRequestLess
  <2>2. ~LoggedIn
    BY <2>1 DEF LoggedIn
  <2>3. account = 0
    BY <1>5, <1>6, <2>1, <2>2 DEF LInv, InSession, Requested, r
  <2>4. Answers' = {Len(toClient')} /\ toClient'[Len(toClient')] = m
    BY <1>5, <1>6, OneMessageMore DEF Answers
  <2>5. AnswerLast'
    BY <1>1, <1>6, <2>1, <2>3, <2>4 DEF AnswerLast
  <2>6. HomeFirst' /\ LoginLast'
    BY <2>1 DEF HomeFirst, LoginLast
  <2>7. InSession'
    <3>1. account' # 0 => m.kind = "ok"
      BY <1>6, <2>3
    <3> QED BY <1>4, <2>2, <2>4, <3>1 DEF InSession
  <2> QED BY <1>4, <2>5, <2>6, <2>7 DEF LInv
<1>7. CASE r.kind = "login" /\ account' = r.id /\ toClient' = Append(toClient, Request("ok", r.id))
  <2>1. r.id \in Accounts /\ r.id \in Ids
    BY <1>2, <1>7, IdTypes DEF LInv, LoginTypes, r
  <2> QED BY <1>6, <1>7, <2>1, IdTypes
<1>8. CASE /\ r.kind = "login" /\ account' = account
           /\ toClient' = Append(toClient, Request("refused", 0))
  BY <1>6, <1>8, IdTypes
<1>9. CASE /\ r.kind = "logout" /\ account' = 0
           /\ toClient' = Append(toClient, Request("bye", 0))
  <2>1. ~LoggedIn
    BY <1>2, <1>9 DEF LInv, InSession, r
  <2>2. Answers' = {}
    BY <1>5, <1>9, IdTypes, OneMessageMore DEF Answers
  <2>3. HomeFirst'
    <3> SUFFICES ASSUME NEW i \in DOMAIN requests', requests'[i].kind \in {"home", "logout"}
                 PROVE  FALSE
      BY DEF HomeFirst
    <3>1. /\ i + 1 \in DOMAIN requests /\ requests'[i] = requests[i + 1]
          /\ 1 \in 1 .. ((i + 1) - 1)
      BY <1>1, OneRequestLess
    <3>2. r.kind = "home"
      BY <3>1 DEF LInv, HomeFirst, r
    <3> QED BY <1>9, <3>2
  <2>4. LoginLast'
    <3> SUFFICES ASSUME NEW i \in DOMAIN requests', requests'[i].kind = "login"
                 PROVE  i = Len(requests') /\ window = "login" /\ idle = << >>
      BY <1>1, <2>2 DEF LoginLast
    <3>1. i + 1 \in DOMAIN requests /\ requests'[i] = requests[i + 1]
          /\ Len(requests') = Len(requests) - 1 /\ Len(requests) \in Nat
      BY <1>1, OneRequestLess
    <3>2. i + 1 = Len(requests) /\ window = "login" /\ idle = << >>
      BY <3>1 DEF LInv, LoginLast
    <3>3. i \in Nat
      BY DEF LoginTypes
    <3> QED BY <3>1, <3>2, <3>3
  <2>5. AnswerLast'
    BY <2>2 DEF AnswerLast
  <2>6. InSession'
    BY <1>4, <1>9, <2>1 DEF InSession
  <2> QED BY <1>4, <2>3, <2>4, <2>5, <2>6 DEF LInv
<1>10. CASE r.kind \in {"register", "home"} /\ account' = account /\ toClient' = toClient
  <2>1. Answers' = {}
    BY <1>5, <1>10 DEF Answers
  <2>2. HomeFirst'
    <3> SUFFICES ASSUME NEW i \in DOMAIN requests', requests'[i].kind \in {"home", "logout"}
                 PROVE  /\ account # 0
                        /\ \A j \in 1 .. (i - 1) : requests'[j].kind = "home"
                        /\ requests'[i].kind = "home" => requests'[i].id = account
      BY <1>10 DEF HomeFirst
    <3>1. /\ i + 1 \in DOMAIN requests /\ requests'[i] = requests[i + 1]
          /\ \A j \in 1 .. (i - 1) : j + 1 \in 1 .. ((i + 1) - 1) /\ requests'[j] = requests[j + 1]
      BY <1>1, OneRequestLess
    <3> QED BY <3>1 DEF LInv, HomeFirst
  <2>3. LoginLast'
    <3> SUFFICES ASSUME NEW i \in DOMAIN requests', requests'[i].kind = "login"
                 PROVE  i = Len(requests') /\ window = "login" /\ idle = << >>
      BY <1>1, <2>1 DEF LoginLast
    <3>1. i + 1 \in DOMAIN requests /\ requests'[i] = requests[i + 1]
          /\ Len(requests') = Len(requests) - 1 /\ Len(requests) \in Nat
      BY <1>1, OneRequestLess
    <3>2. i + 1 = Len(requests) /\ window = "login" /\ idle = << >>
      BY <3>1 DEF LInv, LoginLast
    <3>3. i \in Nat
      BY DEF LoginTypes
    <3> QED BY <3>1, <3>2, <3>3
  <2>4. AnswerLast'
    BY <2>1 DEF AnswerLast
  <2>5. InSession'
    <3>1. CASE LoggedIn
      <4>1. \A i \in DOMAIN requests' : requests'[i].kind = "home"
        BY <1>1, <3>1, OneRequestLess DEF LInv, InSession
      <4> QED BY <1>1, <1>4, <1>10, <3>1, <4>1 DEF LInv, InSession
    <3>2. CASE ~LoggedIn
      <4>1. account # 0 => \E i \in DOMAIN requests : requests[i].kind = "logout"
        BY <1>5, <3>2 DEF LInv, InSession, Requested
      <4>2. ASSUME NEW i \in DOMAIN requests, requests[i].kind = "logout"
            PROVE  \E k \in DOMAIN requests' : requests'[k].kind = "logout"
        <5>1. requests \in Seq(Asked) /\ i # 1
          BY <1>10, <4>2 DEF LInv, LoginTypes, r
        <5>2. i - 1 \in DOMAIN requests' /\ requests'[i - 1] = requests[i]
          BY <1>1, <5>1
        <5> QED BY <4>2, <5>2
      <4>3. account' # 0 => Requested("logout")'
        BY <1>10, <4>1, <4>2 DEF Requested
      <4> QED BY <1>4, <3>2, <4>3 DEF InSession
    <3> QED BY <3>1, <3>2
  <2> QED BY <1>4, <2>2, <2>3, <2>4, <2>5 DEF LInv
<1> QED BY <1>3, <1>7, <1>8, <1>9, <1>10

LEMMA HandleLoginKeeps ==
    ASSUME LInv, LoginTypes', HandleLogin, UNCHANGED popUpVars
    PROVE  LInv'
<1>1. /\ toClient # << >> /\ Head(toClient).kind \in {"ok", "refused"}
      /\ toClient' = Tail(toClient)
      /\ UNCHANGED <<window, requests, account, pending, screen>>
      /\ \/ /\ Head(toClient).kind = "ok"
            /\ user' = [id |-> Head(toClient).id, isOnline |-> TRUE] /\ idle' = Append(idle, "home")
         \/ Head(toClient).kind = "refused" /\ user' = user /\ idle' = idle
  BY DEF HandleLogin, popUpVars
<1>2. toClient \in Seq(Told) /\ 1 \in DOMAIN toClient /\ Head(toClient) = toClient[1]
      /\ Len(toClient) \in Nat
  BY <1>1 DEF LInv, LoginTypes
<1>3. /\ 1 \in Answers /\ Len(toClient) = 1 /\ requests = << >> /\ window = "login" /\ idle = << >>
      /\ account = IF toClient[1].kind = "ok" THEN toClient[1].id ELSE 0
      /\ toClient[1].kind = "ok" => account \in Accounts
  <2>1. 1 \in Answers
    BY <1>1, <1>2 DEF Answers
  <2> QED BY <2>1 DEF LInv, AnswerLast
<1>4. toClient' = << >>
  <2>1. toClient' \in Seq(Told) /\ Len(toClient') = 0
    BY <1>1, <1>2, <1>3
  <2> QED BY <2>1, EmptyOrNot
<1>5. HomeFirst' /\ LoginLast'
  BY <1>1, <1>3 DEF HomeFirst, LoginLast
<1>6. AnswerLast' /\ PopUpsAtHome'
  BY <1>1, <1>3, <1>4 DEF AnswerLast, Answers, LInv, PopUpsAtHome
<1>7. CASE Head(toClient).kind = "ok"
  <2>1. idle' = <<"home">> /\ Len(idle') = 1 /\ user'.id = toClient[1].id
    BY <1>1, <1>2, <1>3, <1>7
  <2>2. account # 0 /\ account = toClient[1].id
    BY <1>2, <1>3, <1>7, IdTypes
  <2>3. InSession'
    BY <1>1, <1>3, <1>4, <2>1, <2>2 DEF InSession, LoggedIn
  <2>4. OneWindowComes'
    BY <2>1 DEF OneWindowComes
  <2> QED BY <1>5, <1>6, <2>3, <2>4 DEF LInv
<1>8. CASE Head(toClient).kind = "refused"
  <2>1. account' = 0 /\ idle' = << >> /\ window' = "login"
    BY <1>1, <1>2, <1>3, <1>8
  <2>2. ~LoggedIn'
    BY <2>1 DEF LoggedIn
  <2>3. InSession'
    BY <2>1, <2>2 DEF InSession
  <2>4. OneWindowComes'
    BY <2>1 DEF OneWindowComes
  <2> QED BY <1>5, <1>6, <2>3, <2>4 DEF LInv
<1> QED BY <1>1, <1>7, <1>8

LEMMA HandleLogoutKeeps ==
    ASSUME LInv, LoginTypes', HandleLogout, UNCHANGED popUpVars
    PROVE  LInv'
<1>1. /\ toClient # << >> /\ Head(toClient).kind = "bye" /\ toClient' = Tail(toClient)
      /\ UNCHANGED <<window, user, requests, idle, account, pending, screen>>
  BY DEF HandleLogout, popUpVars
<1>2. toClient \in Seq(Told) /\ Len(toClient) \in Nat \ {0}
  BY <1>1, EmptyOrNot DEF LInv, LoginTypes
<1>3. /\ Len(toClient') = Len(toClient) - 1 /\ Head(toClient) = toClient[1]
      /\ \A i \in DOMAIN toClient' :
            i \in Nat /\ i + 1 \in DOMAIN toClient /\ toClient'[i] = toClient[i + 1]
      /\ \A i \in DOMAIN toClient : i \in Nat /\ (i # 1 =>
            i - 1 \in DOMAIN toClient' /\ toClient'[i - 1] = toClient[i])
  <2>1. /\ toClient' \in Seq(Told) /\ Len(toClient') = Len(toClient) - 1
        /\ Head(toClient) = toClient[1]
        /\ \A i \in 1 .. (Len(toClient) - 1) : toClient'[i] = toClient[i + 1]
    BY <1>1, <1>2
  <2>2. DOMAIN toClient' = 1 .. (Len(toClient) - 1) /\ DOMAIN toClient = 1 .. Len(toClient)
    BY <1>2, <2>1
  <2>3. \A i \in 1 .. (Len(toClient) - 1) : i \in Nat /\ i + 1 \in 1 .. Len(toClient)
    BY <1>2
  <2>4. \A i \in 1 .. Len(toClient) :
            i \in Nat /\ (i # 1 => i - 1 \in 1 .. (Len(toClient) - 1) /\ (i - 1) + 1 = i)
    BY <1>2
  <2> QED BY <2>1, <2>2, <2>3, <2>4
<1>4. ~LoggedIn /\ ~LoggedIn'
  BY <1>1 DEF LInv, InSession, LoggedIn
<1>5. HomeFirst' /\ OneWindowComes' /\ PopUpsAtHome'
  BY <1>1 DEF LInv, HomeFirst, OneWindowComes, PopUpsAtHome
\* What is an answer after the step was one before it.
<1>6. \A i \in Answers' : i + 1 \in Answers /\ toClient'[i] = toClient[i + 1] /\ i \in Nat
  BY <1>3 DEF Answers
<1>7. LoginLast'
  BY <1>1, <1>6 DEF LInv, LoginLast
<1>8. AnswerLast'
  <2> SUFFICES ASSUME NEW i \in Answers'
               PROVE  /\ i = Len(toClient') /\ requests = << >> /\ window = "login" /\ idle = << >>
                      /\ account = IF toClient'[i].kind = "ok" THEN toClient'[i].id ELSE 0
                      /\ toClient'[i].kind = "ok" => account \in Accounts
    BY <1>1 DEF AnswerLast
  <2>1. i + 1 \in Answers /\ toClient'[i] = toClient[i + 1] /\ i \in Nat
    BY <1>6
  <2>2. i + 1 = Len(toClient)
    BY <2>1 DEF LInv, AnswerLast
  <2>3. i = Len(toClient')
    BY <1>2, <1>3, <2>1, <2>2
  <2> QED BY <2>1, <2>3 DEF LInv, AnswerLast
<1>9. InSession'
  <2>1. account # 0 => Requested("logout") \/ \E i \in Answers : toClient[i].kind = "ok"
    BY <1>4 DEF LInv, InSession
  <2>2. ASSUME NEW i \in Answers, toClient[i].kind = "ok"
        PROVE  \E k \in Answers' : toClient'[k].kind = "ok"
    <3>1. i # 1 /\ i \in DOMAIN toClient
      BY <1>1, <1>3, <2>2 DEF Answers
    <3>2. i - 1 \in DOMAIN toClient' /\ toClient'[i - 1] = toClient[i]
      BY <1>3, <3>1
    <3> QED BY <2>2, <3>2 DEF Answers
  <2>3. Requested("logout")' = Requested("logout")
    BY <1>1 DEF Requested
  <2> QED BY <1>1, <1>4, <2>1, <2>2, <2>3 DEF InSession
<1> QED BY <1>5, <1>7, <1>8, <1>9 DEF LInv

LEMMA ShowWindowKeeps ==
    ASSUME LInv, LoginTypes', ShowWindow, UNCHANGED popUpVars
    PROVE  LInv'
<1>1. /\ idle # << >> /\ window' = Head(idle) /\ idle' = Tail(idle)
      /\ requests' = IF window' = "home"
                     THEN Append(requests, Request("home", user.id)) ELSE requests
      /\ UNCHANGED <<user, toClient, account, pending, screen>>
  BY DEF ShowWindow, popUpVars
<1>2. idle \in Seq(Shown) /\ Len(idle) = 1
  <2>1. idle \in Seq(Shown) /\ Len(idle) <= 1
    BY DEF LInv, LoginTypes, TypeOK, Shown, OneWindowComes
  <2>2. Len(idle) \in Nat /\ Len(idle) # 0
    BY <1>1, <2>1, EmptyOrNot
  <2>3. \A k \in Nat : (k <= 1 /\ k # 0) => k = 1
    OBVIOUS
  <2> QED BY <2>1, <2>2, <2>3
<1>3. idle' = << >> /\ Len(idle') = 0 /\ idle = <<window'>>
  BY <1>1, <1>2
<1>4. OneWindowComes' /\ PopUpsAtHome'
  BY <1>1, <1>3 DEF LInv, OneWindowComes, PopUpsAtHome
<1>5. LoggedIn' <=> LoggedIn
  BY <1>1, <1>3 DEF LoggedIn
<1>6. CASE window' = "home"
  <2>1. LoggedIn /\ requests' = Append(requests, Request("home", user.id))
    BY <1>1, <1>3, <1>6 DEF LoggedIn
  <2> QED BY <1>1, <1>4, <1>5, <2>1, HomeAsks
<1>7. CASE window' # "home"
  <2>1. requests' = requests /\ ~LoggedIn' /\ ~LoggedIn
    BY <1>1, <1>3, <1>5, <1>7 DEF LoggedIn
  <2>2. HomeFirst'
    BY <1>1, <2>1 DEF LInv, HomeFirst
  <2>3. LoginLast'
    BY <1>1, <2>1 DEF LInv, LoginLast
  <2>4. Answers = {} /\ Answers' = {}
    BY <1>1 DEF LInv, AnswerLast, Answers
  <2>5. AnswerLast'
    BY <2>4 DEF AnswerLast
  <2>6. InSession'
    BY <1>1, <2>1, <2>4 DEF LInv, InSession, Requested
  <2> QED BY <1>4, <2>2, <2>3, <2>5, <2>6 DEF LInv
<1> QED BY <1>6, <1>7

LEMMA PopUpKeeps ==
    ASSUME Impatient = FALSE, LInv, LoginTypes', PopUpNext
    PROVE  LInv'
<1>1. ASSUME UNCHANGED <<window, user, requests, toClient, idle, account>>, PopUpsAtHome'
      PROVE  LInv'
  BY <1>1 DEF LInv, HomeFirst, LoginLast, Answers, AnswerLast, InSession, LoggedIn, Requested,
              OneWindowComes
<1>2. ASSUME NEW k \in PopUp!Kinds, OpenPopUp(k) PROVE LInv'
  <2>1. window = "home" /\ idle = << >>
    BY <1>2, NothingAwaited DEF OpenPopUp
  <2>2. UNCHANGED <<window, user, requests, toClient, idle, account>>
    BY <1>2 DEF OpenPopUp
  <2>3. PopUpsAtHome'
    BY <2>1, <2>2 DEF PopUpsAtHome
  <2> QED BY <1>1, <2>2, <2>3
<1>3. CASE ShowPopUp
  <2>1. pending # << >> /\ UNCHANGED <<window, user, requests, toClient, idle, account>>
    BY <1>3 DEF ShowPopUp, PopUp!Show, vars
  <2>2. PopUpsAtHome'
    BY <2>1 DEF LInv, PopUpsAtHome
  <2> QED BY <1>1, <2>1, <2>2
<1>4. ASSUME NEW w \in PopUp!WindowIds, ClosePopUp(w) PROVE LInv'
  <2>1. /\ w \in screen /\ UNCHANGED <<window, user, requests, toClient, idle, account>>
    BY <1>4 DEF ClosePopUp, PopUp!Close
  <2>2. PopUpsAtHome'
    BY <2>1 DEF LInv, PopUpsAtHome
  <2> QED BY <1>1, <2>1, <2>2
<1>5. ASSUME NEW w \in PopUp!WindowIds, SubmitPopUp(w) PROVE LInv'
  <2>1. /\ w \in screen /\ requests' = Append(requests, Request("home", user.id))
        /\ UNCHANGED <<window, user, toClient, idle, account>>
    BY <1>5 DEF SubmitPopUp, PopUp!Submit
  <2>2. window = "home" /\ idle = << >>
    BY <2>1 DEF LInv, PopUpsAtHome
  <2>3. LoggedIn /\ LoggedIn' /\ PopUpsAtHome' /\ OneWindowComes'
    BY <2>1, <2>2 DEF LInv, LoggedIn, PopUpsAtHome, OneWindowComes
  <2> QED BY <2>1, <2>3, HomeAsks
<1> QED BY <1>2, <1>3, <1>4, <1>5 DEF PopUpNext

LEMMA HomeRequestKeeps ==
    ASSUME Impatient = FALSE, LInv, LoginTypes', HomeRequest, UNCHANGED popUpVars
    PROVE  LInv'
<1>1. /\ Gesture("home") /\ requests' = Append(requests, Request("home", user.id))
      /\ UNCHANGED <<window, user, toClient, idle, account, pending, screen>>
  BY DEF HomeRequest, popUpVars
<1>2. window = "home" /\ idle = << >>
  BY <1>1, NothingAwaited
<1>3. LoggedIn /\ LoggedIn' /\ PopUpsAtHome' /\ OneWindowComes'
  BY <1>1, <1>2 DEF LInv, LoggedIn, PopUpsAtHome, OneWindowComes
<1> QED BY <1>1, <1>3, HomeAsks

LEMMA StepLInv ==
    ASSUME Impatient = FALSE
    PROVE  LInv /\ [WindowsNext]_<<vars, popUpVars>> => LInv'
<1> SUFFICES ASSUME LInv, [WindowsNext]_<<vars, popUpVars>> PROVE LInv'
  OBVIOUS
<1>1. LoginTypes'
  BY StepLoginTypes DEF LInv
<1>2. CASE MainWindowNext
  BY <1>1, <1>2, ClickLoginKeeps, FormKeeps, HomeRequestKeeps, ServeKeeps, HandleLoginKeeps,
     HandleLogoutKeeps, ShowWindowKeeps DEF MainWindowNext
<1>3. CASE TidyLogout
  BY <1>1, <1>3, LogoutKeeps
<1>4. CASE PopUpNext
  BY <1>1, <1>4, PopUpKeeps
<1>5. CASE UNCHANGED <<vars, popUpVars>>
  BY <1>1, <1>5 DEF vars, popUpVars, LInv, HomeFirst, LoginLast, Answers, AnswerLast, InSession,
     LoggedIn, Requested, OneWindowComes, PopUpsAtHome
<1> QED BY <1>2, <1>3, <1>4, <1>5 DEF WindowsNext

\* Ids and windows are what they should be, whatever the user does.
THEOREM LoginTypesCorrect == WindowsSpec => []TypeOK
<1>1. WindowsInit => LoginTypes
  BY InitLInv DEF LInv
<1>2. LoginTypes => TypeOK
  BY DEF LoginTypes
<1> QED BY <1>1, <1>2, StepLoginTypes, PTL DEF WindowsSpec

\* A request of the home window or of a pop-up reaches the server in the name
\* of the account that is logged in there (controller.c:228-274, user.c:18-43),
\* for any accounts and any number of logins of a user who waits.
THEOREM HomeIsUsers ==
    ASSUME Impatient = FALSE
    PROVE  WindowsSpec => []HomeActsAsUser
<1>1. LInv => HomeActsAsUser
  <2> SUFFICES ASSUME LInv, requests # << >>, Head(requests).kind = "home"
               PROVE  Head(requests).id = account
    BY DEF HomeActsAsUser
  <2>1. 1 \in DOMAIN requests /\ Head(requests) = requests[1]
    BY DEF LInv, LoginTypes
  <2> QED BY <2>1 DEF LInv, HomeFirst
<1>2. LInv /\ [WindowsNext]_<<vars, popUpVars>> => LInv'
  BY StepLInv
<1> QED BY InitLInv, <1>1, <1>2, PTL DEF WindowsSpec

\* When nothing is under way the home window is up exactly when the server has
\* the user logged in (ui_home.c:55-60, controller.c:265).
THEOREM WindowIsServers ==
    ASSUME Impatient = FALSE
    PROVE  WindowsSpec => []WindowMatchesServer
<1>1. LInv => WindowMatchesServer
  <2> SUFFICES ASSUME LInv, requests = << >>, toClient = << >>, idle = << >>
               PROVE  window = "home" <=> account # 0
    BY DEF WindowMatchesServer
  <2>1. LoggedIn <=> window = "home"
    BY DEF LoggedIn
  <2>2. Answers = {} /\ ~Requested("logout")
    BY DEF Answers, Requested
  <2> QED BY <2>1, <2>2 DEF LInv, InSession
<1>2. LInv /\ [WindowsNext]_<<vars, popUpVars>> => LInv'
  BY StepLInv
<1> QED BY InitLInv, <1>1, <1>2, PTL DEF WindowsSpec
=============================================================================
