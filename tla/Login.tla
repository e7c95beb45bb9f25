-------------------------------- MODULE Login --------------------------------
(***************************************************************************)
(* Who the user is: session->user and the windows that set it.  The login  *)
(* and register windows (src/ui/ui_login.c, ui_register.c) put a fresh     *)
(* user object, with the placeholder id 1, into the session before they    *)
(* ask the server (src/models/user.c); the collector thread puts another   *)
(* one, with the server's id, when a login succeeds (handle_login).        *)
(* Windows change in idle callbacks, and a hidden window stays on screen   *)
(* until its callback has run.                                             *)
(* An operator whose comment begins "Variant" is the next definition with  *)
(* a plausible defect, used only to show which property notices it.        *)
(***************************************************************************)
EXTENDS Integers, Sequences

CONSTANTS
    Accounts,      \* ids of the accounts the user may log in to
    Impatient,     \* does the user click while a login is unanswered?
    MaxGestures    \* bound: what the user does

Placeholder == 1

ASSUME LoginAssumption ==
    /\ Accounts \subseteq Nat \ {0, Placeholder}
    /\ Impatient \in BOOLEAN /\ MaxGestures \in Nat

VARIABLES
    window,              \* what current_ui is
    user,                \* session->user: none, or its id and isOnline
    requests, toClient,  \* under way to the server and to the client
    idle,                \* windows to be shown by idle callbacks
    account,             \* the server: who is logged in, 0 if nobody
    gestures

vars == <<window, user, requests, toClient, idle, account, gestures>>

NoUser == [id |-> 0, isOnline |-> FALSE]
Request(kind, id) == [kind |-> kind, id |-> id]

Init ==
    /\ window = "none" /\ user = NoUser
    /\ requests = << >> /\ toClient = << >> /\ idle = <<"login">>
    /\ account = 0 /\ gestures = 0

\* Variant: the id is whatever the memory held.
FreshUserUnset == [id |-> -1, isOnline |-> FALSE]

\* createUser.
FreshUser == [id |-> Placeholder, isOnline |-> FALSE]

\* User's login: not for a user who is online.
LoginRequest(u, a) == IF u.isOnline THEN << >> ELSE <<Request("login", a)>>

\* userRegister, with both fields filled in.
RegisterRequest == Request("register", 0)

\* A patient user waits for the answer to a login and for the next window.
Awaiting ==
    \/ \E i \in DOMAIN requests : requests[i].kind = "login"
    \/ \E i \in DOMAIN toClient : toClient[i].kind \in {"ok", "refused"}
    \/ idle # << >>

Gesture(w) ==
    /\ window = w
    /\ Impatient \/ ~Awaiting
    /\ gestures < MaxGestures /\ gestures' = gestures + 1

\* on_login_button_clicked, both fields filled in with account a's.
ClickLogin(a) ==
    /\ Gesture("login")
    /\ user' = FreshUser
    /\ requests' = requests \o LoginRequest(user', a)
    /\ UNCHANGED <<window, toClient, idle, account>>

\* on_register_button_clicked of the login window, on_back_button_clicked of
\* the register window.
SwitchForm ==
    /\ \/ Gesture("login") /\ idle' = Append(idle, "register")
       \/ Gesture("register") /\ idle' = Append(idle, "login")
    /\ UNCHANGED <<window, user, requests, toClient, account>>

\* on_register_button_clicked of the register window, both passwords alike.
ClickRegister ==
    /\ Gesture("register")
    /\ user' = FreshUser
    /\ requests' = Append(requests, RegisterRequest)
    /\ idle' = Append(idle, "login")
    /\ UNCHANGED <<window, toClient, account>>

\* Variant: the window is left to the server's answer.
ClickLogoutWaits ==
    /\ Gesture("home")
    /\ requests' = Append(requests, Request("logout", 0))
    /\ UNCHANGED <<window, user, toClient, idle, account>>

\* on_log_out_clicked.
ClickLogout ==
    /\ Gesture("home")
    /\ requests' = Append(requests, Request("logout", 0))
    /\ idle' = Append(idle, "login")
    /\ UNCHANGED <<window, user, toClient, account>>

\* Any other request of the home window: it carries the id of session->user.
HomeRequest ==
    /\ Gesture("home")
    /\ requests' = Append(requests, Request("home", user.id))
    /\ UNCHANGED <<window, user, toClient, idle, account>>

\* The server (external) accepts a login or not.
Serve ==
    /\ requests # << >>
    /\ requests' = Tail(requests)
    /\ LET r == Head(requests) IN
       \/ /\ r.kind = "login"
          /\ account' = r.id /\ toClient' = Append(toClient, Request("ok", r.id))
       \/ /\ r.kind = "login"
          /\ toClient' = Append(toClient, Request("refused", 0))
          /\ UNCHANGED account
       \/ /\ r.kind = "logout"
          /\ account' = 0 /\ toClient' = Append(toClient, Request("bye", 0))
       \/ /\ r.kind \in {"register", "home"}
          /\ UNCHANGED <<account, toClient>>
    /\ UNCHANGED <<window, user, idle, gestures>>

\* Variant: the user object of the login window is kept.
HandleLoginKeepsUser ==
    /\ toClient # << >> /\ Head(toClient).kind \in {"ok", "refused"}
    /\ toClient' = Tail(toClient)
    /\ idle' = IF Head(toClient).kind = "ok" THEN Append(idle, "home") ELSE idle
    /\ UNCHANGED <<window, user, requests, account, gestures>>

\* handle_login: a new user object, then the home window; a refusal is only
\* reported.
HandleLogin ==
    /\ toClient # << >> /\ Head(toClient).kind \in {"ok", "refused"}
    /\ toClient' = Tail(toClient)
    /\ LET m == Head(toClient) IN
       IF m.kind = "ok"
       THEN /\ user' = [id |-> m.id, isOnline |-> TRUE]
            /\ idle' = Append(idle, "home")
       ELSE UNCHANGED <<user, idle>>
    /\ UNCHANGED <<window, requests, account, gestures>>

\* handle_logout: a notification; the user object stays.
HandleLogout ==
    /\ toClient # << >> /\ Head(toClient).kind = "bye"
    /\ toClient' = Tail(toClient)
    /\ UNCHANGED <<window, user, requests, idle, account, gestures>>

\* set_current_ui, by the callback of the next window; home asks for chats.
ShowWindow ==
    /\ idle # << >>
    /\ window' = Head(idle) /\ idle' = Tail(idle)
    /\ requests' = IF window' = "home"
                   THEN Append(requests, Request("home", user.id)) ELSE requests
    /\ UNCHANGED <<user, toClient, account, gestures>>

UserNext ==
    \/ \E a \in Accounts : ClickLogin(a)
    \/ SwitchForm \/ ClickRegister \/ ClickLogout \/ HomeRequest

Next == UserNext \/ Serve \/ HandleLogin \/ HandleLogout \/ ShowWindow

Spec == Init /\ [][Next]_vars

-----------------------------------------------------------------------------
\* Every variable holds a value of its type.
Ids == Accounts \cup {0, Placeholder}
TypeOK ==
    /\ window \in {"none", "login", "register", "home"}
    /\ user \in [id : Ids, isOnline : BOOLEAN]
    /\ account \in Accounts \cup {0}
    /\ \A i \in DOMAIN requests : requests[i].id \in Ids
    /\ \A i \in DOMAIN toClient : toClient[i].id \in Ids
    /\ idle \in Seq({"login", "register", "home"})

\* A request of the home window reaches the server in the name of the account
\* that is logged in there: never under the placeholder, never under the
\* account of an earlier login (controller.c:228-274, user.c:18-43).
HomeActsAsUser ==
    (requests # << >> /\ Head(requests).kind = "home")
        => Head(requests).id = account

\* When nothing is under way the home window is up exactly when the server has
\* the user logged in (ui_home.c:55-60, controller.c:265).
WindowMatchesServer ==
    (requests = << >> /\ toClient = << >> /\ idle = << >>)
        => (window = "home" <=> account # 0)

\* "User is already online" (user.c:84): no login is sent for a session whose
\* user the server has put online.
LoginOnlyOffline ==
    [][\A a \in Accounts :
          (ClickLogin(a) /\ user.isOnline /\ user.id = account)
              => requests' = requests]_vars
=============================================================================
