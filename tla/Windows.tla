------------------------------- MODULE Windows -------------------------------
(***************************************************************************)
(* The windows of Login with the pop-up windows of PopUps.  The pop-ups    *)
(* are opened from the home window, are windows of their own, which hiding *)
(* the home window leaves alone, and act for session->user as it is when   *)
(* their button is clicked.                                                *)
(* GTK has one queue of idle callbacks; here each module has its own,      *)
(* which allows the orders of one queue and more.                          *)
(***************************************************************************)
EXTENDS Login

CONSTANT MaxWindows   \* bound: pop-up windows opened

ASSUME WindowsAssumption == MaxWindows \in Nat

VARIABLES pending, opened, screen, pointer, live, sent

popUpVars == <<pending, opened, screen, pointer, live, sent>>

\* A patient user has one pop-up window of a kind at a time.
PopUp == INSTANCE PopUps WITH OneOfAKind <- ~Impatient

WindowsInit == Init /\ PopUp!Init

PopUpGesture == gestures < MaxGestures /\ gestures' = gestures + 1

\* The buttons of the home window, and the idle callback they post.
OpenPopUp(k) ==
    /\ Gesture("home") /\ PopUp!ClickOpen(k)
    /\ UNCHANGED <<window, user, requests, toClient, idle, account>>

ShowPopUp == PopUp!Show /\ UNCHANGED vars

\* join_group_action and create_group_action, with service_join_group and
\* service_create_group: the request carries the id of session->user.
SubmitPopUp(w) ==
    /\ PopUpGesture /\ PopUp!Submit(w)
    /\ requests' = Append(requests, Request("home", user.id))
    /\ UNCHANGED <<window, user, toClient, idle, account>>

ClosePopUp(w) ==
    /\ PopUpGesture /\ PopUp!Close(w)
    /\ UNCHANGED <<window, user, requests, toClient, idle, account>>

\* A patient user logs out when his pop-up windows are gone.
TidyLogout ==
    /\ Impatient \/ (pending = << >> /\ screen = {})
    /\ ClickLogout /\ UNCHANGED popUpVars

MainWindowNext ==
    /\ \/ \E a \in Accounts : ClickLogin(a)
       \/ SwitchForm \/ ClickRegister \/ HomeRequest
       \/ Serve \/ HandleLogin \/ HandleLogout \/ ShowWindow
    /\ UNCHANGED popUpVars

PopUpNext ==
    \/ \E k \in PopUp!Kinds : OpenPopUp(k)
    \/ ShowPopUp
    \/ \E w \in PopUp!WindowIds : SubmitPopUp(w) \/ ClosePopUp(w)

WindowsNext == MainWindowNext \/ TidyLogout \/ PopUpNext

WindowsSpec == WindowsInit /\ [][WindowsNext]_<<vars, popUpVars>>
-----------------------------------------------------------------------------
\* Also with windows opened, left and used in several logins, a window on the
\* screen acts on its own form and its own pointer (pop_up_join_group.c:28-33).
FormAndPointerMatch == PopUp!FormAndPointerMatch

\* Also then it sends one request at most (pop_up_join_group.c:27-34).
SentOnce == PopUp!SentOnce
=============================================================================
