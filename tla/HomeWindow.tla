------------------------------ MODULE HomeWindow ------------------------------
(***************************************************************************)
(* The home window: the list of contacts and the view of the selected      *)
(* conversation (src/ui/ui_home.c), kept up to date by the controller's    *)
(* handlers (src/network/controller.c) and the requests of service.c.      *)
(*                                                                         *)
(* A user's gesture runs on the GTK thread and leaves a request; the       *)
(* server answers requests in order and pushes messages; the collector     *)
(* thread turns each answer into idle callbacks, which the GTK thread runs *)
(* in order between gestures.  So every callback meets a window that may   *)
(* have moved on since its request.  Requests and answers travel over the  *)
(* connection of module Session.  The server is not in the repository: it  *)
(* is modelled by what the client's handlers expect of it.                 *)
(* An operator whose comment begins "Variant" is the next definition with  *)
(* a plausible defect, used only to show which property notices it.        *)
(***************************************************************************)
EXTENDS Integers, Sequences, FiniteSets, SequencesExt

CONSTANTS
    Peers, Groups,   \* ids of other users and of groups, positive
    MaxMessages,     \* bound: messages of others
    MaxGestures,     \* bound: what the user does
    MaxLogins        \* bound: times the user logs in

ASSUME HomeAssumption ==
    /\ Peers \subseteq Nat \ {0} /\ Groups \subseteq Nat \ {0}
    /\ IsFiniteSet(Peers) /\ IsFiniteSet(Groups)    \* an id is an int
    /\ MaxMessages \in Nat /\ MaxGestures \in Nat /\ MaxLogins \in Nat

VARIABLES
    shown,           \* the home window is the one on screen
    box, map,        \* contacts_box, top first, and the keys of contact_map
    preview,         \* the message shown with each contact
    selected,        \* select_target_id: < 0 a group, > 0 a user, 0 nothing
    clickDisabled,   \* is_click_disabled, until its timer fires
    results,         \* users in search_results_box
    view,            \* lines of chat_view
    loaded,          \* whose history was last loaded into view, 0 if none
    requests,        \* under way to the server, in order
    toClient, idle,  \* under way to the client; callbacks not yet run
    online, members, \* the server: is the user logged in, in which groups?
    store,           \* the server's history of each conversation
    nmsg, gestures, logins

uiVars == <<shown, box, map, preview, selected, clickDisabled, results, view, loaded>>
srvVars == <<online, members, store, nmsg>>
countVars == <<gestures, logins>>
vars == <<uiVars, requests, toClient, idle, srvVars, countVars>>

Convs == Peers \cup {-g : g \in Groups}
Line(c, n, from) == [conv |-> c, n |-> n, from |-> from]
NoLine == Line(0, 0, "notice")
Request(kind, c) == [kind |-> kind, line |-> Line(c, 0, "me")]
Answer(kind, lines) == [kind |-> kind, lines |-> lines]

\* The requests of service.c.
SearchUsers == Request("search", 0)
GetHistory == Request("chats", 0)
GetHistoryMessage(c) == Request("history", c)
SendMessage(line) == [kind |-> "send", line |-> line]
LeaveOrDelete(c) == {Request("leave", c), Request("delete", c)}
JoinOrCreate(c) == {Request("join", c), Request("create", c)}

Init ==
    /\ shown = FALSE /\ box = << >> /\ map = {} /\ selected = 0
    /\ preview = [c \in Convs |-> NoLine]
    /\ clickDisabled = FALSE /\ results = {} /\ view = << >> /\ loaded = 0
    /\ requests = <<Request("login", 0)>> /\ toClient = << >> /\ idle = << >>
    /\ online = FALSE /\ members \in SUBSET {-g : g \in Groups}
    /\ store = [c \in Convs |-> << >>]
    /\ nmsg = 0 /\ gestures = 0 /\ logins = 1

(***************************************************************************)
(* The user's gestures.                                                    *)
(***************************************************************************)
Gesture == shown /\ gestures < MaxGestures /\ gestures' = gestures + 1

\* on_contact_item_click, after the requests q of its caller.  For half a
\* second after an accepted click further ones are swallowed.
Click(c, q) ==
    IF clickDisabled \/ selected = c
    THEN /\ requests' = requests \o q
         /\ clickDisabled' = TRUE
         /\ UNCHANGED selected
    ELSE /\ requests' = requests \o q \o <<GetHistoryMessage(c)>>
         /\ clickDisabled' = TRUE
         /\ selected' = c

ClickContact(c) ==
    /\ Gesture /\ c \in map
    /\ Click(c, << >>)
    /\ UNCHANGED <<shown, box, map, preview, results, view, loaded, toClient,
                   idle, srvVars, logins>>

\* on_search_changed: every edit of the entry asks the server.
TypeSearch ==
    /\ Gesture
    /\ requests' = Append(requests, SearchUsers)
    /\ UNCHANGED <<uiVars, toClient, idle, srvVars, logins>>

\* on_search_item_clicked: clears the entry (which asks once more, unless it
\* was empty) and the results, lists the user if he is not, and clicks on his contact.
ClickSearchItem(p) ==
    /\ Gesture /\ p \in results
    /\ results' = {}
    /\ IF p \in map THEN UNCHANGED <<box, map>>
       ELSE box' = <<p>> \o box /\ map' = map \cup {p}
    /\ \E q \in {<< >>, <<SearchUsers>>} : Click(p, q)
    /\ UNCHANGED <<shown, preview, view, loaded, toClient, idle, srvVars, logins>>

\* Variant: a group is filed under its own id, not the negated one.
UpdateContactUnsigned(line) ==
    LET id == IF line.conv < 0 THEN -line.conv ELSE line.conv IN
    /\ preview' = [c \in DOMAIN preview \cup {id} |-> IF c = id THEN line ELSE preview[c]]
    /\ IF id \in map
       THEN /\ box' = <<id>> \o RemoveFirst(box, id)
            /\ UNCHANGED map
       ELSE box' = Append(box, id) /\ map' = map \cup {id}

\* Variant: a new contact is not created.
UpdateContactKnown(line) ==
    IF line.conv \in map
    THEN /\ box' = <<line.conv>> \o RemoveFirst(box, line.conv)
         /\ preview' = [preview EXCEPT ![line.conv] = line]
         /\ UNCHANGED map
    ELSE UNCHANGED <<box, map, preview>>

\* Variant: a known contact keeps its message.
UpdateContactKeeps(line) ==
    IF line.conv \in map
    THEN /\ box' = <<line.conv>> \o RemoveFirst(box, line.conv)
         /\ UNCHANGED <<map, preview>>
    ELSE /\ box' = Append(box, line.conv) /\ map' = map \cup {line.conv}
         /\ preview' = [preview EXCEPT ![line.conv] = line]

\* update_or_create_contact: a known contact goes to the top, a new one to
\* the bottom; either shows the message.
UpdateContact(line) ==
    /\ preview' = [preview EXCEPT ![line.conv] = line]
    /\ IF line.conv \in map
       THEN /\ box' = <<line.conv>> \o RemoveFirst(box, line.conv)
            /\ UNCHANGED map
       ELSE box' = Append(box, line.conv) /\ map' = map \cup {line.conv}

\* on_send_button_clicked with a text in the entry.
Send ==
    /\ Gesture /\ selected # 0
    /\ LET line == Line(selected, gestures', "me") IN
       /\ view' = Append(view, line)
       /\ requests' = Append(requests, SendMessage(line))
       /\ UpdateContact(line)
    /\ UNCHANGED <<shown, selected, clickDisabled, results, loaded, toClient,
                   idle, srvVars, logins>>

\* on_leave_group_clicked and on_delete_group_clicked.
LeaveGroup ==
    /\ Gesture /\ selected < 0
    /\ \E r \in LeaveOrDelete(selected) : requests' = Append(requests, r)
    /\ UNCHANGED <<uiVars, toClient, idle, srvVars, logins>>

\* The join and create windows send the request.
EnterGroup ==
    /\ Gesture
    /\ \E g \in Groups : \E r \in JoinOrCreate(-g) :
          requests' = Append(requests, r)
    /\ UNCHANGED <<uiVars, toClient, idle, srvVars, logins>>

\* on_log_out_clicked, and the user logs in again from the login window.  The
\* old home window is only hidden: its callbacks still run.  The login is asked
\* for at once: until the home window is shown again the user has no gesture
\* here, callbacks and pushes go on as before, and the server may take its time
\* before it serves it; the properties look at the window when it is shown.
LoginAgain ==
    /\ Gesture
    /\ logins < MaxLogins /\ logins' = logins + 1
    /\ shown' = FALSE
    /\ requests' = requests \o <<Request("logout", 0), Request("login", 0)>>
    /\ UNCHANGED <<box, map, preview, selected, clickDisabled, results, view,
                   loaded, toClient, idle, srvVars>>

\* enable_click: the 500 ms timer.
EnableClick ==
    /\ clickDisabled
    /\ clickDisabled' = FALSE
    /\ UNCHANGED <<shown, box, map, preview, selected, results, view, loaded,
                   requests, toClient, idle, srvVars, countVars>>

(***************************************************************************)
(* The server (external).                                                  *)
(***************************************************************************)
Chats == {c \in Peers \cup members : store[c] # << >>}

\* What is answered to a request.
AnswersTo(r) ==
    LET c == r.line.conv IN
    CASE r.kind = "login" -> <<Answer("login", << >>)>>
      [] r.kind = "chats" ->
           <<Answer("chats", [i \in 1 .. Cardinality(Chats) |->
                                 Last(store[SetToSeq(Chats)[i]])])>>
      [] r.kind = "history" ->
           <<Answer(IF c > 0 THEN "users message" ELSE "groups message", store[c])>>
      [] r.kind \in {"leave", "delete"} /\ c \in members ->
           <<Answer(r.kind, <<Line(c, 0, "me")>>)>>
      [] r.kind \in {"join", "create"} /\ c \notin members ->
           <<Answer(r.kind, <<Line(c, 0, "notice")>>)>>
      [] r.kind = "search" -> <<Answer("search", << >>)>>
      [] OTHER -> << >>

\* A request is answered, and done.
Serve ==
    /\ requests # << >>
    /\ requests' = Tail(requests)
    /\ LET r == Head(requests)
           c == r.line.conv
       IN  /\ toClient' = toClient \o AnswersTo(r)
           /\ online' = CASE r.kind = "login" -> TRUE
                          [] r.kind = "logout" -> FALSE
                          [] OTHER -> online
           /\ members' = CASE r.kind \in {"leave", "delete"} -> members \ {c}
                           [] r.kind \in {"join", "create"} -> members \cup {c}
                           [] OTHER -> members
           /\ store' = IF r.kind = "send" /\ c \in Peers \cup members
                       THEN [store EXCEPT ![c] = Append(@, r.line)] ELSE store
    /\ UNCHANGED <<uiVars, idle, nmsg, countVars>>

\* Someone writes to the user or to a group of his; it is pushed if he is
\* logged in.
Incoming(c) ==
    /\ c \in Peers \cup members
    /\ nmsg < MaxMessages /\ nmsg' = nmsg + 1
    /\ LET line == Line(c, nmsg', "other") IN
       /\ store' = [store EXCEPT ![c] = Append(@, line)]
       /\ toClient' =
            IF online
            THEN Append(toClient, Answer(IF c > 0 THEN "user" ELSE "group",
                                         <<line>>))
            ELSE toClient
    /\ UNCHANGED <<uiVars, requests, idle, online, members, countVars>>

\* Another member leaves a group; nobody stores the notice.
OtherLeaves(c) ==
    /\ c \in members /\ online
    /\ nmsg < MaxMessages /\ nmsg' = nmsg + 1
    /\ toClient' = Append(toClient, Answer("leave", <<Line(c, 0, "notice")>>))
    /\ UNCHANGED <<uiVars, requests, idle, online, members, store, countVars>>

(***************************************************************************)
(* The controller's handlers, on the collector thread: each takes an       *)
(* answer and adds callbacks to the idle queue of GTK.                     *)
(***************************************************************************)
Callback(run, lines) == [run |-> run, lines |-> lines]

Handle(kind, callbacks) ==
    /\ toClient # << >> /\ Head(toClient).kind = kind
    /\ toClient' = Tail(toClient)
    /\ idle' = idle \o callbacks
    /\ UNCHANGED <<uiVars, requests, srvVars, countVars>>

Lines == Head(toClient).lines
Updates(lines) == [i \in DOMAIN lines |-> Callback("update", <<lines[i]>>)]

HandleLogin == Handle("login", <<Callback("home", << >>)>>)
HandleChats == Handle("chats", Updates(Lines))
HandleUserMessage == Handle("user", Updates(Lines))
HandleGroupMessage == Handle("group", Updates(Lines))
HandleJoin == Handle("join", Updates(Lines))
HandleCreate == Handle("create", Updates(Lines))
HandleDelete == Handle("delete", <<Callback("remove", Lines)>>)
HandleSearch == Handle("search", <<Callback("results", << >>)>>)

\* The user's own departure removes the contact, another's is a notice: "me" is
\* the id of session->user, here the same for every login.
HandleLeave ==
    Handle("leave", IF Lines[1].from = "me" THEN <<Callback("remove", Lines)>>
                    ELSE Updates(Lines))

\* Variant: a history of one message is taken for an empty one.
LoadOfMany(lines) ==
    IF Len(lines) <= 1 THEN << >> ELSE <<Callback("load", lines)>>

\* No callback when there is no message.
LoadOf(lines) == IF lines = << >> THEN << >> ELSE <<Callback("load", lines)>>
HandleUserHistory == Handle("users message", LoadOf(Lines))
HandleGroupHistory == Handle("groups message", LoadOf(Lines))

CollectorNext ==
    \/ HandleLogin \/ HandleChats \/ HandleUserMessage \/ HandleGroupMessage
    \/ HandleJoin \/ HandleCreate \/ HandleDelete \/ HandleSearch
    \/ HandleLeave \/ HandleUserHistory \/ HandleGroupHistory

(***************************************************************************)
(* The idle callbacks, on the GTK thread.                                  *)
(***************************************************************************)
Run(run) ==
    /\ idle # << >> /\ Head(idle).run = run
    /\ idle' = Tail(idle)

\* Variant: the map of the last login is kept.
RunHomeKeepsMap ==
    /\ Run("home")
    /\ shown' = TRUE
    /\ box' = << >> /\ results' = {} /\ preview' = [c \in Convs |-> NoLine]
    /\ view' = << >> /\ loaded' = 0
    /\ requests' = Append(requests, GetHistory)
    /\ UNCHANGED <<map, selected, clickDisabled, toClient, srvVars, countVars>>

\* g_on_show_home_window: a new window, a new map, and the chats are asked
\* for.  The selection of an earlier login stays.
RunHome ==
    /\ Run("home")
    /\ shown' = TRUE
    /\ box' = << >> /\ map' = {} /\ results' = {}
    /\ preview' = [c \in Convs |-> NoLine]
    /\ view' = << >> /\ loaded' = 0
    /\ requests' = Append(requests, GetHistory)
    /\ UNCHANGED <<selected, clickDisabled, toClient, srvVars, countVars>>

\* Variant: the line goes to the view whatever is selected.
RunUpdateBlind ==
    /\ Run("update")
    /\ UpdateContact(Head(idle).lines[1])
    /\ view' = Append(view, Head(idle).lines[1])
    /\ UNCHANGED <<shown, selected, clickDisabled, results, loaded, requests,
                   toClient, srvVars, countVars>>

\* g_on_update_history_contact: the line also goes to the view if its
\* conversation is the selected one.
RunUpdate ==
    /\ Run("update")
    /\ LET line == Head(idle).lines[1] IN
       /\ UpdateContact(line)
       /\ view' = IF line.conv = selected THEN Append(view, line) ELSE view
    /\ UNCHANGED <<shown, selected, clickDisabled, results, loaded, requests,
                   toClient, srvVars, countVars>>

\* Variant: the old content is not cleared.
RunLoadAppends ==
    /\ Run("load")
    /\ view' = view \o Head(idle).lines
    /\ loaded' = Head(idle).lines[1].conv
    /\ UNCHANGED <<shown, box, map, preview, selected, clickDisabled, results,
                   requests, toClient, srvVars, countVars>>

\* g_on_load_history_message: whatever is selected by now.
RunLoad ==
    /\ Run("load")
    /\ view' = Head(idle).lines
    /\ loaded' = Head(idle).lines[1].conv
    /\ UNCHANGED <<shown, box, map, preview, selected, clickDisabled, results,
                   requests, toClient, srvVars, countVars>>

\* g_on_remove_history_contact: the view is cleared, whatever it shows.
RunRemove ==
    /\ Run("remove")
    /\ LET c == Head(idle).lines[1].conv IN
       /\ box' = RemoveFirst(box, c)
       /\ map' = map \ {c}
       /\ preview' = [preview EXCEPT ![c] = NoLine]
    /\ view' = << >> /\ loaded' = 0
    /\ UNCHANGED <<shown, selected, clickDisabled, results, requests, toClient,
                   srvVars, countVars>>

\* g_on_update_search_user.
RunResults ==
    /\ Run("results")
    /\ results' \in SUBSET Peers
    /\ UNCHANGED <<shown, box, map, preview, selected, clickDisabled, view,
                   loaded, requests, toClient, srvVars, countVars>>

GtkNext == RunHome \/ RunUpdate \/ RunLoad \/ RunRemove \/ RunResults

UserNext ==
    \/ \E c \in Convs : ClickContact(c)
    \/ \E p \in Peers : ClickSearchItem(p)
    \/ TypeSearch \/ Send \/ LeaveGroup \/ EnterGroup \/ LoginAgain

ServerNext == Serve \/ \E c \in Convs : Incoming(c) \/ OtherLeaves(c)

Next == UserNext \/ ServerNext \/ CollectorNext \/ GtkNext \/ EnableClick

Spec == Init /\ [][Next]_vars

\* The server answers, and the collector and GTK's main loop keep running.
FairSpec ==
    /\ Spec
    /\ WF_vars(Serve)
    /\ WF_vars(CollectorNext)
    /\ WF_vars(GtkNext)
    /\ WF_vars(EnableClick)
=============================================================================
