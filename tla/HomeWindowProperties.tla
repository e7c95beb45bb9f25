------------------------- MODULE HomeWindowProperties -------------------------
(***************************************************************************)
(* What the home window must show, stated over HomeWindow.                 *)
(***************************************************************************)
EXTENDS HomeWindow

LineType == [conv : Convs \cup {0}, n : Nat, from : {"me", "other", "notice"}]

\* Every variable holds a value of its type.
TypeOK ==
    /\ shown \in BOOLEAN /\ clickDisabled \in BOOLEAN /\ online \in BOOLEAN
    /\ box \in Seq(Convs) /\ map \subseteq Convs /\ results \subseteq Peers
    /\ selected \in Convs \cup {0} /\ loaded \in Convs \cup {0}
    /\ view \in Seq(LineType) /\ preview \in [Convs -> LineType]
    /\ members \subseteq Convs /\ store \in [Convs -> Seq(LineType)]
    /\ \A i \in DOMAIN requests : requests[i].line \in LineType
    /\ \A i \in DOMAIN toClient : toClient[i].lines \in Seq(LineType)
    /\ \A i \in DOMAIN idle : idle[i].lines \in Seq(LineType)

\* contact_map finds exactly the widgets of contacts_box, each listed once,
\* through updates, searches, removals and a rebuilt window
\* (ui_home.c:296-376, 449-472, 636-643).
MapMatchesBox == ToSet(box) = map /\ Len(box) = Cardinality(map)

\* When everything asked for has arrived, every conversation that has a
\* message is among the contacts.
Settled == shown /\ requests = << >> /\ toClient = << >> /\ idle = << >>
ContactsComplete == Settled => Chats \subseteq map

\* The messages others wrote in conversation c, in the order of lines.
Theirs(lines, c) ==
    LET upTo[i \in 0 .. Len(lines)] ==
            IF i = 0 THEN << >>
            ELSE IF lines[i].conv = c /\ lines[i].from = "other"
                 THEN Append(upTo[i - 1], lines[i])
                 ELSE upTo[i - 1]
    IN  upTo[Len(lines)]

\* When everything asked for has arrived, a message of another that a contact
\* shows is the last that others wrote there: the chat list asked for at login
\* and the pushes around it do not put an older one in its place
\* (controller.c:502-571, 924-1013, ui_home.c:315-376).
PreviewLatest ==
    Settled => \A c \in map :
                  preview[c].from = "other" => preview[c] = Last(Theirs(store[c], c))

\* The window is up, no history is on its way, and the last one loaded is the
\* selected one's.
HistoryHere ==
    /\ shown /\ selected # 0 /\ loaded = selected
    /\ \A i \in DOMAIN requests : requests[i].kind # "history"
    /\ \A i \in DOMAIN toClient :
          toClient[i].kind \notin {"users message", "groups message"}
    /\ \A i \in DOMAIN idle : idle[i].run # "load"

\* Once its history is here the view shows no other conversation's lines,
\* however the clicks, loads and pushes before it were interleaved.
OneConversation ==
    HistoryHere => \A i \in DOMAIN view : view[i].conv = selected

\* Once its history is here, the messages others wrote in the selected
\* conversation are in the view, or pushed and on their way to it, each once
\* and in order: the load and the pushes around it neither lose nor repeat any
\* (ui_home.c:113-142, 659-676).
IncomingExactlyOnce ==
    HistoryHere =>
        Theirs(view, selected)
          \o Theirs(FlattenSeq([i \in DOMAIN idle |-> idle[i].lines]), selected)
          \o Theirs(FlattenSeq([i \in DOMAIN toClient |-> toClient[i].lines]), selected)
        = Theirs(store[selected], selected)

\* The history a click asked for is shown, unless the conversation is empty
\* or the selection or the window changes first.
Asked(c) == \E i \in DOMAIN requests : requests[i] = GetHistoryMessage(c)
SelectionLoads ==
    \A c \in Convs :
        (Asked(c) /\ store[c] # << >>) ~> (loaded = c)

\* load_chat_history clears "nội dung cũ", the old content (ui_home.c:120):
\* no line of the conversation it loads is lost.
LoadClearsOnlyOld ==
    [][\A i \in DOMAIN view :
          (RunLoad /\ view[i].conv = loaded') => view[i] \in ToSet(view')]_vars
=============================================================================
