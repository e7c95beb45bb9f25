--------------------------- MODULE HomeWindowProofs ---------------------------
(***************************************************************************)
(* What is proved of the home window, for any users, groups, gestures,     *)
(* messages and logins.  HInv gives its types, that contact_map and        *)
(* contacts_box agree, that the view settles on the selected conversation, *)
(* and that no conversation is missing from the contacts.  FInv, which     *)
(* follows what others write through the answers and the callbacks, gives  *)
(* that the view has each message of theirs once and in order, and that a  *)
(* contact shows the last of them.                                         *)
(***************************************************************************)
EXTENDS HomeWindowProperties, NumberTheorems, FiniteSetTheorems, SequenceTheorems, TLAPS

(***************************************************************************)
(* The inductive invariant.                                                *)
(***************************************************************************)

\* What may be under way.  A callback that runs needs at least one line.
GroupConvs == {-g : g \in Groups}
ConvLine == [conv : Convs, n : Nat, from : {"me", "other", "notice"}]
OnConv == {"history", "send", "leave", "delete", "join", "create"}
Requests ==
    {r \in [kind : OnConv \cup {"login", "logout", "search", "chats"}, line : LineType] :
        /\ r.kind \in OnConv => r.line.conv \in Convs
        /\ r.kind \in {"join", "create"} => r.line.conv \in GroupConvs}
HistoryKinds == {"users message", "groups message"}
Replies ==
    {a \in [kind : HistoryKinds \cup {"login", "chats", "user", "group", "join",
                                      "create", "delete", "search", "leave"},
            lines : Seq(ConvLine)] :
        a.kind \in {"leave", "delete"} => a.lines # << >>}
Callbacks ==
    {b \in [run : {"home", "update", "load", "remove", "results"}, lines : Seq(ConvLine)] :
        b.run \in {"update", "load", "remove"} => b.lines # << >>}

HomeTypes ==
    /\ shown \in BOOLEAN /\ clickDisabled \in BOOLEAN /\ online \in BOOLEAN
    /\ box \in Seq(Convs) /\ map \subseteq Convs /\ results \subseteq Peers
    /\ selected \in Convs \cup {0} /\ loaded \in Convs \cup {0}
    /\ view \in Seq(ConvLine) /\ preview \in [Convs -> LineType]
    /\ members \subseteq GroupConvs /\ store \in [Convs -> Seq(ConvLine)]
    /\ requests \in Seq(Requests) /\ toClient \in Seq(Replies) /\ idle \in Seq(Callbacks)
    /\ nmsg \in Nat /\ gestures \in Nat /\ logins \in Nat

\* Each contact is listed once, and in the map.
BoxIsMap ==
    /\ ToSet(box) = map
    /\ \A i, j \in DOMAIN box : box[i] = box[j] => i = j

\* A history is filed under its conversation, and so travels, if there is one.
AllOf(lines, c) == \A i \in DOMAIN lines : lines[i].conv = c
Filed(lines) == \E c \in Convs : store[c] # << >> /\ AllOf(lines, c)
Histories ==
    /\ \A c \in Convs : AllOf(store[c], c)
    /\ \A i \in DOMAIN toClient :
          toClient[i].kind \in HistoryKinds /\ toClient[i].lines # << >>
             => Filed(toClient[i].lines)
    /\ \A i \in DOMAIN idle : idle[i].run = "load" => Filed(idle[i].lines)
    /\ loaded # 0 => store[loaded] # << >>

\* A view of the selected conversation that shows another's line is about to
\* be loaded anew: the history is asked for, answered or waiting to be loaded.
Answered(c) ==
    \E i \in DOMAIN toClient :
       /\ toClient[i].kind \in HistoryKinds /\ toClient[i].lines # << >>
       /\ toClient[i].lines[1].conv = c
ToLoad(c) == \E i \in DOMAIN idle : idle[i].run = "load" /\ idle[i].lines[1].conv = c
ViewOrComing ==
    (selected # 0 /\ loaded = selected) =>
        AllOf(view, selected) \/ Asked(selected) \/ Answered(selected) \/ ToLoad(selected)

\* One login at most is under way, and just when the window is not shown;
\* what the user sent before he logged out is before it.
LoginAsked == \E i \in DOMAIN requests : requests[i].kind = "login"
LoginAnswered == \E i \in DOMAIN toClient : toClient[i].kind = "login"
HomeComing == \E i \in DOMAIN idle : idle[i].run = "home"
OneLogin ==
    /\ shown => ~LoginAsked /\ ~LoginAnswered /\ ~HomeComing
    /\ LoginAsked => ~LoginAnswered /\ ~HomeComing
    /\ LoginAnswered => ~HomeComing
    /\ \A i, j \in DOMAIN requests :
          requests[i].kind = "login" => /\ requests[j].kind \in {"login", "logout", "send"} => j <= i
                                        /\ requests[j].kind = "login" => j = i
    /\ \A i, j \in DOMAIN toClient :
          toClient[i].kind = "login" /\ toClient[j].kind = "login" => i = j
    /\ \A i, j \in DOMAIN idle : idle[i].run = "home" /\ idle[j].run = "home" => i = j
    /\ ~LoginAsked =>
          /\ online
          /\ \A i \in DOMAIN requests : requests[i].kind # "logout"
          /\ shown \/ \A i \in DOMAIN requests : requests[i].kind # "send"

\* The answers and the callbacks that will list a contact, and those that will
\* remove it: the user's own departure removes, another's is a notice.
IsNotice(a) == a.kind = "leave" /\ a.lines[1].from # "me"
Adding(a) == a.kind \in {"chats", "user", "group", "join", "create"} \/ IsNotice(a)
Removing(a) == a.kind = "delete" \/ (a.kind = "leave" /\ ~IsNotice(a))
ReplyAdds(a, c) == Adding(a) /\ \E k \in DOMAIN a.lines : a.lines[k].conv = c
ReplyRemoves(a, c) == Removing(a) /\ a.lines[1].conv = c
RunAdds(b, c) == b.run = "update" /\ b.lines[1].conv = c
RunRemoves(b, c) == b.run = "remove" /\ b.lines[1].conv = c

\* Among the callbacks runs and the answers behind them something lists c.
AddIn(runs, replies, c) ==
    \/ \E i \in DOMAIN runs : RunAdds(runs[i], c)
    \/ \E i \in DOMAIN replies : ReplyAdds(replies[i], c)

\* Something that lists c comes after whatever removes it.
LastAdds(runs, replies, c) ==
    /\ \A i \in DOMAIN runs : RunRemoves(runs[i], c) =>
          \/ \E j \in DOMAIN runs : j > i /\ RunAdds(runs[j], c)
          \/ \E j \in DOMAIN replies : ReplyAdds(replies[j], c)
    /\ \A i \in DOMAIN replies : ReplyRemoves(replies[i], c) =>
          \E j \in DOMAIN replies : j > i /\ ReplyAdds(replies[j], c)

\* A conversation of the user's is listed, or will be, if it has a message or
\* one of his is on its way; the chats asked for at login bring the others.
Mine == Peers \cup members
ChatsAsked == \E i \in DOMAIN requests : requests[i].kind = "chats"
Sending(c) ==
    \E i \in DOMAIN requests : requests[i].kind = "send" /\ requests[i].line.conv = c
Listed(c) == c \in map \/ AddIn(idle, toClient, c)
Contacts ==
    /\ \A c \in Mine : LastAdds(idle, toClient, c)
    /\ shown => \A c \in Mine : /\ store[c] # << >> => ChatsAsked \/ Listed(c)
                                /\ Sending(c) => Listed(c)

HInv ==
    /\ HomeTypes /\ BoxIsMap /\ Histories /\ ViewOrComing
    /\ OneLogin /\ Contacts

\* What is on its way for a conversation's view.
Coming(c) == Asked(c) \/ Answered(c) \/ ToLoad(c)

(***************************************************************************)
(* What others wrote, and where it is: in the view, among the callbacks,   *)
(* or among the answers.  A history brings again what was pushed before    *)
(* it, so that its lines are no part of what is pushed.                    *)
(***************************************************************************)
Wanted(l, c) == l.conv = c /\ l.from = "other"
PushedRun(b) == IF b.run = "load" THEN << >> ELSE b.lines
PushedReply(a) == IF a.kind \in HistoryKinds THEN << >> ELSE a.lines
RunLines(q) == [i \in DOMAIN q |-> PushedRun(q[i])]
ReplyLines(q) == [i \in DOMAIN q |-> PushedReply(q[i])]
RunsIn(q, c) == Theirs(FlattenSeq(RunLines(q)), c)
RepliesIn(q, c) == Theirs(FlattenSeq(ReplyLines(q)), c)

\* What is behind place i of a queue.
After(q, i) == [k \in 1 .. Len(q) - i |-> q[i + k]]

\* What others wrote among the callbacks q and the answers r behind them.
Pushed(q, r, c) == RunsIn(q, c) \o RepliesIn(r, c)

\* With what is pushed, lines have all that others wrote in s, once and in order.
Fresh(lines, q, r, s, c) == Theirs(lines, c) \o Pushed(q, r, c) = Theirs(s, c)

\* The last of q, if there is one, is the last of s.
EndsAs(q, s) == q # << >> => s # << >> /\ q[Len(q)] = s[Len(s)]

\* Others' messages come in pushes, the chats and the histories only, and an
\* update shows one line.
NoOthers(lines) == \A k \in DOMAIN lines : lines[k].from # "other"
PlainReply(a) ==
    a.kind \notin {"chats", "user", "group"} \cup HistoryKinds => NoOthers(a.lines)
Plain ==
    /\ \A i \in DOMAIN requests :
          requests[i].kind = "send" => requests[i].line.from # "other"
    /\ \A i \in DOMAIN toClient : PlainReply(toClient[i])
    /\ \A i \in DOMAIN idle : idle[i].run = "update" => Len(idle[i].lines) = 1
    /\ \A i \in DOMAIN idle :
          idle[i].run \in {"home", "remove", "results"} => NoOthers(idle[i].lines)

\* A login is the last of the requests, and the answers to what was asked
\* before come before its own: none of them reaches the new window.
Late(a) == a.kind = "chats" \/ a.kind \in HistoryKinds
LoginLast ==
    /\ \A i, j \in DOMAIN requests : requests[i].kind = "login" => j <= i
    /\ ~shown /\ ~LoginAsked => requests = << >>
    /\ \A i, j \in DOMAIN toClient : toClient[i].kind = "login" /\ j > i => ~Late(toClient[j])
    /\ HomeComing => \A j \in DOMAIN toClient : ~Late(toClient[j])
    /\ \A i, j \in DOMAIN idle : idle[i].run = "home" /\ j > i => idle[j].run # "load"

\* The chats are asked for as the window is shown, so that they come before
\* any history: they repeat messages already pushed, and would repeat them
\* behind a history.
NoHistory == \A i \in DOMAIN toClient : toClient[i].kind \notin HistoryKinds
NoLoad == \A i \in DOMAIN idle : idle[i].run # "load"
ChatsFirst ==
    shown =>
    /\ \A i, j \in DOMAIN requests :
          requests[i].kind = "history" /\ requests[j].kind = "chats" => j < i
    /\ ChatsAsked => loaded = 0 /\ NoHistory /\ NoLoad
    /\ \A i \in DOMAIN toClient : toClient[i].kind = "chats" =>
          /\ loaded = 0 /\ NoLoad
          /\ \A j \in DOMAIN toClient : j < i => toClient[j].kind \notin HistoryKinds

\* The last message pushed in a conversation, behind the login if one is under
\* way, is the last that others wrote there.
AllEnd(q, r) == \A c \in Convs : EndsAs(Pushed(q, r, c), Theirs(store[c], c))
Pending ==
    /\ shown => AllEnd(idle, toClient)
    /\ \A i \in DOMAIN toClient :
          toClient[i].kind = "login" => AllEnd(<< >>, After(toClient, i))
    /\ \A i \in DOMAIN idle : idle[i].run = "home" => AllEnd(After(idle, i), toClient)

\* A history under way and what is pushed behind it are all that others wrote.
FreshFrom(lines, q, r) ==
    \A c \in Convs : lines[1].conv = c => Fresh(lines, q, r, store[c], c)
HistoryFresh ==
    shown =>
    /\ \A i \in DOMAIN idle :
          idle[i].run = "load" => FreshFrom(idle[i].lines, After(idle, i), toClient)
    /\ \A i \in DOMAIN toClient :
          toClient[i].kind \in HistoryKinds /\ toClient[i].lines # << >>
             => FreshFrom(toClient[i].lines, << >>, After(toClient, i))

\* So is the view, once a history of the selected conversation was loaded and
\* no other of it is coming.
ViewFresh ==
    (shown /\ selected # 0 /\ loaded = selected) =>
        Coming(selected) \/ Fresh(view, idle, toClient, store[selected], selected)

\* A message of another that a contact shows is the last that others wrote, if
\* none is pushed.
PreviewFresh ==
    shown => \A c \in Convs :
       preview[c].from = "other" /\ Pushed(idle, toClient, c) = << >> =>
          Theirs(store[c], c) # << >> /\ preview[c] = Theirs(store[c], c)[Len(Theirs(store[c], c))]

FInv ==
    /\ HInv /\ Plain /\ LoginLast /\ ChatsFirst
    /\ Pending /\ HistoryFresh /\ ViewFresh /\ PreviewFresh

(***************************************************************************)
(* Facts about sequences.                                                  *)
(***************************************************************************)

\* A concatenation of typed sequences is typed, and has both one after the other.
LEMMA ConcatTyped ==
    ASSUME NEW S, NEW s \in Seq(S), NEW t \in Seq(S)
    PROVE  s \o t \in Seq(S)
BY SMT

LEMMA ConcatPlaces ==
    ASSUME NEW S, NEW s \in Seq(S), NEW t \in Seq(S)
    PROVE  /\ \A i \in DOMAIN s : i \in DOMAIN (s \o t) /\ (s \o t)[i] = s[i]
           /\ \A i \in DOMAIN t : Len(s) + i \in DOMAIN (s \o t) /\ (s \o t)[Len(s) + i] = t[i]
           /\ \A i \in DOMAIN (s \o t) :
                 \/ i \in DOMAIN s /\ (s \o t)[i] = s[i]
                 \/ i \notin DOMAIN s /\ i > Len(s) /\ i - Len(s) \in DOMAIN t
                    /\ (s \o t)[i] = t[i - Len(s)]
BY SMT

FromBoth(u, s, t) ==
    \A i \in DOMAIN u : (\E j \in DOMAIN s : u[i] = s[j]) \/ (\E j \in DOMAIN t : u[i] = t[j])

LEMMA ConcatFrom ==
    ASSUME NEW S, NEW s \in Seq(S), NEW t \in Seq(S)
    PROVE  FromBoth(s \o t, s, t)
<1> SUFFICES ASSUME NEW i \in DOMAIN (s \o t)
             PROVE  (\E j \in DOMAIN s : (s \o t)[i] = s[j]) \/ (\E j \in DOMAIN t : (s \o t)[i] = t[j])
  BY DEF FromBoth
<1>1. \/ i \in DOMAIN s /\ (s \o t)[i] = s[i]
      \/ i - Len(s) \in DOMAIN t /\ (s \o t)[i] = t[i - Len(s)]
  BY ConcatPlaces
<1> QED BY <1>1

LEMMA AppendTyped ==
    ASSUME NEW S, NEW s \in Seq(S), NEW e \in S
    PROVE  Append(s, e) \in Seq(S)
BY SMT

LEMMA AppendPlaces ==
    ASSUME NEW S, NEW s \in Seq(S), NEW e \in S
    PROVE  /\ \A i \in DOMAIN s : i \in DOMAIN Append(s, e) /\ Append(s, e)[i] = s[i]
           /\ Len(s) + 1 \in DOMAIN Append(s, e) /\ Append(s, e)[Len(s) + 1] = e
           /\ \A i \in DOMAIN Append(s, e) :
                 \/ i \in DOMAIN s /\ Append(s, e)[i] = s[i]
                 \/ i \notin DOMAIN s /\ i = Len(s) + 1 /\ Append(s, e)[i] = e
           /\ \A i \in DOMAIN s : i \in Nat /\ i < Len(s) + 1
BY SMT

\* What is behind the head of a queue moves up by one.
LEMMA TailPlaces ==
    ASSUME NEW S, NEW s \in Seq(S), s # << >>
    PROVE  /\ Head(s) = s[1] /\ 1 \in DOMAIN s /\ s[1] \in S
           /\ Tail(s) \in Seq(S)
           /\ \A i \in DOMAIN s : i \in Nat /\ i >= 1
           /\ \A i \in DOMAIN s : i # 1 => i - 1 \in DOMAIN Tail(s) /\ Tail(s)[i - 1] = s[i]
           /\ \A i \in DOMAIN Tail(s) : i \in Nat /\ i >= 1 /\ i + 1 \in DOMAIN s /\ Tail(s)[i] = s[i + 1]
BY SMT

LEMMA NonEmptyHasFirst ==
    ASSUME NEW S, NEW s \in Seq(S), s # << >>
    PROVE  1 \in DOMAIN s /\ s[1] \in S /\ Len(s) \in DOMAIN s /\ s[Len(s)] \in S
BY SMT

LEMMA AppendNonEmpty ==
    ASSUME NEW S, NEW s \in Seq(S), NEW e \in S
    PROVE  Append(s, e) # << >>
<1>1. Len(Append(s, e)) = Len(s) + 1 /\ Len(s) \in Nat
  BY SMT
<1>2. Append(s, e) \in Seq(S)
  BY SMT
<1> QED BY <1>1, <1>2, SMT

\* A larger type.
LEMMA SeqOfMore ==
    ASSUME NEW S, NEW T, S \subseteq T, NEW s \in Seq(S)
    PROVE  s \in Seq(T)
BY SMT

\* The users and the groups of the user have signs of their own.
LEMMA Signs ==
    /\ Peers \subseteq Convs /\ GroupConvs \subseteq Convs /\ Convs = Peers \cup GroupConvs
    /\ \A c \in Peers : c \in Int /\ c > 0
    /\ \A c \in GroupConvs : c \in Int /\ c < 0
    /\ 0 \notin Convs /\ Peers \cap GroupConvs = {}
    /\ \A g \in Groups : -g \in GroupConvs
BY HomeAssumption, SMT DEF Convs, GroupConvs

LEMMA LinesTyped ==
    /\ ConvLine \subseteq LineType
    /\ \A c \in Convs : \A n \in Nat : \A f \in {"me", "other", "notice"} :
          Line(c, n, f) \in ConvLine /\ Line(c, n, f).conv = c /\ Line(c, n, f).from = f
    /\ NoLine \in LineType /\ Line(0, 0, "me") \in LineType
BY SMT DEF ConvLine, LineType, Line, NoLine

LEMMA RequestsTyped ==
    /\ SearchUsers \in Requests /\ GetHistory \in Requests
    /\ Request("login", 0) \in Requests /\ Request("logout", 0) \in Requests
    /\ \A c \in Convs : /\ GetHistoryMessage(c) \in Requests
                        /\ LeaveOrDelete(c) \subseteq Requests
    /\ \A c \in GroupConvs : JoinOrCreate(c) \subseteq Requests
    /\ \A l \in ConvLine : SendMessage(l) \in Requests
<1>1. ASSUME NEW k \in OnConv \cup {"login", "logout", "search", "chats"},
             NEW l \in LineType, k \in OnConv => l.conv \in Convs,
             k \in {"join", "create"} => l.conv \in GroupConvs
      PROVE  [kind |-> k, line |-> l] \in Requests
  <2>1. [kind |-> k, line |-> l] \in
           [kind : OnConv \cup {"login", "logout", "search", "chats"}, line : LineType]
    OBVIOUS
  <2> QED BY <1>1, <2>1, Zenon DEF Requests
<1>2. \A k \in {"login", "logout", "search", "chats"} :
         k \notin OnConv /\ Request(k, 0) \in Requests
  <2>1. \A k \in {"login", "logout", "search", "chats"} :
           k \notin OnConv /\ k \notin {"join", "create"}
    BY SMT DEF OnConv
  <2> QED BY <1>1, <2>1, LinesTyped, Zenon DEF Request
<1>3. \A c \in Convs : \A k \in {"history", "leave", "delete"} : Request(k, c) \in Requests
  <2> SUFFICES ASSUME NEW c \in Convs, NEW k \in {"history", "leave", "delete"}
               PROVE  Request(k, c) \in Requests
    OBVIOUS
  <2>1. Line(c, 0, "me") \in LineType /\ Line(c, 0, "me").conv \in Convs
    BY LinesTyped
  <2>2. k \in OnConv /\ k \notin {"join", "create"}
    BY SMT DEF OnConv
  <2> QED BY <1>1, <2>1, <2>2, Zenon DEF Request
<1>6. \A c \in GroupConvs : \A k \in {"join", "create"} : Request(k, c) \in Requests
  <2> SUFFICES ASSUME NEW c \in GroupConvs, NEW k \in {"join", "create"}
               PROVE  Request(k, c) \in Requests
    OBVIOUS
  <2>1. c \in Convs
    BY Signs
  <2>2. Line(c, 0, "me") \in LineType /\ Line(c, 0, "me").conv = c
    BY <2>1, LinesTyped
  <2>3. k \in OnConv
    BY SMT DEF OnConv
  <2> QED BY <1>1, <2>1, <2>2, <2>3, Zenon DEF Request
<1>4. \A l \in ConvLine : l \in LineType /\ l.conv \in Convs
  BY LinesTyped, SMT DEF ConvLine
<1>5. \A l \in ConvLine : SendMessage(l) \in Requests
  <2>1. "send" \in OnConv /\ "send" \notin {"join", "create"}
    BY DEF OnConv
  <2> QED BY <1>1, <1>4, <2>1, Zenon DEF SendMessage
<1> QED BY <1>2, <1>3, <1>5, <1>6, Zenon
        DEF SearchUsers, GetHistory, GetHistoryMessage, LeaveOrDelete, JoinOrCreate

LEMMA RepliesTyped ==
    ASSUME NEW lines \in Seq(ConvLine)
    PROVE  /\ \A k \in HistoryKinds \cup {"login", "chats", "user", "group", "join",
                                          "create", "search"} : Answer(k, lines) \in Replies
           /\ \A k \in {"leave", "delete"} : lines # << >> => Answer(k, lines) \in Replies
<1> DEFINE Kinds == HistoryKinds \cup {"login", "chats", "user", "group", "join",
                                      "create", "delete", "search", "leave"}
<1>1. ASSUME NEW k \in Kinds, k \in {"leave", "delete"} => lines # << >>
      PROVE  Answer(k, lines) \in Replies
  <2>1. Answer(k, lines) \in [kind : Kinds, lines : Seq(ConvLine)]
    BY DEF Answer
  <2>2. Answer(k, lines).kind = k /\ Answer(k, lines).lines = lines
    BY DEF Answer
  <2> QED BY <1>1, <2>1, <2>2, Zenon DEF Replies
<1>2. ASSUME NEW k \in HistoryKinds \cup {"login", "chats", "user", "group", "join", "create", "search"}
      PROVE  k \in Kinds /\ k \notin {"leave", "delete"}
  <2>1. k \in Kinds
    OBVIOUS
  <2>2. "leave" \notin HistoryKinds /\ "delete" \notin HistoryKinds
    BY DEF HistoryKinds
  <2>3. k = "leave" => FALSE
    BY <2>2, SMT
  <2>4. k = "delete" => FALSE
    BY <2>2, SMT
  <2> QED BY <2>1, <2>3, <2>4
<1>3. \A k \in {"leave", "delete"} : k \in Kinds
  OBVIOUS
<1> QED BY <1>1, <1>2, <1>3, Zenon

LEMMA CallbacksTyped ==
    ASSUME NEW lines \in Seq(ConvLine)
    PROVE  /\ \A r \in {"home", "results"} : Callback(r, lines) \in Callbacks
           /\ \A r \in {"update", "load", "remove"} :
                 lines # << >> => Callback(r, lines) \in Callbacks
BY SMT DEF Callback, Callbacks

\* A handler's callbacks: one per line, in their order.
LEMMA UpdatesTyped ==
    ASSUME NEW lines \in Seq(ConvLine)
    PROVE  /\ Updates(lines) \in Seq(Callbacks) /\ DOMAIN Updates(lines) = DOMAIN lines
           /\ \A i \in DOMAIN lines : /\ Updates(lines)[i].run = "update"
                                      /\ Updates(lines)[i].lines = <<lines[i]>>
                                      /\ Updates(lines)[i].lines[1] = lines[i]
<1>1. \A i \in DOMAIN lines : Callback("update", <<lines[i]>>) \in Callbacks
  <2> SUFFICES ASSUME NEW i \in DOMAIN lines PROVE Callback("update", <<lines[i]>>) \in Callbacks
    OBVIOUS
  <2>1. <<lines[i]>> \in Seq(ConvLine) /\ <<lines[i]>> # << >>
    BY SMT
  <2> QED BY <2>1, CallbacksTyped
<1>2. DOMAIN lines = 1 .. Len(lines) /\ Len(lines) \in Nat
  BY SMT
<1>3. Updates(lines) \in [1 .. Len(lines) -> Callbacks]
  BY <1>1, <1>2, Zenon DEF Updates
<1>4. Updates(lines) \in Seq(Callbacks)
  BY <1>2, <1>3, SMT
<1>5. \A i \in DOMAIN lines : Updates(lines)[i] = Callback("update", <<lines[i]>>)
  BY Zenon DEF Updates
<1>6. DOMAIN Updates(lines) = DOMAIN lines
  BY Zenon DEF Updates
<1> QED BY <1>4, <1>5, <1>6, SMT DEF Callback

LEMMA LoadTyped ==
    ASSUME NEW lines \in Seq(ConvLine)
    PROVE  LoadOf(lines) \in Seq(Callbacks)
<1>1. CASE lines = << >>
  BY <1>1, SMT DEF LoadOf
<1>2. CASE lines # << >>
  <2>1. Callback("load", lines) \in Callbacks
    BY <1>2, CallbacksTyped
  <2> QED BY <1>2, <2>1, SMT DEF LoadOf
<1> QED BY <1>1, <1>2

(***************************************************************************)
(* What the server answers.                                                *)
(***************************************************************************)

\* The list the server makes of a finite set has each element once.
LEMMA SetListed ==
    ASSUME NEW S, IsFiniteSet(S)
    PROVE  /\ Cardinality(S) \in Nat
           /\ SetToSeq(S) \in [1 .. Cardinality(S) -> S]
           /\ \A x \in S : \E i \in 1 .. Cardinality(S) : SetToSeq(S)[i] = x
<1> DEFINE n == Cardinality(S)
           f == SetToSeq(S)
<1>1. n \in Nat /\ ExistsBijection(1 .. n, S)
  BY FS_CardinalityType
<1>2. PICK g \in Bijection(1 .. n, S) : TRUE
  BY <1>1 DEF ExistsBijection
<1>3. g \in [1 .. n -> S] /\ IsInjective(g)
  BY DEF Bijection, Injection
<1>4. f \in [1 .. n -> S] /\ IsInjective(f)
  BY <1>3 DEF SetToSeq
<1> DEFINE R == {f[i] : i \in 1 .. n}
<1>5. f \in Bijection(1 .. n, R)
  BY <1>4 DEF Bijection, Injection, Surjection
<1>6. Cardinality(R) = n
  BY <1>1, <1>5, FS_CountingElements DEF ExistsBijection
<1>7. R \subseteq S
  BY <1>4
<1>8. R = S
  BY <1>6, <1>7, FS_Subset
<1> QED BY <1>1, <1>4, <1>8

LEMMA ChatsListed ==
    ASSUME HomeTypes
    PROVE  /\ IsFiniteSet(Chats) /\ Chats \subseteq Convs
           /\ \A c \in Chats : store[c] \in Seq(ConvLine) /\ store[c] # << >>
<1>1. IsFiniteSet(Groups) /\ IsFiniteSet(Peers)
  BY HomeAssumption
<1>2. IsFiniteSet(GroupConvs)
  <2>1. [g \in Groups |-> -g] \in Surjection(Groups, GroupConvs)
    BY DEF Surjection, GroupConvs
  <2> QED BY <1>1, <2>1, FS_Surjection
<1>3. Chats \subseteq Peers \cup GroupConvs
  BY DEF Chats, HomeTypes
<1>4. IsFiniteSet(Peers \cup GroupConvs)
  BY <1>1, <1>2, FS_Union
<1>5. IsFiniteSet(Chats)
  BY <1>3, <1>4, FS_Subset
<1>6. Chats \subseteq Convs
  BY <1>3, Signs
<1> QED BY <1>5, <1>6 DEF Chats, HomeTypes

\* Every conversation with a message is in the list of chats, once asked for.
LEMMA ChatsAnswered ==
    ASSUME HomeTypes, Histories,
           NEW r \in Requests, r.kind = "chats"
    PROVE  \E lines \in Seq(ConvLine) :
              /\ AnswersTo(r) = <<Answer("chats", lines)>>
              /\ \A c \in Chats : \E k \in DOMAIN lines : lines[k].conv = c
<1> DEFINE n == Cardinality(Chats)
           lines == [i \in 1 .. n |-> Last(store[SetToSeq(Chats)[i]])]
<1>1. /\ n \in Nat /\ SetToSeq(Chats) \in [1 .. n -> Chats]
      /\ \A c \in Chats : \E i \in 1 .. n : SetToSeq(Chats)[i] = c
  BY ChatsListed, SetListed
<1>2. \A c \in Chats : Last(store[c]) \in ConvLine /\ Last(store[c]).conv = c
  <2> SUFFICES ASSUME NEW c \in Chats
               PROVE  Last(store[c]) \in ConvLine /\ Last(store[c]).conv = c
    OBVIOUS
  <2>1. Len(store[c]) \in DOMAIN store[c] /\ store[c][Len(store[c])] \in ConvLine
    BY ChatsListed, NonEmptyHasFirst
  <2>2. store[c][Len(store[c])].conv = c
    BY <2>1, ChatsListed DEF Histories, AllOf
  <2> QED BY <2>1, <2>2 DEF Last
<1>3. lines \in [1 .. n -> ConvLine]
  BY <1>1, <1>2
<1>4. lines \in Seq(ConvLine)
  BY <1>1, <1>3, SMT
<1>5. AnswersTo(r) = <<Answer("chats", lines)>>
  BY SMT DEF AnswersTo
<1>6. \A c \in Chats : \E k \in DOMAIN lines : lines[k].conv = c
  BY <1>1, <1>2, <1>3, Zenon
<1> QED BY <1>4, <1>5, <1>6, Zenon

\* Which answer a request gets.
LEMMA AnswerCases ==
    ASSUME NEW r
    PROVE  /\ r.kind = "login" => AnswersTo(r) = <<Answer("login", << >>)>>
           /\ r.kind = "history" =>
                 AnswersTo(r) = <<Answer(IF r.line.conv > 0 THEN "users message"
                                         ELSE "groups message", store[r.line.conv])>>
           /\ r.kind \in {"leave", "delete"} /\ r.line.conv \in members =>
                 AnswersTo(r) = <<Answer(r.kind, <<Line(r.line.conv, 0, "me")>>)>>
           /\ r.kind \in {"join", "create"} /\ r.line.conv \notin members =>
                 AnswersTo(r) = <<Answer(r.kind, <<Line(r.line.conv, 0, "notice")>>)>>
           /\ r.kind = "search" => AnswersTo(r) = <<Answer("search", << >>)>>
           /\ (/\ r.kind \notin {"login", "chats", "history", "search"}
               /\ ~(r.kind \in {"leave", "delete"} /\ r.line.conv \in members)
               /\ ~(r.kind \in {"join", "create"} /\ r.line.conv \notin members))
                 => AnswersTo(r) = << >>
<1> DEFINE c == r.line.conv
           login == <<Answer("login", << >>)>>
           chats == <<Answer("chats", [i \in 1 .. Cardinality(Chats) |->
                                          Last(store[SetToSeq(Chats)[i]])])>>
           history == <<Answer(IF c > 0 THEN "users message" ELSE "groups message", store[c])>>
           leave == <<Answer(r.kind, <<Line(c, 0, "me")>>)>>
           join == <<Answer(r.kind, <<Line(c, 0, "notice")>>)>>
           search == <<Answer("search", << >>)>>
<1>1. AnswersTo(r) =
         CASE r.kind = "login" -> login
           [] r.kind = "chats" -> chats
           [] r.kind = "history" -> history
           [] r.kind \in {"leave", "delete"} /\ c \in members -> leave
           [] r.kind \in {"join", "create"} /\ c \notin members -> join
           [] r.kind = "search" -> search
           [] OTHER -> << >>
  BY Zenon DEF AnswersTo
<1> HIDE DEF c, login, chats, history, leave, join, search
<1>2. r.kind = "login" => AnswersTo(r) = login
  BY <1>1, SMT
<1>3. r.kind = "history" => AnswersTo(r) = history
  BY <1>1, SMT
<1>4. r.kind \in {"leave", "delete"} /\ c \in members => AnswersTo(r) = leave
  BY <1>1, SMT
<1>5. r.kind \in {"join", "create"} /\ c \notin members => AnswersTo(r) = join
  BY <1>1, SMT
<1>6. r.kind = "search" => AnswersTo(r) = search
  BY <1>1, SMT
<1>7. (/\ r.kind \notin {"login", "chats", "history", "search"}
       /\ ~(r.kind \in {"leave", "delete"} /\ c \in members)
       /\ ~(r.kind \in {"join", "create"} /\ c \notin members))
         => AnswersTo(r) = << >>
  BY <1>1, SMT
<1> USE DEF c, login, history, leave, join, search
<1> QED BY <1>2, <1>3, <1>4, <1>5, <1>6, <1>7, Zenon

\* A departure or an arrival is not a history.
LEMMA KindsApart ==
    /\ \A k \in {"leave", "delete"} : k \notin HistoryKinds /\ k # "login"
    /\ \A k \in {"join", "create"} : k \notin HistoryKinds \cup {"login", "leave", "delete"}
<1>1. "leave" \notin HistoryKinds /\ "delete" \notin HistoryKinds
  BY DEF HistoryKinds
<1>2. "leave" # "login" /\ "delete" # "login"
  OBVIOUS
<1>3. "join" \notin HistoryKinds \cup {"login", "leave", "delete"}
  BY DEF HistoryKinds
<1>4. "create" \notin HistoryKinds \cup {"login", "leave", "delete"}
  BY DEF HistoryKinds
<1> QED BY <1>1, <1>2, <1>3, <1>4, Zenon

\* At most one answer, of these kinds.
LEMMA AnswersAre ==
    ASSUME HomeTypes, Histories, NEW r \in Requests
    PROVE  \/ AnswersTo(r) = << >>
           \/ \E a \in Replies :
                 /\ AnswersTo(r) = <<a>>
                 /\ a.kind = "login" => r.kind = "login"
                 /\ a.kind \in HistoryKinds =>
                       r.kind = "history" /\ a.lines = store[r.line.conv]
                 /\ a.kind \in {"leave", "delete"} =>
                       /\ r.kind = a.kind /\ r.line.conv \in members
                       /\ a.lines[1].conv = r.line.conv /\ a.lines[1].from = "me"
<1> DEFINE c == r.line.conv
           Fits(a) ==
              /\ a.kind = "login" => r.kind = "login"
              /\ a.kind \in HistoryKinds =>
                    r.kind = "history" /\ a.lines = store[r.line.conv]
              /\ a.kind \in {"leave", "delete"} =>
                    /\ r.kind = a.kind /\ r.line.conv \in members
                    /\ a.lines[1].conv = r.line.conv /\ a.lines[1].from = "me"
<1> SUFFICES AnswersTo(r) = << >> \/ \E a \in Replies : AnswersTo(r) = <<a>> /\ Fits(a)
  BY Zenon
<1>0. << >> \in Seq(ConvLine)
  OBVIOUS
<1>9. \A a : a.kind \notin HistoryKinds \cup {"login", "leave", "delete"} => Fits(a)
  BY Zenon
<1>1. CASE r.kind = "login"
  <2>1. AnswersTo(r) = <<Answer("login", << >>)>>
    BY <1>1, AnswerCases, Zenon
  <2>2. Answer("login", << >>) \in Replies /\ Answer("login", << >>).kind = "login"
    BY <1>0, RepliesTyped, Zenon DEF Answer
  <2>3. "login" \notin HistoryKinds \cup {"leave", "delete"}
    BY SMT DEF HistoryKinds
  <2>4. Fits(Answer("login", << >>))
    BY <1>1, <2>2, <2>3, Zenon
  <2> QED BY <2>1, <2>2, <2>4, Zenon
<1>2. CASE r.kind = "chats"
  <2>1. PICK lines \in Seq(ConvLine) : AnswersTo(r) = <<Answer("chats", lines)>>
    BY <1>2, ChatsAnswered
  <2>2. Answer("chats", lines) \in Replies /\ Answer("chats", lines).kind = "chats"
    BY RepliesTyped, Zenon DEF Answer
  <2>3. "chats" \notin HistoryKinds \cup {"login", "leave", "delete"}
    BY SMT DEF HistoryKinds
  <2>4. Fits(Answer("chats", lines))
    BY <1>9, <2>2, <2>3, Zenon
  <2> QED BY <2>1, <2>2, <2>4, Zenon
<1>3. CASE r.kind = "history"
  <2> DEFINE k == IF c > 0 THEN "users message" ELSE "groups message"
  <2>1. AnswersTo(r) = <<Answer(k, store[c])>>
    BY <1>3, AnswerCases, Zenon
  <2>2. c \in Convs /\ store[c] \in Seq(ConvLine)
    BY <1>3 DEF Requests, OnConv, HomeTypes
  <2>3. k \in HistoryKinds /\ k \notin {"login", "leave", "delete"}
    BY DEF HistoryKinds
  <2>4. Answer(k, store[c]) \in Replies
    BY <2>2, <2>3, RepliesTyped
  <2>5. Answer(k, store[c]).kind = k /\ Answer(k, store[c]).lines = store[c]
    BY DEF Answer
  <2> HIDE DEF k
  <2>6. Fits(Answer(k, store[c]))
    BY <1>3, <2>3, <2>5, SMT
  <2> QED BY <2>1, <2>4, <2>6, Zenon
<1>4. CASE r.kind \in {"leave", "delete"} /\ c \in members
  <2>1. AnswersTo(r) = <<Answer(r.kind, <<Line(c, 0, "me")>>)>>
    BY <1>4, AnswerCases, Zenon
  <2>2. c \in Convs
    BY <1>4, Signs DEF HomeTypes
  <2>3. /\ <<Line(c, 0, "me")>> \in Seq(ConvLine) /\ <<Line(c, 0, "me")>> # << >>
        /\ Line(c, 0, "me").conv = c /\ Line(c, 0, "me").from = "me"
    BY <2>2, LinesTyped, SMT
  <2>4. Answer(r.kind, <<Line(c, 0, "me")>>) \in Replies
    BY <1>4, <2>3, RepliesTyped
  <2>5. r.kind \notin HistoryKinds /\ r.kind # "login"
    BY <1>4, KindsApart
  <2>6. /\ Answer(r.kind, <<Line(c, 0, "me")>>).kind = r.kind
        /\ Answer(r.kind, <<Line(c, 0, "me")>>).lines[1] = Line(c, 0, "me")
    BY SMT DEF Answer
  <2>7. Fits(Answer(r.kind, <<Line(c, 0, "me")>>))
    BY <1>4, <2>3, <2>5, <2>6, Zenon
  <2> QED BY <2>1, <2>4, <2>7, Zenon
<1>5. CASE r.kind \in {"join", "create"} /\ c \notin members
  <2>1. AnswersTo(r) = <<Answer(r.kind, <<Line(c, 0, "notice")>>)>>
    BY <1>5, AnswerCases, Zenon
  <2>2. c \in Convs
    BY <1>5 DEF Requests, OnConv
  <2>3. <<Line(c, 0, "notice")>> \in Seq(ConvLine)
    BY <2>2, LinesTyped, SMT
  <2>4. Answer(r.kind, <<Line(c, 0, "notice")>>) \in Replies
    BY <1>5, <2>3, RepliesTyped
  <2>5. Answer(r.kind, <<Line(c, 0, "notice")>>).kind = r.kind
    BY DEF Answer
  <2>6. r.kind \notin HistoryKinds \cup {"login", "leave", "delete"}
    BY <1>5, KindsApart
  <2>7. Fits(Answer(r.kind, <<Line(c, 0, "notice")>>))
    BY <1>9, <2>5, <2>6, Zenon
  <2> QED BY <2>1, <2>4, <2>7, Zenon
<1>6. CASE r.kind = "search"
  <2>1. AnswersTo(r) = <<Answer("search", << >>)>>
    BY <1>6, AnswerCases, Zenon
  <2>2. Answer("search", << >>) \in Replies /\ Answer("search", << >>).kind = "search"
    BY <1>0, RepliesTyped, Zenon DEF Answer
  <2>3. "search" \notin HistoryKinds \cup {"login", "leave", "delete"}
    BY SMT DEF HistoryKinds
  <2>4. Fits(Answer("search", << >>))
    BY <1>9, <2>2, <2>3, Zenon
  <2> QED BY <2>1, <2>2, <2>4, Zenon
<1>7. CASE /\ r.kind \notin {"login", "chats", "history", "search"}
           /\ ~(r.kind \in {"leave", "delete"} /\ c \in members)
           /\ ~(r.kind \in {"join", "create"} /\ c \notin members)
  BY <1>7, AnswerCases, Zenon
<1> QED BY <1>1, <1>2, <1>3, <1>4, <1>5, <1>6, <1>7

(***************************************************************************)
(* The contacts and their map.                                             *)
(***************************************************************************)

LEMMA RemovedAt ==
    ASSUME NEW S, NEW s \in Seq(S), NEW k \in 1 .. Len(s)
    PROVE  LET t == SubSeq(s, 1, k - 1) \o SubSeq(s, k + 1, Len(s))
           IN  /\ t \in Seq(S) /\ DOMAIN t = 1 .. Len(s) - 1
               /\ \A j \in 1 .. Len(s) - 1 : t[j] = IF j < k THEN s[j] ELSE s[j + 1]
<1> DEFINE a == SubSeq(s, 1, k - 1)
           b == SubSeq(s, k + 1, Len(s))
           n == Len(s)
<1>1. n \in Nat /\ k \in Nat /\ k >= 1 /\ k <= n
  BY SMT
<1>2. \A i \in 1 .. n : s[i] \in S
  BY SMT
<1>3. a \in Seq(S) /\ Len(a) = k - 1 /\ \A j \in 1 .. k - 1 : a[j] = s[j]
  <2> HIDE DEF n
  <2>1. \A i \in 1 .. k - 1 : s[i] \in S
    BY <1>1, <1>2, SMT
  <2>2. /\ a \in Seq(S) /\ Len(a) = IF 1 <= k - 1 THEN (k - 1) - 1 + 1 ELSE 0
        /\ \A i \in 1 .. (k - 1) - 1 + 1 : a[i] = s[1 + i - 1]
    BY <1>1, <2>1, SubSeqProperties, SMT
  <2> HIDE DEF a
  <2> QED BY <1>1, <2>2, SMT
<1>4. b \in Seq(S) /\ Len(b) = n - k /\ \A j \in 1 .. n - k : b[j] = s[k + j]
  <2>0. b = SubSeq(s, k + 1, n)
    OBVIOUS
  <2> HIDE DEF n, b
  <2>1. \A i \in k + 1 .. n : s[i] \in S
    BY <1>1, <1>2, SMT
  <2>2. /\ b \in Seq(S) /\ Len(b) = IF k + 1 <= n THEN n - (k + 1) + 1 ELSE 0
        /\ \A i \in 1 .. n - (k + 1) + 1 : b[i] = s[(k + 1) + i - 1]
    BY <1>1, <2>0, <2>1, SubSeqProperties, SMT
  <2> QED BY <1>1, <2>2, SMT
<1> HIDE DEF a, b, n
<1>12. /\ a \o b \in Seq(S) /\ Len(a \o b) = Len(a) + Len(b)
       /\ \A i \in 1 .. Len(a) + Len(b) : (a \o b)[i] =
                     IF i <= Len(a) THEN a[i] ELSE b[i - Len(a)]
  BY <1>3, <1>4, ConcatProperties
<1>13. Len(a) + Len(b) = n - 1 /\ Len(a) = k - 1
  BY <1>1, <1>3, <1>4, SMT
<1>14. \A i \in 1 .. n - 1 : (a \o b)[i] = IF i <= k - 1 THEN a[i] ELSE b[i - (k - 1)]
  BY <1>12, <1>13, Zenon
<1>5. a \o b \in Seq(S) /\ Len(a \o b) = n - 1
  BY <1>12, <1>13
<1>10. ASSUME NEW j \in 1 .. n - 1
       PROVE  (a \o b)[j] = IF j < k THEN s[j] ELSE s[j + 1]
  <2>1. CASE j < k
    <3>1. j <= k - 1 /\ j \in 1 .. k - 1
      BY <1>1, <2>1, SMT
    <3>2. (a \o b)[j] = a[j]
      BY <1>14, <3>1
    <3> QED BY <1>3, <2>1, <3>1, <3>2
  <2>2. CASE ~(j < k)
    <3>1. ~(j <= k - 1) /\ j - (k - 1) \in 1 .. n - k /\ k + (j - (k - 1)) = j + 1
      BY <1>1, <2>2, SMT
    <3>2. (a \o b)[j] = b[j - (k - 1)]
      BY <1>14, <3>1
    <3>3. b[j - (k - 1)] = s[k + (j - (k - 1))]
      BY <1>4, <3>1, Zenon
    <3>4. b[j - (k - 1)] = s[j + 1]
      BY <3>1, <3>3, Zenon
    <3> QED BY <2>2, <3>2, <3>4
  <2> QED BY <2>1, <2>2
<1>11. DOMAIN (a \o b) = 1 .. n - 1
  BY <1>1, <1>5, SMT
<1> USE DEF a, b, n
<1> QED BY <1>5, <1>10, <1>11, Zenon

\* Of a list without repetitions, removing an element leaves the others.
LEMMA RemoveFirstLeaves ==
    ASSUME NEW S, NEW s \in Seq(S), NEW e,
           \A i, j \in DOMAIN s : s[i] = s[j] => i = j
    PROVE  /\ RemoveFirst(s, e) \in Seq(S)
           /\ ToSet(RemoveFirst(s, e)) = ToSet(s) \ {e}
           /\ \A i, j \in DOMAIN RemoveFirst(s, e) :
                 RemoveFirst(s, e)[i] = RemoveFirst(s, e)[j] => i = j
<1>0. DOMAIN s = 1 .. Len(s) /\ Len(s) \in Nat
  BY SMT
<1>1. CASE ~ \E i \in 1 .. Len(s) : s[i] = e
  <2>1. RemoveFirst(s, e) = s
    BY <1>1 DEF RemoveFirst
  <2>2. e \notin ToSet(s)
    BY <1>0, <1>1, Zenon DEF ToSet
  <2> QED BY <2>1, <2>2, Zenon
<1>2. ASSUME NEW k \in 1 .. Len(s), s[k] = e
      PROVE  /\ RemoveFirst(s, e) \in Seq(S)
             /\ ToSet(RemoveFirst(s, e)) = ToSet(s) \ {e}
             /\ \A i, j \in DOMAIN RemoveFirst(s, e) :
                   RemoveFirst(s, e)[i] = RemoveFirst(s, e)[j] => i = j
  <2> DEFINE I == {i \in 1 .. Len(s) : s[i] = e}
             t == SubSeq(s, 1, k - 1) \o SubSeq(s, k + 1, Len(s))
  <2>1. I = {k}
    BY <1>0, <1>2
  <2>2. (CHOOSE x \in {k} : \A y \in {k} : x <= y) = k
    OBVIOUS
  <2>3. SelectInSeq(s, LAMBDA v : v = e) = k
    BY <2>1, <2>2, Zenon DEF SelectInSeq, Min
  <2>4. RemoveFirst(s, e) = t
    BY <1>2, <2>3, Zenon DEF RemoveFirst, RemoveAt
  <2>5. t \in Seq(S) /\ DOMAIN t = 1 .. Len(s) - 1
    BY RemovedAt
  <2>6. \A j \in 1 .. Len(s) - 1 : t[j] = IF j < k THEN s[j] ELSE s[j + 1]
    BY RemovedAt
  <2> HIDE DEF t
  <2>7. /\ \A j \in DOMAIN t : j \in Nat /\ j >= 1 /\ j <= Len(s) - 1
        /\ \A j \in DOMAIN t : j < k => j \in DOMAIN s /\ t[j] = s[j]
        /\ \A j \in DOMAIN t : j >= k => j + 1 \in DOMAIN s /\ t[j] = s[j + 1]
    BY <1>0, <2>5, <2>6, SMT
  <2>8. \A i, j \in DOMAIN t : t[i] = t[j] => i = j
    BY <1>0, <2>7, SMT
  <2>9. ASSUME NEW x \in ToSet(t) PROVE x \in ToSet(s) \ {e}
    <3>1. PICK j \in DOMAIN t : t[j] = x
      BY <2>9 DEF ToSet
    <3>2. PICK m \in DOMAIN s : m # k /\ s[m] = x
      <4>1. CASE j < k
        BY <1>0, <2>7, <3>1, <4>1, SMT
      <4>2. CASE j >= k
        BY <1>0, <2>7, <3>1, <4>2, SMT
      <4> QED BY <2>7, <3>1, <4>1, <4>2, SMT
    <3> QED BY <1>0, <1>2, <3>2, Zenon DEF ToSet
  <2>10. ASSUME NEW x \in ToSet(s) \ {e} PROVE x \in ToSet(t)
    <3>1. PICK m \in DOMAIN s : s[m] = x /\ m # k
      BY <1>2, <2>10 DEF ToSet
    <3>2. CASE m < k
      <4>1. m \in DOMAIN t /\ t[m] = x
        BY <1>0, <2>5, <2>6, <3>1, <3>2, SMT
      <4> QED BY <4>1 DEF ToSet
    <3>3. CASE m > k
      <4>1. m - 1 \in DOMAIN t /\ t[m - 1] = x
        BY <1>0, <2>5, <2>6, <3>1, <3>3, SMT
      <4> QED BY <4>1 DEF ToSet
    <3> QED BY <1>0, <3>1, <3>2, <3>3, SMT
  <2> QED BY <2>4, <2>5, <2>8, <2>9, <2>10, Zenon
<1> QED BY <1>1, <1>2, Zenon

\* A list with one more element in front, or behind.
LEMMA PutInFront ==
    ASSUME NEW S, NEW s \in Seq(S), NEW e \in S, e \notin ToSet(s),
           \A i, j \in DOMAIN s : s[i] = s[j] => i = j
    PROVE  /\ <<e>> \o s \in Seq(S) /\ ToSet(<<e>> \o s) = ToSet(s) \cup {e}
           /\ \A i, j \in DOMAIN (<<e>> \o s) : (<<e>> \o s)[i] = (<<e>> \o s)[j] => i = j
<1> DEFINE t == <<e>> \o s
<1>1. /\ t \in Seq(S) /\ DOMAIN t = 1 .. Len(s) + 1 /\ DOMAIN s = 1 .. Len(s) /\ Len(s) \in Nat
      /\ t[1] = e /\ \A i \in 2 .. Len(s) + 1 : t[i] = s[i - 1]
  BY SMT
<1> HIDE DEF t
<1>2. \A i \in DOMAIN s : s[i] # e /\ i + 1 \in DOMAIN t /\ t[i + 1] = s[i]
  BY <1>1, SMT DEF ToSet
<1>3. \A i \in DOMAIN t : i = 1 \/ (i - 1 \in DOMAIN s /\ t[i] = s[i - 1])
  BY <1>1, SMT
<1>4. \A i, j \in DOMAIN t : t[i] = t[j] => i = j
  BY <1>1, <1>2, <1>3, SMT
<1>5. 1 \in DOMAIN t
  BY <1>1, SMT
<1>6. ToSet(t) = ToSet(s) \cup {e}
  <2>1. ASSUME NEW x \in ToSet(t) PROVE x \in ToSet(s) \cup {e}
    <3>1. PICK i \in DOMAIN t : t[i] = x
      BY DEF ToSet
    <3>2. x = e \/ \E k \in DOMAIN s : s[k] = x
      BY <1>1, <1>3, <3>1, Zenon
    <3> QED BY <3>2 DEF ToSet
  <2>2. \A x \in ToSet(s) : x \in ToSet(t)
    BY <1>2, Zenon DEF ToSet
  <2>3. e \in ToSet(t)
    BY <1>1, <1>5, Zenon DEF ToSet
  <2> QED BY <2>1, <2>2, <2>3
<1> QED BY <1>1, <1>4, <1>6 DEF t

LEMMA PutBehind ==
    ASSUME NEW S, NEW s \in Seq(S), NEW e \in S, e \notin ToSet(s),
           \A i, j \in DOMAIN s : s[i] = s[j] => i = j
    PROVE  /\ Append(s, e) \in Seq(S) /\ ToSet(Append(s, e)) = ToSet(s) \cup {e}
           /\ \A i, j \in DOMAIN Append(s, e) : Append(s, e)[i] = Append(s, e)[j] => i = j
<1> DEFINE t == Append(s, e)
<1>1. /\ t \in Seq(S) /\ DOMAIN t = 1 .. Len(s) + 1 /\ DOMAIN s = 1 .. Len(s) /\ Len(s) \in Nat
      /\ t[Len(s) + 1] = e /\ \A i \in 1 .. Len(s) : t[i] = s[i]
  BY SMT
<1> HIDE DEF t
<1>2. \A i \in DOMAIN s : s[i] # e /\ i \in DOMAIN t /\ t[i] = s[i]
  BY <1>1, SMT DEF ToSet
<1>3. \A i \in DOMAIN t : i = Len(s) + 1 \/ (i \in DOMAIN s /\ t[i] = s[i])
  BY <1>1, SMT
<1>4. \A i, j \in DOMAIN t : t[i] = t[j] => i = j
  BY <1>1, <1>2, <1>3, SMT
<1>5. Len(s) + 1 \in DOMAIN t
  BY <1>1, SMT
<1>6. ToSet(t) = ToSet(s) \cup {e}
  <2>1. ASSUME NEW x \in ToSet(t) PROVE x \in ToSet(s) \cup {e}
    <3>1. PICK i \in DOMAIN t : t[i] = x
      BY DEF ToSet
    <3>2. x = e \/ \E k \in DOMAIN s : s[k] = x
      BY <1>1, <1>3, <3>1, Zenon
    <3> QED BY <3>2 DEF ToSet
  <2>2. \A x \in ToSet(s) : x \in ToSet(t)
    BY <1>2, Zenon DEF ToSet
  <2>3. e \in ToSet(t)
    BY <1>1, <1>5, Zenon DEF ToSet
  <2> QED BY <2>1, <2>2, <2>3
<1> QED BY <1>1, <1>4, <1>6 DEF t

\* An updated contact is in the map, and listed once.
LEMMA ContactUpdated ==
    ASSUME HomeTypes, BoxIsMap, NEW line \in ConvLine, UpdateContact(line)
    PROVE  /\ box' \in Seq(Convs) /\ map' \subseteq Convs /\ preview' \in [Convs -> LineType]
           /\ map' = map \cup {line.conv}
           /\ BoxIsMap'
<1> DEFINE c == line.conv
<1>1. c \in Convs /\ line \in LineType
  BY LinesTyped DEF ConvLine
<1>2. box \in Seq(Convs) /\ map \subseteq Convs /\ preview \in [Convs -> LineType]
  BY DEF HomeTypes
<1>3. preview' \in [Convs -> LineType]
  BY <1>1, <1>2, Zenon DEF UpdateContact
<1>4. ToSet(box) = map /\ \A i, j \in DOMAIN box : box[i] = box[j] => i = j
  BY DEF BoxIsMap
<1>5. CASE c \in map
  <2> DEFINE t == RemoveFirst(box, c)
  <2>1. /\ t \in Seq(Convs) /\ ToSet(t) = map \ {c}
        /\ \A i, j \in DOMAIN t : t[i] = t[j] => i = j
    BY <1>2, <1>4, RemoveFirstLeaves
  <2>2. box' = <<c>> \o t /\ map' = map
    BY <1>5 DEF UpdateContact
  <2> HIDE DEF t
  <2>3. /\ <<c>> \o t \in Seq(Convs) /\ ToSet(<<c>> \o t) = (map \ {c}) \cup {c}
        /\ \A i, j \in DOMAIN (<<c>> \o t) : (<<c>> \o t)[i] = (<<c>> \o t)[j] => i = j
    BY <1>1, <2>1, PutInFront
  <2>4. (map \ {c}) \cup {c} = map
    BY <1>5
  <2>5. BoxIsMap'
    BY <2>2, <2>3, <2>4 DEF BoxIsMap
  <2> QED BY <1>2, <1>3, <1>5, <2>2, <2>3, <2>5
<1>6. CASE c \notin map
  <2>1. box' = Append(box, c) /\ map' = map \cup {c}
    BY <1>6 DEF UpdateContact
  <2>2. /\ Append(box, c) \in Seq(Convs) /\ ToSet(Append(box, c)) = map \cup {c}
        /\ \A i, j \in DOMAIN Append(box, c) : Append(box, c)[i] = Append(box, c)[j] => i = j
    BY <1>1, <1>2, <1>4, <1>6, PutBehind
  <2>3. BoxIsMap'
    BY <2>1, <2>2 DEF BoxIsMap
  <2> QED BY <1>1, <1>2, <1>3, <2>1, <2>2, <2>3
<1> QED BY <1>5, <1>6

(***************************************************************************)
(* Types.                                                                  *)
(***************************************************************************)

LEMMA HomeTypesInit == ASSUME Init PROVE HomeTypes
<1>1. Request("login", 0) \in Requests
  BY RequestsTyped
<1>2. <<Request("login", 0)>> \in Seq(Requests)
  BY <1>1, SMT
<1>3. members \subseteq GroupConvs
  BY DEF Init, GroupConvs
<1>4. preview \in [Convs -> LineType] /\ store \in [Convs -> Seq(ConvLine)]
  BY LinesTyped, SMT DEF Init
<1>5. requests \in Seq(Requests)
  BY <1>2 DEF Init
<1>6. /\ box \in Seq(Convs) /\ view \in Seq(ConvLine)
      /\ toClient \in Seq(Replies) /\ idle \in Seq(Callbacks)
  BY SMT DEF Init
<1>7. map \subseteq Convs /\ results \subseteq Peers /\ nmsg \in Nat /\ gestures \in Nat /\ logins \in Nat
  BY DEF Init
<1> QED BY <1>3, <1>4, <1>5, <1>6, <1>7 DEF Init, HomeTypes

\* What the collector has in hands.
LEMMA LinesAre ==
    ASSUME HomeTypes, toClient # << >>
    PROVE  /\ Head(toClient) \in Replies /\ Lines \in Seq(ConvLine)
           /\ Head(toClient).kind \in {"leave", "delete"} =>
                 /\ Lines # << >> /\ 1 \in DOMAIN Lines
                 /\ Lines[1] \in ConvLine
<1>1. toClient \in Seq(Replies)
  BY DEF HomeTypes
<1>2. Head(toClient) \in Replies
  BY <1>1, TailPlaces
<1>3. /\ Lines \in Seq(ConvLine)
      /\ Head(toClient).kind \in {"leave", "delete"} => Lines # << >>
  BY <1>2 DEF Lines, Replies
<1>4. Lines # << >> => 1 \in DOMAIN Lines /\ Lines[1] \in ConvLine
  BY <1>3, NonEmptyHasFirst
<1> QED BY <1>2, <1>3, <1>4

\* What the main loop runs next.
LEMMA CallbackIs ==
    ASSUME HomeTypes, idle # << >>
    PROVE  /\ Head(idle) \in Callbacks /\ Head(idle) = idle[1] /\ 1 \in DOMAIN idle
           /\ Head(idle).lines \in Seq(ConvLine)
           /\ Head(idle).run \in {"update", "load", "remove"} =>
                 /\ Head(idle).lines # << >> /\ 1 \in DOMAIN Head(idle).lines
                 /\ Head(idle).lines[1] \in ConvLine
                 /\ Head(idle).lines[1].conv \in Convs
           /\ Tail(idle) \in Seq(Callbacks)
<1>1. idle \in Seq(Callbacks)
  BY DEF HomeTypes
<1>2. Head(idle) \in Callbacks /\ Head(idle) = idle[1] /\ 1 \in DOMAIN idle
      /\ Tail(idle) \in Seq(Callbacks)
  BY <1>1, TailPlaces
<1>3. /\ Head(idle).lines \in Seq(ConvLine)
      /\ Head(idle).run \in {"update", "load", "remove"} => Head(idle).lines # << >>
  BY <1>2 DEF Callbacks
<1>4. \A l \in ConvLine : l.conv \in Convs
  BY DEF ConvLine
<1> QED BY <1>2, <1>3, <1>4, NonEmptyHasFirst

\* A handler keeps the types if its callbacks have them.
LEMMA HandleTyped ==
    ASSUME HomeTypes, NEW kind, NEW callbacks \in Seq(Callbacks), Handle(kind, callbacks)
    PROVE  HomeTypes'
<1>1. toClient \in Seq(Replies) /\ idle \in Seq(Callbacks)
  BY DEF HomeTypes
<1>2. toClient' \in Seq(Replies)
  BY <1>1, TailPlaces DEF Handle
<1>3. idle' \in Seq(Callbacks)
  BY <1>1, ConcatTyped DEF Handle
<1> QED BY <1>2, <1>3 DEF HomeTypes, Handle, uiVars, srvVars, countVars

\* So do the handlers.
LEMMA CollectorTyped ==
    ASSUME HomeTypes, CollectorNext PROVE HomeTypes'
<1>20. << >> \in Seq(ConvLine)
  OBVIOUS
<1>0. toClient # << >>
  BY DEF CollectorNext, HandleLogin, HandleChats, HandleUserMessage, HandleGroupMessage,
         HandleJoin, HandleCreate, HandleDelete, HandleSearch, HandleLeave,
         HandleUserHistory, HandleGroupHistory, Handle
<1>1. Lines \in Seq(ConvLine) /\ Updates(Lines) \in Seq(Callbacks) /\ LoadOf(Lines) \in Seq(Callbacks)
  BY <1>0, LinesAre, UpdatesTyped, LoadTyped
<1>2. \A b \in Callbacks : <<b>> \in Seq(Callbacks)
  BY SMT
<1>3. Callback("home", << >>) \in Callbacks /\ Callback("results", << >>) \in Callbacks
  BY <1>20, CallbacksTyped
<1>4. Lines # << >> => Callback("remove", Lines) \in Callbacks
  BY <1>1, CallbacksTyped
<1>5. Head(toClient).kind \in {"leave", "delete"} => Lines # << >>
  BY <1>0, LinesAre
<1>6. CASE HandleLogin
  BY <1>2, <1>3, <1>6, HandleTyped DEF HandleLogin
<1>7. CASE HandleSearch
  BY <1>2, <1>3, <1>7, HandleTyped DEF HandleSearch
<1>8. CASE HandleDelete
  <2>1. Head(toClient).kind = "delete"
    BY <1>8 DEF HandleDelete, Handle
  <2> QED BY <1>2, <1>4, <1>5, <1>8, <2>1, HandleTyped DEF HandleDelete
<1>9. CASE HandleLeave
  <2>1. Head(toClient).kind = "leave"
    BY <1>9 DEF HandleLeave, Handle
  <2>2. (IF Lines[1].from = "me" THEN <<Callback("remove", Lines)>> ELSE Updates(Lines))
           \in Seq(Callbacks)
    BY <1>1, <1>2, <1>4, <1>5, <2>1
  <2> QED BY <1>9, <2>2, HandleTyped DEF HandleLeave
<1>10. CASE HandleUserHistory \/ HandleGroupHistory
  BY <1>1, <1>10, HandleTyped DEF HandleUserHistory, HandleGroupHistory
<1>11. CASE HandleChats \/ HandleUserMessage \/ HandleGroupMessage \/ HandleJoin \/ HandleCreate
  <2>1. \A k : Handle(k, Updates(Lines)) => HomeTypes'
    BY <1>1, HandleTyped
  <2> QED BY <1>11, <2>1, Zenon
     DEF HandleChats, HandleUserMessage, HandleGroupMessage, HandleJoin, HandleCreate
<1> QED BY <1>6, <1>7, <1>8, <1>9, <1>10, <1>11 DEF CollectorNext

\* A click asks for at most one history.
LEMMA ClickTyped ==
    ASSUME requests \in Seq(Requests), selected \in Convs \cup {0},
           NEW c \in Convs, NEW q \in Seq(Requests), Click(c, q)
    PROVE  /\ requests' \in Seq(Requests) /\ selected' \in Convs \cup {0}
           /\ clickDisabled' \in BOOLEAN
<1>1. GetHistoryMessage(c) \in Requests
  BY RequestsTyped
<1>2. <<GetHistoryMessage(c)>> \in Seq(Requests)
  BY <1>1, SMT
<1>3. requests \o q \in Seq(Requests) /\ (requests \o q) \o <<GetHistoryMessage(c)>> \in Seq(Requests)
  BY <1>2, ConcatTyped
<1> QED BY <1>3 DEF Click

\* The user's gestures keep the types, and each contact listed once.
LEMMA UserTyped ==
    ASSUME HomeTypes, BoxIsMap, UserNext
    PROVE  HomeTypes' /\ BoxIsMap'
<1> USE DEF uiVars, srvVars, countVars
<1>0. /\ requests \in Seq(Requests) /\ selected \in Convs \cup {0} /\ gestures \in Nat
      /\ view \in Seq(ConvLine) /\ logins \in Nat
  BY DEF HomeTypes
<1>1. ASSUME NEW c \in Convs, ClickContact(c) PROVE HomeTypes' /\ BoxIsMap'
  <2>1. << >> \in Seq(Requests) /\ Click(c, << >>)
    BY <1>1 DEF ClickContact
  <2>2. /\ requests' \in Seq(Requests) /\ selected' \in Convs \cup {0}
        /\ clickDisabled' \in BOOLEAN
    BY <1>0, <2>1, ClickTyped
  <2>3. gestures' \in Nat
    BY <1>0, <1>1, SMT DEF ClickContact, Gesture
  <2> QED BY <1>1, <2>2, <2>3 DEF HomeTypes, BoxIsMap, ClickContact, Gesture
<1>2. ASSUME NEW p \in Peers, ClickSearchItem(p) PROVE HomeTypes' /\ BoxIsMap'
  <2>1. SearchUsers \in Requests /\ p \in Convs
    BY RequestsTyped, Signs
  <2>2. << >> \in Seq(Requests) /\ <<SearchUsers>> \in Seq(Requests)
    BY <2>1, SMT
  <2>3. PICK q \in {<< >>, <<SearchUsers>>} : Click(p, q)
    BY <1>2 DEF ClickSearchItem
  <2>4. /\ requests' \in Seq(Requests) /\ selected' \in Convs \cup {0}
        /\ clickDisabled' \in BOOLEAN
    BY <1>0, <2>1, <2>2, <2>3, ClickTyped
  <2>5. gestures' \in Nat /\ results' \subseteq Peers
    BY <1>0, <1>2, SMT DEF ClickSearchItem, Gesture
  <2>6. box \in Seq(Convs) /\ map \subseteq Convs /\ ToSet(box) = map
        /\ \A i, j \in DOMAIN box : box[i] = box[j] => i = j
    BY DEF HomeTypes, BoxIsMap
  <2>7. box' \in Seq(Convs) /\ map' \subseteq Convs /\ BoxIsMap'
    <3>1. CASE p \in map
      BY <1>2, <2>6, <3>1 DEF ClickSearchItem, BoxIsMap
    <3>2. CASE p \notin map
      <4>1. /\ <<p>> \o box \in Seq(Convs) /\ ToSet(<<p>> \o box) = map \cup {p}
            /\ \A i, j \in DOMAIN (<<p>> \o box) :
                  (<<p>> \o box)[i] = (<<p>> \o box)[j] => i = j
        BY <2>1, <2>6, <3>2, PutInFront
      <4>2. box' = <<p>> \o box /\ map' = map \cup {p}
        BY <1>2, <3>2 DEF ClickSearchItem
      <4> QED BY <2>1, <2>6, <4>1, <4>2 DEF BoxIsMap
    <3> QED BY <3>1, <3>2
  <2> QED BY <1>2, <2>4, <2>5, <2>7 DEF HomeTypes, ClickSearchItem
<1>3. CASE TypeSearch
  <2>1. requests' \in Seq(Requests)
    BY <1>0, <1>3, RequestsTyped, AppendTyped DEF TypeSearch
  <2>2. gestures' \in Nat
    BY <1>0, <1>3, SMT DEF TypeSearch, Gesture
  <2> QED BY <1>3, <2>1, <2>2 DEF HomeTypes, BoxIsMap, TypeSearch
<1>4. CASE Send
  <2> DEFINE line == Line(selected, gestures', "me")
  <2>1. gestures' \in Nat /\ selected \in Convs
    BY <1>0, <1>4, SMT DEF Send, Gesture
  <2>2. line \in ConvLine
    BY <2>1, LinesTyped
  <2>3. /\ view' = Append(view, line) /\ UpdateContact(line)
        /\ requests' = Append(requests, SendMessage(line))
    BY <1>4 DEF Send
  <2> HIDE DEF line
  <2>4. view' \in Seq(ConvLine) /\ requests' \in Seq(Requests)
    BY <1>0, <2>2, <2>3, RequestsTyped, AppendTyped
  <2>5. /\ box' \in Seq(Convs) /\ map' \subseteq Convs /\ preview' \in [Convs -> LineType]
        /\ BoxIsMap'
    BY <2>2, <2>3, ContactUpdated
  <2> QED BY <1>4, <2>1, <2>4, <2>5 DEF HomeTypes, Send
<1>5. CASE LeaveGroup
  <2>1. selected \in Convs
    BY <1>0, <1>5, SMT DEF LeaveGroup
  <2>2. PICK r \in LeaveOrDelete(selected) : requests' = Append(requests, r)
    BY <1>5 DEF LeaveGroup
  <2>3. requests' \in Seq(Requests)
    BY <1>0, <2>1, <2>2, RequestsTyped, AppendTyped
  <2>4. gestures' \in Nat
    BY <1>0, <1>5, SMT DEF LeaveGroup, Gesture
  <2> QED BY <1>5, <2>3, <2>4 DEF HomeTypes, BoxIsMap, LeaveGroup
<1>6. CASE EnterGroup
  <2>1. PICK g \in Groups : \E r \in JoinOrCreate(-g) : requests' = Append(requests, r)
    BY <1>6 DEF EnterGroup
  <2>2. PICK r \in JoinOrCreate(-g) : requests' = Append(requests, r)
    BY <2>1
  <2>3. -g \in GroupConvs
    BY Signs
  <2>4. requests' \in Seq(Requests)
    BY <1>0, <2>2, <2>3, RequestsTyped, AppendTyped
  <2>5. gestures' \in Nat
    BY <1>0, <1>6, SMT DEF EnterGroup, Gesture
  <2> QED BY <1>6, <2>4, <2>5 DEF HomeTypes, BoxIsMap, EnterGroup
<1>7. CASE LoginAgain
  <2>1. <<Request("logout", 0), Request("login", 0)>> \in Seq(Requests)
    BY RequestsTyped, SMT
  <2>2. requests' \in Seq(Requests)
    BY <1>0, <1>7, <2>1, ConcatTyped DEF LoginAgain
  <2>3. gestures' \in Nat /\ logins' \in Nat
    BY <1>0, <1>7, SMT DEF LoginAgain, Gesture
  <2> QED BY <1>7, <2>2, <2>3 DEF HomeTypes, BoxIsMap, LoginAgain
<1> QED BY <1>1, <1>2, <1>3, <1>4, <1>5, <1>6, <1>7 DEF UserNext

\* What the server does to its own state.
LEMMA ServerTyped ==
    ASSUME HomeTypes, Histories, ServerNext
    PROVE  HomeTypes'
<1> USE DEF uiVars, srvVars, countVars
<1>0. /\ requests \in Seq(Requests) /\ toClient \in Seq(Replies) /\ nmsg \in Nat
      /\ store \in [Convs -> Seq(ConvLine)] /\ members \subseteq GroupConvs
  BY DEF HomeTypes
<1>1. CASE Serve
  <2> DEFINE r == Head(requests)
             c == r.line.conv
  <2>1. requests # << >> /\ r \in Requests /\ requests' \in Seq(Requests)
    BY <1>0, <1>1, TailPlaces DEF Serve
  <2>2. /\ toClient' = toClient \o AnswersTo(r)
        /\ online' = CASE r.kind = "login" -> TRUE
                       [] r.kind = "logout" -> FALSE
                       [] OTHER -> online
        /\ members' = CASE r.kind \in {"leave", "delete"} -> members \ {c}
                        [] r.kind \in {"join", "create"} -> members \cup {c}
                        [] OTHER -> members
        /\ store' = IF r.kind = "send" /\ c \in Peers \cup members
                    THEN [store EXCEPT ![c] = Append(@, r.line)] ELSE store
    BY <1>1, Zenon DEF Serve
  <2> HIDE DEF r
  <2>3. AnswersTo(r) \in Seq(Replies)
    <3>1. << >> \in Seq(Replies) /\ \A a \in Replies : <<a>> \in Seq(Replies)
      BY SMT
    <3> QED BY <2>1, <3>1, AnswersAre, Zenon
  <2>4. toClient' \in Seq(Replies)
    BY <1>0, <2>2, <2>3, ConcatTyped
  <2>5. online' \in BOOLEAN
    BY <2>2, Zenon DEF HomeTypes
  <2>6. r.kind \in {"send", "join", "create"} => c \in Convs
    BY <2>1 DEF Requests, OnConv
  <2>7. store' \in [Convs -> Seq(ConvLine)]
    <3>1. CASE r.kind = "send" /\ c \in Peers \cup members
      <4>1. r.line \in ConvLine
        BY <2>1, <2>6, <3>1, SMT DEF Requests, LineType, ConvLine
      <4>2. Append(store[c], r.line) \in Seq(ConvLine)
        BY <1>0, <2>6, <3>1, <4>1, AppendTyped
      <4> QED BY <1>0, <2>2, <3>1, <4>2, Zenon
    <3> QED BY <1>0, <2>2, <3>1
  <2>8. members' \subseteq GroupConvs
    <3>1. r.kind \in {"join", "create"} => c \in GroupConvs
      BY <2>1 DEF Requests
    <3> QED BY <1>0, <2>2, <3>1
  <2> QED BY <1>1, <2>1, <2>4, <2>5, <2>7, <2>8 DEF HomeTypes, Serve
<1>2. ASSUME NEW c \in Convs, Incoming(c) PROVE HomeTypes'
  <2> DEFINE line == Line(c, nmsg', "other")
             a == Answer(IF c > 0 THEN "user" ELSE "group", <<line>>)
  <2>1. nmsg' \in Nat
    BY <1>0, <1>2, SMT DEF Incoming
  <2>2. line \in ConvLine
    BY <2>1, LinesTyped
  <2>3. /\ store' = [store EXCEPT ![c] = Append(@, line)]
        /\ toClient' = IF online THEN Append(toClient, a) ELSE toClient
    BY <1>2, Zenon DEF Incoming
  <2>4. a \in Replies
    <3>1. <<line>> \in Seq(ConvLine)
      BY <2>2, SMT
    <3>2. (IF c > 0 THEN "user" ELSE "group") \in {"user", "group"}
      OBVIOUS
    <3> QED BY <3>1, <3>2, RepliesTyped
  <2> HIDE DEF line, a
  <2>5. toClient' \in Seq(Replies)
    BY <1>0, <2>3, <2>4, AppendTyped
  <2>6. Append(store[c], line) \in Seq(ConvLine)
    BY <1>0, <2>2, AppendTyped
  <2>7. store' \in [Convs -> Seq(ConvLine)]
    BY <1>0, <2>3, <2>6, Zenon
  <2> QED BY <1>2, <2>1, <2>5, <2>7 DEF HomeTypes, Incoming
<1>3. ASSUME NEW c \in Convs, OtherLeaves(c) PROVE HomeTypes'
  <2> DEFINE a == Answer("leave", <<Line(c, 0, "notice")>>)
  <2>1. nmsg' \in Nat
    BY <1>0, <1>3, SMT DEF OtherLeaves
  <2>2. Line(c, 0, "notice") \in ConvLine
    BY LinesTyped
  <2>3. <<Line(c, 0, "notice")>> \in Seq(ConvLine) /\ <<Line(c, 0, "notice")>> # << >>
    BY <2>2, SMT
  <2>4. a \in Replies
    BY <2>3, RepliesTyped
  <2>5. toClient' \in Seq(Replies)
    BY <1>0, <1>3, <2>4, AppendTyped DEF OtherLeaves
  <2> QED BY <1>3, <2>1, <2>5 DEF HomeTypes, OtherLeaves
<1> QED BY <1>1, <1>2, <1>3 DEF ServerNext

\* What the main loop does.
LEMMA GtkTyped ==
    ASSUME HomeTypes, BoxIsMap, GtkNext
    PROVE  HomeTypes' /\ BoxIsMap'
<1> USE DEF uiVars, srvVars, countVars
<1> DEFINE line == Head(idle).lines[1]
<1>0. /\ requests \in Seq(Requests) /\ box \in Seq(Convs) /\ map \subseteq Convs
      /\ view \in Seq(ConvLine) /\ preview \in [Convs -> LineType]
  BY DEF HomeTypes
<1>1. idle # << >> /\ idle' = Tail(idle)
  BY DEF GtkNext, RunHome, RunUpdate, RunLoad, RunRemove, RunResults, Run
<1>2. /\ idle' \in Seq(Callbacks) /\ Head(idle).lines \in Seq(ConvLine)
      /\ Head(idle).run \in {"update", "load", "remove"} =>
            line \in ConvLine /\ line.conv \in Convs
  BY <1>1, CallbackIs
<1> HIDE DEF line
<1>3. CASE RunHome
  <2>1. requests' \in Seq(Requests)
    BY <1>0, <1>3, RequestsTyped, AppendTyped DEF RunHome
  <2>2. /\ box' \in Seq(Convs) /\ map' \subseteq Convs /\ results' \subseteq Peers
        /\ preview' \in [Convs -> LineType] /\ view' \in Seq(ConvLine)
    BY <1>3, LinesTyped, SMT DEF RunHome
  <2>3. ToSet(<< >>) = {}
    BY DEF ToSet
  <2>4. BoxIsMap'
    BY <1>3, <2>3, SMT DEF RunHome, BoxIsMap
  <2> QED BY <1>2, <1>3, <2>1, <2>2, <2>4 DEF HomeTypes, RunHome
<1>4. CASE RunUpdate
  <2>1. Head(idle).run = "update" /\ UpdateContact(line)
        /\ view' = IF line.conv = selected THEN Append(view, line) ELSE view
    BY <1>4, Zenon DEF RunUpdate, Run, line
  <2>2. line \in ConvLine
    BY <1>2, <2>1
  <2>3. /\ box' \in Seq(Convs) /\ map' \subseteq Convs /\ preview' \in [Convs -> LineType]
        /\ BoxIsMap'
    BY <2>1, <2>2, ContactUpdated
  <2>4. view' \in Seq(ConvLine)
    BY <1>0, <2>1, <2>2, AppendTyped
  <2> QED BY <1>2, <1>4, <2>3, <2>4 DEF HomeTypes, RunUpdate
<1>5. CASE RunLoad
  <2>1. Head(idle).run = "load" /\ view' = Head(idle).lines /\ loaded' = line.conv
    BY <1>5, Zenon DEF RunLoad, Run, line
  <2>2. view' \in Seq(ConvLine) /\ loaded' \in Convs \cup {0}
    BY <1>2, <2>1
  <2> QED BY <1>2, <1>5, <2>2 DEF HomeTypes, BoxIsMap, RunLoad
<1>6. CASE RunRemove
  <2> DEFINE c == line.conv
             t == RemoveFirst(box, c)
  <2>1. /\ Head(idle).run = "remove" /\ box' = t /\ map' = map \ {c}
        /\ preview' = [preview EXCEPT ![c] = NoLine] /\ view' = << >> /\ loaded' = 0
    BY <1>6, Zenon DEF RunRemove, Run, line
  <2>2. c \in Convs
    BY <1>2, <2>1
  <2>3. /\ t \in Seq(Convs) /\ ToSet(t) = ToSet(box) \ {c}
        /\ \A i, j \in DOMAIN t : t[i] = t[j] => i = j
    BY <1>0, RemoveFirstLeaves DEF BoxIsMap
  <2> HIDE DEF t
  <2>4. preview' \in [Convs -> LineType]
    BY <1>0, <2>1, LinesTyped
  <2>5. BoxIsMap'
    BY <2>1, <2>3 DEF BoxIsMap
  <2>6. view' \in Seq(ConvLine) /\ map' \subseteq Convs
    BY <1>0, <2>1, SMT
  <2> QED BY <1>2, <1>6, <2>1, <2>3, <2>4, <2>5, <2>6 DEF HomeTypes, RunRemove
<1>7. CASE RunResults
  <2>1. results' \subseteq Peers
    BY <1>7 DEF RunResults
  <2> QED BY <1>2, <1>7, <2>1 DEF HomeTypes, BoxIsMap, RunResults
<1> QED BY <1>3, <1>4, <1>5, <1>6, <1>7 DEF GtkNext

LEMMA TypesStep ==
    ASSUME HomeTypes, BoxIsMap, Histories, [Next]_vars
    PROVE  HomeTypes' /\ BoxIsMap'
<1> USE DEF uiVars, srvVars, countVars
<1>1. CASE UserNext
  BY <1>1, UserTyped
<1>2. CASE ServerNext
  <2>1. UNCHANGED <<box, map>>
    BY <1>2 DEF ServerNext, Serve, Incoming, OtherLeaves
  <2> QED BY <1>2, <2>1, ServerTyped DEF BoxIsMap
<1>3. CASE CollectorNext
  <2>1. UNCHANGED <<box, map>>
    BY <1>3 DEF CollectorNext, HandleLogin, HandleChats, HandleUserMessage,
       HandleGroupMessage, HandleJoin, HandleCreate, HandleDelete, HandleSearch,
       HandleLeave, HandleUserHistory, HandleGroupHistory, Handle
  <2> QED BY <1>3, <2>1, CollectorTyped DEF BoxIsMap
<1>4. CASE GtkNext
  BY <1>4, GtkTyped
<1>5. CASE EnableClick
  BY <1>5 DEF EnableClick, HomeTypes, BoxIsMap
<1>6. CASE UNCHANGED vars
  BY <1>6 DEF vars, HomeTypes, BoxIsMap
<1> QED BY <1>1, <1>2, <1>3, <1>4, <1>5, <1>6 DEF Next

(***************************************************************************)
(* Histories, and the view.                                                *)
(***************************************************************************)

\* No conversation of the server's ever becomes shorter.
LEMMA StoreGrows ==
    ASSUME HomeTypes, Histories, [Next]_vars
    PROVE  /\ \A c \in Convs : store[c] # << >> => store'[c] # << >>
           /\ \A c \in Convs : AllOf(store'[c], c)
<1> USE DEF uiVars, srvVars, countVars
<1> DEFINE Good == /\ \A c \in Convs : store[c] # << >> => store'[c] # << >>
                   /\ \A c \in Convs : AllOf(store'[c], c)
<1>0. /\ store \in [Convs -> Seq(ConvLine)] /\ \A c \in Convs : AllOf(store[c], c)
      /\ requests \in Seq(Requests) /\ nmsg \in Nat
  BY DEF HomeTypes, Histories
<1>1. ASSUME NEW c \in Convs, NEW line \in ConvLine, line.conv = c,
             store' = [store EXCEPT ![c] = Append(@, line)]
      PROVE  Good
  <2>1. /\ Append(store[c], line) # << >>
        /\ \A i \in DOMAIN Append(store[c], line) :
              \/ i \in DOMAIN store[c] /\ Append(store[c], line)[i] = store[c][i]
              \/ Append(store[c], line)[i] = line
    BY <1>0, AppendNonEmpty, AppendPlaces
  <2>2. AllOf(Append(store[c], line), c)
    BY <1>0, <1>1, <2>1 DEF AllOf
  <2>3. store'[c] = Append(store[c], line) /\ \A d \in Convs : d # c => store'[d] = store[d]
    BY <1>0, <1>1
  <2> QED BY <1>0, <2>1, <2>2, <2>3, Zenon
<1>2. CASE UNCHANGED store
  BY <1>0, <1>2
<1>3. CASE Serve
  <2> DEFINE r == Head(requests)
             c == r.line.conv
  <2>1. /\ store' = IF r.kind = "send" /\ c \in Peers \cup members
                    THEN [store EXCEPT ![c] = Append(@, r.line)] ELSE store
        /\ r \in Requests
    BY <1>0, <1>3, TailPlaces DEF Serve
  <2> HIDE DEF r
  <2>2. CASE r.kind = "send" /\ c \in Peers \cup members
    <3>1. r.line \in ConvLine /\ c \in Convs
      BY <2>1, <2>2, SMT DEF Requests, OnConv, LineType, ConvLine
    <3> QED BY <1>1, <2>1, <2>2, <3>1
  <2> QED BY <1>2, <2>1, <2>2
<1>4. ASSUME NEW c \in Convs, Incoming(c) PROVE Good
  <2>1. nmsg' \in Nat
    BY <1>0, <1>4, SMT DEF Incoming
  <2>2. Line(c, nmsg', "other") \in ConvLine /\ Line(c, nmsg', "other").conv = c
    BY <2>1, LinesTyped
  <2>3. store' = [store EXCEPT ![c] = Append(@, Line(c, nmsg', "other"))]
    BY <1>4, Zenon DEF Incoming
  <2> QED BY <1>1, <2>2, <2>3
<1>5. ASSUME NEW c \in Convs, OtherLeaves(c) PROVE Good
  BY <1>2, <1>5 DEF OtherLeaves
<1>6. CASE UserNext
  <2>1. UNCHANGED store
    BY <1>6 DEF UserNext, ClickContact, ClickSearchItem, TypeSearch, Send, LeaveGroup,
                EnterGroup, LoginAgain
  <2> QED BY <1>2, <2>1
<1>7. CASE CollectorNext
  <2>1. UNCHANGED store
    BY <1>7 DEF CollectorNext, HandleLogin, HandleChats, HandleUserMessage,
       HandleGroupMessage, HandleJoin, HandleCreate, HandleDelete, HandleSearch,
       HandleLeave, HandleUserHistory, HandleGroupHistory, Handle
  <2> QED BY <1>2, <2>1
<1>8. CASE GtkNext \/ EnableClick \/ UNCHANGED vars
  <2>1. UNCHANGED store
    BY <1>8 DEF GtkNext, RunHome, RunUpdate, RunLoad, RunRemove, RunResults, EnableClick, vars
  <2> QED BY <1>2, <2>1
<1> QED BY <1>3, <1>4, <1>5, <1>6, <1>7, <1>8 DEF Next, ServerNext

\* A filed history stays filed.
FiledNext(lines) == \E c \in Convs : store'[c] # << >> /\ AllOf(lines, c)
ReplyFits(a) == a.kind \in HistoryKinds /\ a.lines # << >> => FiledNext(a.lines)
RunFits(b) == b.run = "load" => FiledNext(b.lines)

LEMMA StaysFiled ==
    ASSUME HomeTypes, Histories, [Next]_vars
    PROVE  /\ \A i \in DOMAIN toClient : ReplyFits(toClient[i])
           /\ \A i \in DOMAIN idle : RunFits(idle[i])
<1>1. ASSUME NEW lines, Filed(lines) PROVE FiledNext(lines)
  <2>1. PICK c \in Convs : store[c] # << >> /\ AllOf(lines, c)
    BY <1>1 DEF Filed
  <2> QED BY <2>1, StoreGrows DEF FiledNext
<1>2. ASSUME NEW i \in DOMAIN toClient PROVE ReplyFits(toClient[i])
  BY <1>1 DEF ReplyFits, Histories
<1>3. ASSUME NEW i \in DOMAIN idle PROVE RunFits(idle[i])
  BY <1>1 DEF RunFits, Histories
<1> QED BY <1>2, <1>3

\* What is under way is old, or a history that is filed.
LEMMA HistoriesFromParts ==
    ASSUME HomeTypes, Histories, [Next]_vars,
           \A i \in DOMAIN toClient' :
              (\E j \in DOMAIN toClient : toClient'[i] = toClient[j]) \/ ReplyFits(toClient'[i]),
           \A i \in DOMAIN idle' :
              (\E j \in DOMAIN idle : idle'[i] = idle[j]) \/ RunFits(idle'[i]),
           loaded' = loaded \/ loaded' = 0 \/ (loaded' \in Convs /\ store'[loaded'] # << >>)
    PROVE  Histories'
<1>1. \A i \in DOMAIN toClient' : ReplyFits(toClient'[i])
  BY StaysFiled, Zenon
<1>2. \A i \in DOMAIN idle' : RunFits(idle'[i])
  BY StaysFiled, Zenon
<1>3. loaded' # 0 => store'[loaded'] # << >>
  BY StoreGrows DEF HomeTypes, Histories
<1>4. \A c \in Convs : AllOf(store'[c], c)
  BY StoreGrows
<1>5. \A i \in DOMAIN toClient' :
         toClient'[i].kind \in HistoryKinds /\ toClient'[i].lines # << >>
            => \E c \in Convs : store'[c] # << >> /\ AllOf(toClient'[i].lines, c)
  BY <1>1 DEF ReplyFits, FiledNext
<1>6. \A i \in DOMAIN idle' : idle'[i].run = "load" =>
         \E c \in Convs : store'[c] # << >> /\ AllOf(idle'[i].lines, c)
  BY <1>2 DEF RunFits, FiledNext
<1> QED BY <1>3, <1>4, <1>5, <1>6 DEF Histories, Filed, AllOf

\* What the collector makes of the answer at the head of toClient.
MadeOf(new, a) ==
    /\ new \in Seq(Callbacks)
    /\ a.kind \in HistoryKinds => new = LoadOf(a.lines)
    /\ a.kind = "login" => new = <<Callback("home", << >>)>>
    /\ Removing(a) => new = <<Callback("remove", a.lines)>>
    /\ Adding(a) => new = Updates(a.lines)
    /\ a.kind = "search" => new = <<Callback("results", << >>)>>

LEMMA ReplyKinds ==
    ASSUME NEW a \in Replies
    PROVE  \/ a.kind = "login" \/ a.kind = "search" \/ a.kind \in HistoryKinds
           \/ Removing(a) \/ Adding(a)
BY DEF Replies, Removing, Adding, IsNotice, HistoryKinds

LEMMA KindsExclude ==
    ASSUME NEW a
    PROVE  /\ a.kind \in HistoryKinds =>
                 a.kind # "login" /\ a.kind # "search" /\ ~Removing(a) /\ ~Adding(a)
           /\ a.kind = "login" =>
                 a.kind \notin HistoryKinds /\ a.kind # "search" /\ ~Removing(a) /\ ~Adding(a)
           /\ a.kind = "search" =>
                 a.kind \notin HistoryKinds /\ a.kind # "login" /\ ~Removing(a) /\ ~Adding(a)
           /\ Removing(a) =>
                 a.kind \notin HistoryKinds /\ a.kind # "login" /\ a.kind # "search" /\ ~Adding(a)
           /\ Adding(a) =>
                 a.kind \notin HistoryKinds /\ a.kind # "login" /\ a.kind # "search" /\ ~Removing(a)
<1>1. a.kind \in HistoryKinds =>
         a.kind # "login" /\ a.kind # "search" /\ ~Removing(a) /\ ~Adding(a)
  <2>1. CASE a.kind = "users message"
    BY <2>1, Zenon DEF Removing, Adding, IsNotice
  <2>2. CASE a.kind = "groups message"
    BY <2>2, Zenon DEF Removing, Adding, IsNotice
  <2> QED BY <2>1, <2>2 DEF HistoryKinds
<1>2. a.kind = "login" => a.kind # "search" /\ ~Removing(a) /\ ~Adding(a)
  BY SMT DEF Removing, Adding, IsNotice
<1>3. a.kind = "search" => a.kind # "login" /\ ~Removing(a) /\ ~Adding(a)
  BY SMT DEF Removing, Adding, IsNotice
<1>4. ~(Removing(a) /\ Adding(a))
  BY SMT DEF Removing, Adding, IsNotice
<1> HIDE DEF Removing, Adding
<1> QED BY <1>1, <1>2, <1>3, <1>4, Zenon

LEMMA CollectorMakes ==
    ASSUME HomeTypes, CollectorNext
    PROVE  /\ toClient # << >> /\ toClient' = Tail(toClient)
           /\ UNCHANGED <<uiVars, requests, srvVars, countVars>>
           /\ \E new : idle' = idle \o new /\ MadeOf(new, Head(toClient))
<1> DEFINE a == Head(toClient)
<1>0. toClient # << >> /\ toClient' = Tail(toClient)
      /\ UNCHANGED <<uiVars, requests, srvVars, countVars>>
  BY DEF CollectorNext, HandleLogin, HandleChats, HandleUserMessage, HandleGroupMessage,
         HandleJoin, HandleCreate, HandleDelete, HandleSearch, HandleLeave,
         HandleUserHistory, HandleGroupHistory, Handle
<1>1. a \in Replies /\ Lines = a.lines /\ Lines \in Seq(ConvLine)
      /\ Updates(Lines) \in Seq(Callbacks) /\ LoadOf(Lines) \in Seq(Callbacks)
      /\ (a.kind \in {"leave", "delete"} => Lines # << >>)
  <2>1. Lines = a.lines
    BY DEF Lines
  <2>2. /\ a \in Replies /\ Lines \in Seq(ConvLine)
        /\ (a.kind \in {"leave", "delete"} => Lines # << >>)
    BY <1>0, LinesAre
  <2> QED BY <2>1, <2>2, UpdatesTyped, LoadTyped
<1>2. \A b \in Callbacks : <<b>> \in Seq(Callbacks)
  BY SMT
<1>3. /\ Callback("home", << >>) \in Callbacks /\ Callback("results", << >>) \in Callbacks
      /\ Lines # << >> => Callback("remove", Lines) \in Callbacks
  <2>1. << >> \in Seq(ConvLine)
    OBVIOUS
  <2> QED BY <1>1, <2>1, CallbacksTyped
<1> HIDE DEF a
<1>4. SUFFICES \E new : idle' = idle \o new /\ MadeOf(new, a)
  BY <1>0 DEF a
<1>5. CASE HandleLogin
  <2>1. a.kind = "login" /\ idle' = idle \o <<Callback("home", << >>)>>
    BY <1>5, Zenon DEF HandleLogin, Handle, a
  <2>2. MadeOf(<<Callback("home", << >>)>>, a)
    <3>1. a.kind \notin HistoryKinds /\ ~Removing(a) /\ ~Adding(a)
      BY <2>1, KindsExclude
    <3>2. ~(a.kind = "login" /\ a.kind = "search")
      OBVIOUS
    <3> QED BY <1>2, <1>3, <2>1, <3>1, <3>2, Zenon DEF MadeOf
  <2> QED BY <2>1, <2>2
<1>6. CASE HandleSearch
  <2>1. a.kind = "search" /\ idle' = idle \o <<Callback("results", << >>)>>
    BY <1>6, Zenon DEF HandleSearch, Handle, a
  <2>2. MadeOf(<<Callback("results", << >>)>>, a)
    <3>1. a.kind \notin HistoryKinds /\ ~Removing(a) /\ ~Adding(a)
      BY <2>1, KindsExclude
    <3>2. ~(a.kind = "login" /\ a.kind = "search")
      OBVIOUS
    <3> QED BY <1>2, <1>3, <2>1, <3>1, <3>2, Zenon DEF MadeOf
  <2> QED BY <2>1, <2>2
<1>7. ASSUME a.kind = "delete" \/ (a.kind = "leave" /\ Lines[1].from = "me"),
             idle' = idle \o <<Callback("remove", Lines)>>
      PROVE  \E new : idle' = idle \o new /\ MadeOf(new, a)
  <2>1. Removing(a)
    BY <1>1, <1>7 DEF Removing, IsNotice
  <2>2. <<Callback("remove", Lines)>> \in Seq(Callbacks)
    BY <1>1, <1>2, <1>3, <1>7
  <2>3. MadeOf(<<Callback("remove", Lines)>>, a)
    <3>1. a.kind \notin HistoryKinds /\ a.kind # "login" /\ a.kind # "search" /\ ~Adding(a)
      BY <2>1, KindsExclude
    <3> QED BY <1>1, <2>1, <2>2, <3>1, Zenon DEF MadeOf
  <2> QED BY <1>7, <2>3
<1>8. ASSUME Adding(a), idle' = idle \o Updates(Lines)
      PROVE  \E new : idle' = idle \o new /\ MadeOf(new, a)
  <2>1. MadeOf(Updates(Lines), a)
    <3>1. a.kind \notin HistoryKinds /\ a.kind # "login" /\ a.kind # "search" /\ ~Removing(a)
      BY <1>8, KindsExclude
    <3> QED BY <1>1, <1>8, <3>1, Zenon DEF MadeOf
  <2> QED BY <1>8, <2>1
<1>9. CASE HandleDelete
  <2>1. a.kind = "delete" /\ idle' = idle \o <<Callback("remove", Lines)>>
    BY <1>9, Zenon DEF HandleDelete, Handle, a
  <2> QED BY <1>7, <2>1
<1>10. CASE HandleLeave
  <2>1. /\ a.kind = "leave"
        /\ idle' = idle \o (IF Lines[1].from = "me" THEN <<Callback("remove", Lines)>>
                            ELSE Updates(Lines))
    BY <1>10, Zenon DEF HandleLeave, Handle, a
  <2>2. CASE Lines[1].from = "me"
    BY <1>7, <2>1, <2>2
  <2>3. CASE Lines[1].from # "me"
    <3>1. Adding(a)
      BY <1>1, <2>1, <2>3 DEF Adding, IsNotice
    <3> QED BY <1>8, <2>1, <2>3, <3>1
  <2> QED BY <2>2, <2>3
<1>11. CASE HandleUserHistory \/ HandleGroupHistory
  <2>1. a.kind \in HistoryKinds /\ idle' = idle \o LoadOf(Lines)
    BY <1>11, Zenon DEF HandleUserHistory, HandleGroupHistory, Handle, a, HistoryKinds
  <2>2. MadeOf(LoadOf(Lines), a)
    BY <1>1, <2>1, KindsExclude, Zenon DEF MadeOf
  <2> QED BY <2>1, <2>2
<1>12. CASE HandleChats \/ HandleUserMessage \/ HandleGroupMessage \/ HandleJoin \/ HandleCreate
  <2>1. idle' = idle \o Updates(Lines)
    BY <1>12, Zenon DEF HandleChats, HandleUserMessage, HandleGroupMessage, HandleJoin,
                        HandleCreate, Handle
  <2>2. a.kind \in {"chats", "user", "group", "join", "create"}
    BY <1>12, Zenon DEF HandleChats, HandleUserMessage, HandleGroupMessage, HandleJoin,
                        HandleCreate, Handle, a
  <2> QED BY <1>8, <2>1, <2>2 DEF Adding
<1> QED BY <1>5, <1>6, <1>9, <1>10, <1>11, <1>12 DEF CollectorNext

\* What the callbacks of an answer are.
LEMMA MadeRuns ==
    ASSUME NEW a \in Replies, NEW new, MadeOf(new, a)
    PROVE  \A i \in DOMAIN new :
              /\ new[i].run = "load" =>
                    a.kind \in HistoryKinds /\ a.lines # << >> /\ new[i].lines = a.lines
              /\ new[i].run = "home" => a.kind = "login" /\ i = 1
              /\ new[i].run = "remove" => Removing(a) /\ new[i].lines = a.lines
              /\ new[i].run = "update" =>
                    Adding(a) /\ i \in DOMAIN a.lines /\ new[i].lines[1] = a.lines[i]
<1>0. a.lines \in Seq(ConvLine)
  BY DEF Replies
<1>1. CASE a.kind = "login"
  <2>1. new = <<Callback("home", << >>)>>
    BY <1>1 DEF MadeOf
  <2> QED BY <1>1, <2>1, SMT DEF Callback
<1>2. CASE a.kind = "search"
  <2>1. new = <<Callback("results", << >>)>>
    BY <1>2 DEF MadeOf
  <2> QED BY <2>1, SMT DEF Callback
<1>3. CASE a.kind \in HistoryKinds
  <2>1. new = LoadOf(a.lines)
    BY <1>3 DEF MadeOf
  <2>2. CASE a.lines = << >>
    BY <2>1, <2>2, SMT DEF LoadOf
  <2>3. CASE a.lines # << >>
    <3>1. new = <<Callback("load", a.lines)>>
      BY <2>1, <2>3 DEF LoadOf
    <3>2. \A i \in DOMAIN new : new[i].run = "load" /\ new[i].lines = a.lines
      BY <3>1, SMT DEF Callback
    <3> QED BY <1>3, <2>3, <3>2, SMT
  <2> QED BY <2>2, <2>3
<1>4. CASE Removing(a)
  <2>1. new = <<Callback("remove", a.lines)>>
    BY <1>4 DEF MadeOf
  <2>2. \A i \in DOMAIN new : new[i].run = "remove" /\ new[i].lines = a.lines
    BY <2>1, SMT DEF Callback
  <2> QED BY <1>4, <2>2, SMT
<1>5. CASE Adding(a)
  <2>1. new = Updates(a.lines)
    BY <1>5 DEF MadeOf
  <2>2. \A i \in DOMAIN new : /\ new[i].run = "update" /\ i \in DOMAIN a.lines
                             /\ new[i].lines[1] = a.lines[i]
    BY <1>0, <2>1, UpdatesTyped, Zenon
  <2> QED BY <1>5, <2>2, SMT
<1> QED BY <1>1, <1>2, <1>3, <1>4, <1>5, ReplyKinds

LEMMA HistoriesStep ==
    ASSUME HomeTypes, Histories, [Next]_vars
    PROVE  Histories'
<1> USE DEF uiVars, srvVars, countVars
<1>0. /\ requests \in Seq(Requests) /\ toClient \in Seq(Replies) /\ idle \in Seq(Callbacks)
      /\ store \in [Convs -> Seq(ConvLine)]
  BY DEF HomeTypes
<1>1. CASE UNCHANGED <<toClient, idle, loaded>>
  <2>1. \A i \in DOMAIN toClient' : \E j \in DOMAIN toClient : toClient'[i] = toClient[j]
    BY <1>1
  <2>2. \A i \in DOMAIN idle' : \E j \in DOMAIN idle : idle'[i] = idle[j]
    BY <1>1
  <2> QED BY <1>1, <2>1, <2>2, HistoriesFromParts
<1>2. CASE UserNext \/ EnableClick \/ UNCHANGED vars
  <2>1. UNCHANGED <<toClient, idle, loaded>>
    BY <1>2 DEF UserNext, ClickContact, ClickSearchItem, TypeSearch, Send, LeaveGroup,
                EnterGroup, LoginAgain, EnableClick, vars
  <2> QED BY <1>1, <2>1
<1>3. ASSUME UNCHANGED <<idle, loaded>>, NEW new \in Seq(Replies), toClient' = toClient \o new,
             \A i \in DOMAIN new : ReplyFits(new[i])
      PROVE  Histories'
  <2>1. \A i \in DOMAIN toClient' :
           \/ \E j \in DOMAIN toClient : toClient'[i] = toClient[j]
           \/ \E j \in DOMAIN new : toClient'[i] = new[j]
    <3>1. FromBoth(toClient \o new, toClient, new)
      BY <1>0, ConcatFrom
    <3> QED BY <1>3, <3>1 DEF FromBoth
  <2>2. \A i \in DOMAIN toClient' :
           (\E j \in DOMAIN toClient : toClient'[i] = toClient[j]) \/ ReplyFits(toClient'[i])
    BY <1>3, <2>1, Zenon
  <2>3. \A i \in DOMAIN idle' : \E j \in DOMAIN idle : idle'[i] = idle[j]
    BY <1>3
  <2> QED BY <1>3, <2>2, <2>3, HistoriesFromParts
<1>4. \A a \in Replies : ReplyFits(a) => <<a>> \in Seq(Replies) /\ \A i \in DOMAIN <<a>> : ReplyFits(<<a>>[i])
  BY SMT
<1>5. CASE Serve
  <2> DEFINE r == Head(requests)
  <2>1. /\ r \in Requests /\ toClient' = toClient \o AnswersTo(r)
        /\ UNCHANGED <<idle, loaded>>
    BY <1>0, <1>5, TailPlaces DEF Serve
  <2> HIDE DEF r
  <2>2. CASE AnswersTo(r) = << >>
    <3>1. << >> \in Seq(Replies) /\ \A i \in DOMAIN << >> : ReplyFits(<< >>[i])
      BY SMT
    <3> QED BY <1>3, <2>1, <2>2, <3>1
  <2>3. ASSUME NEW a \in Replies, AnswersTo(r) = <<a>>,
               a.kind \in HistoryKinds => r.kind = "history" /\ a.lines = store[r.line.conv]
        PROVE  Histories'
    <3>1. ReplyFits(a)
      <4> SUFFICES ASSUME a.kind \in HistoryKinds, a.lines # << >> PROVE FiledNext(a.lines)
        BY DEF ReplyFits
      <4> DEFINE c == r.line.conv
      <4>1. c \in Convs /\ a.lines = store[c]
        BY <2>1, <2>3 DEF Requests, OnConv
      <4>2. store'[c] # << >> /\ AllOf(store[c], c)
        BY <4>1, StoreGrows DEF Histories
      <4> QED BY <4>1, <4>2 DEF FiledNext
    <3> QED BY <1>3, <1>4, <2>1, <2>3, <3>1
  <2> QED BY <2>1, <2>2, <2>3, AnswersAre
<1>6. ASSUME NEW a \in Replies, a.kind \notin HistoryKinds,
             toClient' = Append(toClient, a) \/ toClient' = toClient,
             UNCHANGED <<idle, loaded>>
      PROVE  Histories'
  <2>1. Append(toClient, a) = toClient \o <<a>>
    BY <1>0, SMT
  <2>2. ReplyFits(a)
    BY <1>6 DEF ReplyFits
  <2> QED BY <1>1, <1>3, <1>4, <1>6, <2>1, <2>2
<1>7. ASSUME NEW c \in Convs, Incoming(c) PROVE Histories'
  <2> DEFINE k == IF c > 0 THEN "user" ELSE "group"
             line == Line(c, nmsg', "other")
  <2>1. /\ toClient' = IF online THEN Append(toClient, Answer(k, <<line>>)) ELSE toClient
        /\ UNCHANGED <<idle, loaded>> /\ nmsg' \in Nat
    BY <1>7, SMT DEF Incoming, HomeTypes
  <2>2. <<line>> \in Seq(ConvLine) /\ k \in {"user", "group"}
    BY <2>1, LinesTyped, SMT
  <2>3. Answer(k, <<line>>) \in Replies /\ Answer(k, <<line>>).kind = k
    BY <2>2, RepliesTyped DEF Answer
  <2>4. k \notin HistoryKinds
    BY SMT DEF HistoryKinds
  <2> HIDE DEF k, line
  <2> QED BY <1>6, <2>1, <2>3, <2>4
<1>8. ASSUME NEW c \in Convs, OtherLeaves(c) PROVE Histories'
  <2> DEFINE a == Answer("leave", <<Line(c, 0, "notice")>>)
  <2>1. toClient' = Append(toClient, a) /\ UNCHANGED <<idle, loaded>>
    BY <1>8 DEF OtherLeaves
  <2>2. <<Line(c, 0, "notice")>> \in Seq(ConvLine) /\ <<Line(c, 0, "notice")>> # << >>
    BY LinesTyped, SMT
  <2>3. a \in Replies /\ a.kind = "leave" /\ "leave" \notin HistoryKinds
    BY <2>2, RepliesTyped DEF Answer, HistoryKinds
  <2> HIDE DEF a
  <2> QED BY <1>6, <2>1, <2>3
<1>9. CASE CollectorNext
  <2> DEFINE a == Head(toClient)
  <2>1. /\ toClient # << >> /\ toClient' = Tail(toClient) /\ loaded' = loaded
    BY <1>9, CollectorMakes
  <2>2. PICK new : idle' = idle \o new /\ MadeOf(new, a)
    BY <1>9, CollectorMakes
  <2>3. a \in Replies /\ 1 \in DOMAIN toClient /\ a = toClient[1] /\ new \in Seq(Callbacks)
    BY <1>0, <2>1, <2>2, TailPlaces DEF MadeOf
  <2>4. \A i \in DOMAIN toClient' : \E j \in DOMAIN toClient : toClient'[i] = toClient[j]
    BY <1>0, <2>1, TailPlaces, Zenon
  <2> HIDE DEF a
  <2>5. ReplyFits(a)
    BY <2>3, StaysFiled, Zenon
  <2>6. \A i \in DOMAIN new : RunFits(new[i])
    BY <2>2, <2>3, <2>5, MadeRuns DEF RunFits, ReplyFits
  <2>7. \A i \in DOMAIN idle' : (\E j \in DOMAIN idle : idle'[i] = idle[j])
                              \/ \E j \in DOMAIN new : idle'[i] = new[j]
    <3>1. FromBoth(idle \o new, idle, new)
      BY <1>0, <2>3, ConcatFrom
    <3> QED BY <2>2, <3>1 DEF FromBoth
  <2>8. \A i \in DOMAIN idle' :
           (\E j \in DOMAIN idle : idle'[i] = idle[j]) \/ RunFits(idle'[i])
    BY <2>6, <2>7, Zenon
  <2> QED BY <2>1, <2>4, <2>8, HistoriesFromParts
<1>10. CASE GtkNext
  <2>1. /\ idle # << >> /\ idle' = Tail(idle) /\ toClient' = toClient
        /\ loaded' = loaded \/ loaded' = 0
           \/ (Head(idle).run = "load" /\ loaded' = Head(idle).lines[1].conv)
    BY <1>10 DEF GtkNext, RunHome, RunUpdate, RunLoad, RunRemove, RunResults, Run
  <2>2. \A i \in DOMAIN idle' : \E j \in DOMAIN idle : idle'[i] = idle[j]
    BY <1>0, <2>1, TailPlaces, Zenon
  <2>3. \A i \in DOMAIN toClient' : \E j \in DOMAIN toClient : toClient'[i] = toClient[j]
    BY <2>1
  <2>4. ASSUME Head(idle).run = "load"
        PROVE  Head(idle).lines[1].conv \in Convs /\ store'[Head(idle).lines[1].conv] # << >>
    <3>1. /\ Head(idle) = idle[1] /\ 1 \in DOMAIN idle
          /\ 1 \in DOMAIN Head(idle).lines
      BY <2>1, <2>4, CallbackIs
    <3>2. FiledNext(Head(idle).lines)
      BY <2>4, <3>1, StaysFiled DEF RunFits
    <3> QED BY <3>1, <3>2 DEF FiledNext, AllOf
  <2> QED BY <2>1, <2>2, <2>3, <2>4, HistoriesFromParts
<1> QED BY <1>2, <1>5, <1>7, <1>8, <1>9, <1>10 DEF Next, ServerNext

\* What is on its way for a conversation's view after a step.
AskedNext(c) == \E i \in DOMAIN requests' : requests'[i] = GetHistoryMessage(c)
AnsweredNext(c) ==
    \E i \in DOMAIN toClient' :
       /\ toClient'[i].kind \in HistoryKinds /\ toClient'[i].lines # << >>
       /\ toClient'[i].lines[1].conv = c
ToLoadNext(c) == \E i \in DOMAIN idle' : idle'[i].run = "load" /\ idle'[i].lines[1].conv = c
ComingNext(c) == AskedNext(c) \/ AnsweredNext(c) \/ ToLoadNext(c)

\* Each element of s is where it was in t.
Kept(s, t) == \A i \in DOMAIN s : i \in DOMAIN t /\ t[i] = s[i]

LEMMA KeptWhenAdded ==
    ASSUME NEW S, NEW s \in Seq(S)
    PROVE  /\ Kept(s, s)
           /\ \A t \in Seq(S) : Kept(s, s \o t)
           /\ \A e \in S : Kept(s, Append(s, e))
BY SMT DEF Kept

\* A click on another conversation asks for its history.
LEMMA ClickAsks ==
    ASSUME requests \in Seq(Requests), selected \in Convs \cup {0},
           NEW c \in Convs, NEW q \in Seq(Requests), Click(c, q)
    PROVE  Kept(requests, requests') /\ (selected' = selected \/ (selected' = c /\ AskedNext(c)))
<1>1. GetHistoryMessage(c) \in Requests
  BY RequestsTyped
<1>2. Kept(requests, requests \o q) /\ requests \o q \in Seq(Requests)
  BY KeptWhenAdded, ConcatTyped
<1>3. CASE requests' = requests \o q /\ selected' = selected
  BY <1>2, <1>3
<1>4. CASE requests' = requests \o q \o <<GetHistoryMessage(c)>> /\ selected' = c
  <2> DEFINE s == requests \o q
             t == Append(s, GetHistoryMessage(c))
  <2>1. requests' = t
    BY <1>1, <1>2, <1>4, SMT
  <2>2. Kept(s, t)
    BY <1>1, <1>2, KeptWhenAdded
  <2>3. Kept(requests, t)
    BY <1>2, <2>2, Zenon DEF Kept
  <2>4. Len(s) + 1 \in DOMAIN t /\ t[Len(s) + 1] = GetHistoryMessage(c)
    BY <1>1, <1>2, AppendPlaces
  <2> HIDE DEF t, s
  <2>5. AskedNext(c)
    BY <2>1, <2>4 DEF AskedNext
  <2> QED BY <1>4, <2>1, <2>3, <2>5
<1> QED BY <1>3, <1>4 DEF Click

\* The user's gestures only add requests, and a new selection asks for its history.
LEMMA UserAdds ==
    ASSUME HomeTypes, UserNext
    PROVE  /\ Kept(requests, requests') /\ UNCHANGED <<toClient, idle, srvVars, loaded>>
           /\ \/ selected' = selected
              \/ selected' \in Convs /\ AskedNext(selected') /\ view' = view
           /\ \/ view' = view
              \/ /\ selected \in Convs /\ selected' = selected
                 /\ view' = Append(view, Line(selected, gestures', "me")) /\ gestures' \in Nat
<1> USE DEF srvVars, uiVars
<1>0. /\ requests \in Seq(Requests) /\ selected \in Convs \cup {0} /\ gestures \in Nat
  BY DEF HomeTypes
<1>1. ASSUME NEW c \in Convs, ClickContact(c)
      PROVE  /\ Kept(requests, requests') /\ UNCHANGED <<toClient, idle, srvVars, loaded, view>>
             /\ selected' = selected \/ (selected' \in Convs /\ AskedNext(selected'))
  <2>1. << >> \in Seq(Requests) /\ Click(c, << >>)
    BY <1>1 DEF ClickContact
  <2> QED BY <1>0, <1>1, <2>1, ClickAsks DEF ClickContact
<1>2. ASSUME NEW p \in Peers, ClickSearchItem(p)
      PROVE  /\ Kept(requests, requests') /\ UNCHANGED <<toClient, idle, srvVars, loaded, view>>
             /\ selected' = selected \/ (selected' \in Convs /\ AskedNext(selected'))
  <2>1. SearchUsers \in Requests /\ p \in Convs
    BY RequestsTyped, Signs
  <2>2. << >> \in Seq(Requests) /\ <<SearchUsers>> \in Seq(Requests)
    BY <2>1, SMT
  <2>3. PICK q \in {<< >>, <<SearchUsers>>} : Click(p, q)
    BY <1>2 DEF ClickSearchItem
  <2>4. q \in Seq(Requests)
    BY <2>2
  <2> QED BY <1>0, <1>2, <2>1, <2>3, <2>4, ClickAsks DEF ClickSearchItem
<1>3. CASE TypeSearch
  BY <1>0, <1>3, RequestsTyped, KeptWhenAdded DEF TypeSearch
<1>4. CASE Send
  <2>1. selected \in Convs /\ gestures' \in Nat
    BY <1>0, <1>4, SMT DEF Send, Gesture
  <2>2. Line(selected, gestures', "me") \in ConvLine
    BY <2>1, LinesTyped
  <2>3. SendMessage(Line(selected, gestures', "me")) \in Requests
    BY <2>2, RequestsTyped
  <2>4. requests' = Append(requests, SendMessage(Line(selected, gestures', "me")))
        /\ view' = Append(view, Line(selected, gestures', "me"))
        /\ UNCHANGED <<toClient, idle, srvVars, loaded, selected>>
    BY <1>4, Zenon DEF Send
  <2>5. Kept(requests, requests')
    BY <1>0, <2>3, <2>4, KeptWhenAdded
  <2> QED BY <2>1, <2>4, <2>5
<1>5. CASE LeaveGroup
  <2>1. selected \in Convs
    BY <1>0, <1>5, SMT DEF LeaveGroup
  <2>2. PICK r \in LeaveOrDelete(selected) : requests' = Append(requests, r)
    BY <1>5 DEF LeaveGroup
  <2>3. Kept(requests, requests')
    BY <1>0, <2>1, <2>2, RequestsTyped, KeptWhenAdded
  <2> QED BY <1>5, <2>3 DEF LeaveGroup
<1>6. CASE EnterGroup
  <2>1. PICK g \in Groups : \E r \in JoinOrCreate(-g) : requests' = Append(requests, r)
    BY <1>6 DEF EnterGroup
  <2>2. PICK r \in JoinOrCreate(-g) : requests' = Append(requests, r)
    BY <2>1
  <2>3. -g \in GroupConvs
    BY Signs
  <2>4. Kept(requests, requests')
    BY <1>0, <2>2, <2>3, RequestsTyped, KeptWhenAdded
  <2> QED BY <1>6, <2>4 DEF EnterGroup
<1>7. CASE LoginAgain
  <2>1. <<Request("logout", 0), Request("login", 0)>> \in Seq(Requests)
    BY RequestsTyped, SMT
  <2>2. Kept(requests, requests')
    BY <1>0, <1>7, <2>1, KeptWhenAdded DEF LoginAgain
  <2> QED BY <1>7, <2>2 DEF LoginAgain
<1> QED BY <1>1, <1>2, <1>3, <1>4, <1>5, <1>6, <1>7 DEF UserNext

\* What is on its way stays so until it is loaded, wherever it is.
LEMMA AnswerStays ==
    ASSUME Kept(toClient, toClient'), NEW c, Answered(c)
    PROVE  AnsweredNext(c)
BY DEF Kept, Answered, AnsweredNext

LEMMA AskedStays ==
    ASSUME Kept(requests, requests'), NEW c, Asked(c)
    PROVE  AskedNext(c)
BY DEF Kept, Asked, AskedNext

LEMMA ToLoadStays ==
    ASSUME Kept(idle, idle'), NEW c, ToLoad(c)
    PROVE  ToLoadNext(c)
BY DEF Kept, ToLoad, ToLoadNext

LEMMA ComingStays ==
    ASSUME Kept(requests, requests'), Kept(toClient, toClient'), Kept(idle, idle'),
           NEW c, Coming(c)
    PROVE  ComingNext(c)
BY AnswerStays, AskedStays, ToLoadStays, Zenon DEF Coming, ComingNext

LEMMA ServerComing ==
    ASSUME HomeTypes, Histories, ServerNext, NEW c \in Convs, store[c] # << >>, Coming(c)
    PROVE  ComingNext(c) /\ UNCHANGED <<idle, uiVars>>
<1>0. /\ requests \in Seq(Requests) /\ toClient \in Seq(Replies) /\ idle \in Seq(Callbacks)
      /\ store \in [Convs -> Seq(ConvLine)] /\ nmsg \in Nat
  BY DEF HomeTypes
<1>1. CASE Serve
  <2> DEFINE r == Head(requests)
  <2>1. /\ requests # << >> /\ requests' = Tail(requests) /\ UNCHANGED <<idle, uiVars>>
        /\ toClient' = toClient \o AnswersTo(r)
    BY <1>1 DEF Serve
  <2>2. r = requests[1] /\ r \in Requests
    BY <1>0, <2>1, TailPlaces
  <2>3. AnswersTo(r) \in Seq(Replies)
    <3>1. << >> \in Seq(Replies) /\ \A a \in Replies : <<a>> \in Seq(Replies)
      BY SMT
    <3> QED BY <2>2, <3>1, AnswersAre, Zenon
  <2>4. Kept(toClient, toClient') /\ Kept(idle, idle')
    BY <1>0, <2>1, <2>3, KeptWhenAdded
  <2>5. CASE Answered(c)
    BY <2>1, <2>4, <2>5, AnswerStays DEF ComingNext
  <2>6. CASE ToLoad(c)
    BY <2>1, <2>4, <2>6, ToLoadStays DEF ComingNext
  <2>7. CASE Asked(c)
    <3>1. PICK i \in DOMAIN requests : requests[i] = GetHistoryMessage(c)
      BY <2>7 DEF Asked
    <3>2. CASE i # 1
      <4>1. i - 1 \in DOMAIN requests' /\ requests'[i - 1] = GetHistoryMessage(c)
        BY <1>0, <2>1, <3>1, <3>2, TailPlaces
      <4> QED BY <2>1, <4>1 DEF ComingNext, AskedNext
    <3>3. CASE i = 1
      <4> DEFINE k == IF c > 0 THEN "users message" ELSE "groups message"
                 a == Answer(k, store[c])
      <4>1. r.kind = "history" /\ r.line.conv = c
        BY <2>2, <3>1, <3>3 DEF GetHistoryMessage, Request, Line
      <4>2. AnswersTo(r) = <<a>>
        BY <4>1, AnswerCases, Zenon
      <4>3. k \in HistoryKinds /\ a.kind = k /\ a.lines = store[c]
        BY DEF HistoryKinds, Answer
      <4>4. store[c][1].conv = c
        <5>1. 1 \in DOMAIN store[c]
          BY <1>0, NonEmptyHasFirst
        <5> QED BY <5>1 DEF Histories, AllOf
      <4> HIDE DEF k, a
      <4>5. <<a>> \in Seq(Replies) /\ 1 \in DOMAIN <<a>> /\ <<a>>[1] = a
        BY <2>3, <4>2, SMT
      <4>6. Len(toClient) + 1 \in DOMAIN toClient' /\ toClient'[Len(toClient) + 1] = a
        BY <1>0, <2>1, <4>2, <4>5, ConcatPlaces
      <4> QED BY <2>1, <4>3, <4>4, <4>6 DEF ComingNext, AnsweredNext
    <3> QED BY <3>2, <3>3
  <2> QED BY <2>5, <2>6, <2>7 DEF Coming
<1>2. ASSUME NEW d \in Convs, Incoming(d)
      PROVE  Kept(toClient, toClient') /\ UNCHANGED <<requests, idle, uiVars>>
  <2> DEFINE k == IF d > 0 THEN "user" ELSE "group"
             line == Line(d, nmsg', "other")
  <2>1. /\ toClient' = IF online THEN Append(toClient, Answer(k, <<line>>)) ELSE toClient
        /\ UNCHANGED <<requests, idle, uiVars>> /\ nmsg' \in Nat
    BY <1>0, <1>2, SMT DEF Incoming, uiVars
  <2>2. <<line>> \in Seq(ConvLine) /\ k \in {"user", "group"}
    BY <2>1, LinesTyped, SMT
  <2>3. Answer(k, <<line>>) \in Replies
    BY <2>2, RepliesTyped
  <2> HIDE DEF k, line
  <2> QED BY <1>0, <2>1, <2>3, KeptWhenAdded
<1>3. ASSUME NEW d \in Convs, OtherLeaves(d)
      PROVE  Kept(toClient, toClient') /\ UNCHANGED <<requests, idle, uiVars>>
  <2> DEFINE a == Answer("leave", <<Line(d, 0, "notice")>>)
  <2>1. toClient' = Append(toClient, a) /\ UNCHANGED <<requests, idle, uiVars>>
    BY <1>3 DEF OtherLeaves
  <2>2. <<Line(d, 0, "notice")>> \in Seq(ConvLine) /\ <<Line(d, 0, "notice")>> # << >>
    BY LinesTyped, SMT
  <2>3. a \in Replies
    BY <2>2, RepliesTyped
  <2> HIDE DEF a
  <2> QED BY <1>0, <2>1, <2>3, KeptWhenAdded
<1>4. ASSUME Kept(toClient, toClient'), UNCHANGED <<requests, idle, uiVars>>
      PROVE  ComingNext(c)
  BY <1>0, <1>4, KeptWhenAdded, ComingStays
<1> QED BY <1>1, <1>2, <1>3, <1>4 DEF ServerNext

LEMMA CollectorComing ==
    ASSUME HomeTypes, Histories, CollectorNext, NEW c \in Convs, Coming(c)
    PROVE  ComingNext(c)
<1> DEFINE a == Head(toClient)
<1>0. /\ toClient \in Seq(Replies) /\ idle \in Seq(Callbacks) /\ requests \in Seq(Requests)
  BY DEF HomeTypes
<1>1. /\ toClient # << >> /\ toClient' = Tail(toClient) /\ requests' = requests
  BY CollectorMakes
<1>2. PICK new : idle' = idle \o new /\ MadeOf(new, a)
  BY CollectorMakes
<1>3. a \in Replies /\ a = toClient[1] /\ new \in Seq(Callbacks)
  BY <1>0, <1>1, <1>2, TailPlaces DEF MadeOf
<1>4. Kept(requests, requests') /\ Kept(idle, idle')
  BY <1>0, <1>1, <1>2, <1>3, KeptWhenAdded
<1>5. CASE Asked(c)
  BY <1>4, <1>5, AskedStays DEF ComingNext
<1>6. CASE ToLoad(c)
  BY <1>4, <1>6, ToLoadStays DEF ComingNext
<1>7. CASE Answered(c)
  <2>1. PICK i \in DOMAIN toClient :
           /\ toClient[i].kind \in HistoryKinds /\ toClient[i].lines # << >>
           /\ toClient[i].lines[1].conv = c
    BY <1>7 DEF Answered
  <2>2. CASE i # 1
    <3>1. i - 1 \in DOMAIN toClient' /\ toClient'[i - 1] = toClient[i]
      BY <1>0, <1>1, <2>1, <2>2, TailPlaces
    <3> QED BY <2>1, <3>1 DEF ComingNext, AnsweredNext
  <2>3. CASE i = 1
    <3> HIDE DEF a
    <3>1. a.kind \in HistoryKinds /\ a.lines # << >> /\ a.lines[1].conv = c
      BY <1>3, <2>1, <2>3
    <3>2. new = <<Callback("load", a.lines)>>
      BY <1>2, <3>1 DEF MadeOf, LoadOf
    <3>3. /\ 1 \in DOMAIN new /\ new[1].run = "load" /\ new[1].lines[1].conv = c
      BY <3>1, <3>2, SMT DEF Callback
    <3>4. Len(idle) + 1 \in DOMAIN idle' /\ idle'[Len(idle) + 1] = new[1]
      BY <1>0, <1>2, <1>3, <3>3, ConcatPlaces
    <3> QED BY <3>3, <3>4 DEF ComingNext, ToLoadNext
  <2> QED BY <2>2, <2>3
<1> QED BY <1>5, <1>6, <1>7 DEF Coming

LEMMA GtkComing ==
    ASSUME HomeTypes, GtkNext, NEW c \in Convs, Coming(c)
    PROVE  ComingNext(c) \/ (RunLoad /\ Head(idle).lines[1].conv = c)
<1>0. /\ toClient \in Seq(Replies) /\ idle \in Seq(Callbacks) /\ requests \in Seq(Requests)
  BY DEF HomeTypes
<1>1. /\ idle # << >> /\ idle' = Tail(idle) /\ toClient' = toClient
      /\ requests' = requests \/ requests' = Append(requests, GetHistory)
      /\ RunLoad \/ Head(idle).run # "load"
  BY DEF GtkNext, RunHome, RunUpdate, RunLoad, RunRemove, RunResults, Run
<1>2. Kept(requests, requests') /\ Kept(toClient, toClient')
  BY <1>0, <1>1, RequestsTyped, KeptWhenAdded
<1>3. CASE Asked(c)
  BY <1>2, <1>3, AskedStays DEF ComingNext
<1>4. CASE Answered(c)
  BY <1>2, <1>4, AnswerStays DEF ComingNext
<1>5. CASE ToLoad(c)
  <2>1. PICK i \in DOMAIN idle : idle[i].run = "load" /\ idle[i].lines[1].conv = c
    BY <1>5 DEF ToLoad
  <2>2. CASE i # 1
    <3>1. i - 1 \in DOMAIN idle' /\ idle'[i - 1] = idle[i]
      BY <1>0, <1>1, <2>1, <2>2, TailPlaces
    <3> QED BY <2>1, <3>1 DEF ComingNext, ToLoadNext
  <2>3. CASE i = 1
    BY <1>0, <1>1, <2>1, <2>3, TailPlaces
  <2> QED BY <2>2, <2>3
<1> QED BY <1>3, <1>4, <1>5 DEF Coming

LEMMA ViewStep ==
    ASSUME HomeTypes, Histories, ViewOrComing, [Next]_vars
    PROVE  ViewOrComing'
<1> DEFINE Good == (selected' # 0 /\ loaded' = selected') =>
                      AllOf(view', selected') \/ ComingNext(selected')
<1>0. /\ selected \in Convs \cup {0} /\ view \in Seq(ConvLine) /\ loaded \in Convs \cup {0}
      /\ requests \in Seq(Requests) /\ toClient \in Seq(Replies) /\ idle \in Seq(Callbacks)
  BY DEF HomeTypes
<1>1. (selected # 0 /\ loaded = selected) => AllOf(view, selected) \/ Coming(selected)
  BY DEF ViewOrComing, Coming
<1>2. (selected # 0 /\ loaded = selected) => selected \in Convs /\ store[selected] # << >>
  BY <1>0 DEF Histories
<1>3. SUFFICES Good
  BY DEF ViewOrComing, ComingNext, AskedNext, AnsweredNext, ToLoadNext, Asked, Answered,
         ToLoad, AllOf
<1>4. \A line \in ConvLine : AllOf(view, selected) /\ line.conv = selected =>
                                AllOf(Append(view, line), selected)
  <2> SUFFICES ASSUME NEW line \in ConvLine, AllOf(view, selected), line.conv = selected
               PROVE  AllOf(Append(view, line), selected)
    OBVIOUS
  <2>1. \A i \in DOMAIN Append(view, line) :
           \/ i \in DOMAIN view /\ Append(view, line)[i] = view[i]
           \/ Append(view, line)[i] = line
    BY <1>0, AppendPlaces
  <2> QED BY <2>1 DEF AllOf
<1>5. CASE UserNext
  <2>1. /\ Kept(requests, requests') /\ UNCHANGED <<toClient, idle, srvVars, loaded>>
        /\ \/ selected' = selected
           \/ selected' \in Convs /\ AskedNext(selected') /\ view' = view
        /\ \/ view' = view
           \/ /\ selected \in Convs /\ selected' = selected
              /\ view' = Append(view, Line(selected, gestures', "me")) /\ gestures' \in Nat
    BY <1>5, UserAdds
  <2>2. CASE selected' \in Convs /\ AskedNext(selected')
    BY <2>2 DEF ComingNext
  <2>3. CASE selected' = selected
    <3> SUFFICES ASSUME selected # 0, loaded = selected
                 PROVE  AllOf(view', selected) \/ ComingNext(selected)
      BY <2>1, <2>3
    <3>1. CASE Coming(selected)
      <4>1. Kept(toClient, toClient') /\ Kept(idle, idle')
        BY <1>0, <2>1, KeptWhenAdded
      <4> QED BY <2>1, <3>1, <4>1, ComingStays
    <3>2. CASE AllOf(view, selected)
      <4>1. CASE view' = view
        BY <3>2, <4>1
      <4>2. CASE /\ selected \in Convs /\ gestures' \in Nat
                 /\ view' = Append(view, Line(selected, gestures', "me"))
        <5>1. /\ Line(selected, gestures', "me") \in ConvLine
              /\ Line(selected, gestures', "me").conv = selected
          BY <4>2, LinesTyped
        <5> QED BY <1>4, <3>2, <4>2, <5>1
      <4> QED BY <2>1, <4>1, <4>2
    <3> QED BY <1>1, <3>1, <3>2
  <2> QED BY <2>1, <2>2, <2>3
<1>6. CASE ServerNext
  <2>1. UNCHANGED <<selected, loaded, view>>
    BY <1>6 DEF ServerNext, Serve, Incoming, OtherLeaves, uiVars
  <2> QED BY <1>1, <1>2, <1>6, <2>1, ServerComing
<1>7. CASE CollectorNext
  <2>1. UNCHANGED <<selected, loaded, view>>
    BY <1>7, CollectorMakes DEF uiVars
  <2> QED BY <1>1, <1>2, <1>7, <2>1, CollectorComing
<1>8. CASE GtkNext
  <2>1. CASE RunHome \/ RunRemove
    BY <2>1, <1>0 DEF RunHome, RunRemove
  <2>2. CASE RunLoad
    <3> DEFINE lines == Head(idle).lines
    <3>1. /\ Head(idle).run = "load" /\ view' = lines /\ loaded' = lines[1].conv
          /\ idle # << >> /\ UNCHANGED selected
      BY <2>2 DEF RunLoad, Run
    <3>2. Head(idle) = idle[1] /\ 1 \in DOMAIN idle /\ 1 \in DOMAIN lines
      BY <3>1, CallbackIs
    <3>3. Filed(lines)
      BY <3>1, <3>2 DEF Histories
    <3>4. AllOf(lines, loaded')
      BY <3>1, <3>2, <3>3 DEF Filed, AllOf
    <3> QED BY <3>1, <3>4
  <2>3. CASE RunUpdate \/ RunResults
    <3>1. UNCHANGED <<selected, loaded>> /\ ~RunLoad
      BY <2>3 DEF RunUpdate, RunResults, RunLoad, Run
    <3> SUFFICES ASSUME selected # 0, loaded = selected
                 PROVE  AllOf(view', selected) \/ ComingNext(selected)
      BY <3>1
    <3>2. CASE Coming(selected)
      BY <1>2, <1>8, <3>1, <3>2, GtkComing
    <3>3. CASE AllOf(view, selected)
      <4>1. CASE RunResults
        BY <3>3, <4>1 DEF RunResults
      <4>2. CASE RunUpdate
        <5> DEFINE line == Head(idle).lines[1]
        <5>1. /\ Head(idle).run = "update" /\ idle # << >>
              /\ view' = IF line.conv = selected THEN Append(view, line) ELSE view
          BY <4>2 DEF RunUpdate, Run
        <5>2. line \in ConvLine
          BY <5>1, CallbackIs
        <5> QED BY <1>4, <3>3, <5>1, <5>2
      <4> QED BY <2>3, <4>1, <4>2
    <3> QED BY <1>1, <3>2, <3>3
  <2> QED BY <1>8, <2>1, <2>2, <2>3 DEF GtkNext
<1>9. CASE EnableClick \/ UNCHANGED vars
  <2>1. UNCHANGED <<selected, loaded, view, requests, toClient, idle>>
    BY <1>9 DEF EnableClick, vars, uiVars
  <2>2. Coming(selected) => ComingNext(selected)
    BY <1>0, <2>1, KeptWhenAdded, ComingStays
  <2> QED BY <1>1, <2>1, <2>2
<1> QED BY <1>5, <1>6, <1>7, <1>8, <1>9 DEF Next

(***************************************************************************)
(* The theorems about the map and the view.                                *)
(***************************************************************************)
HListing == HomeTypes /\ BoxIsMap /\ Histories /\ ViewOrComing

LEMMA ListingInit == ASSUME Init PROVE HListing
<1>1. HomeTypes
  BY HomeTypesInit
<1>2. BoxIsMap
  BY SMT DEF Init, BoxIsMap, ToSet
<1>3. Histories
  <2>1. \A c \in Convs : AllOf(store[c], c)
    BY SMT DEF Init, AllOf
  <2>2. DOMAIN toClient = {} /\ DOMAIN idle = {} /\ loaded = 0
    BY SMT DEF Init
  <2> QED BY <2>1, <2>2 DEF Histories
<1>4. ViewOrComing
  BY DEF Init, ViewOrComing
<1> QED BY <1>1, <1>2, <1>3, <1>4 DEF HListing

LEMMA ListingStep == HListing /\ [Next]_vars => HListing'
BY TypesStep, HistoriesStep, ViewStep DEF HListing

LEMMA ListingInvariant == Spec => []HListing
BY ListingInit, ListingStep, PTL DEF Spec

\* Every variable has its type, for any users, groups and bounds.
THEOREM HomeTypesCorrect == Spec => []TypeOK
<1>1. HListing => TypeOK
  <2> SUFFICES ASSUME HomeTypes PROVE TypeOK
    BY DEF HListing
  <2>1. \A s \in Seq(ConvLine) : s \in Seq(LineType)
    BY LinesTyped, SeqOfMore
  <2>2. view \in Seq(LineType) /\ store \in [Convs -> Seq(LineType)]
    BY <2>1 DEF HomeTypes
  <2>3. \A i \in DOMAIN requests : requests[i].line \in LineType
    <3> SUFFICES ASSUME NEW i \in DOMAIN requests PROVE requests[i].line \in LineType
      OBVIOUS
    <3>1. requests[i] \in Requests
      BY SMT DEF HomeTypes
    <3> QED BY <3>1 DEF Requests
  <2>4. \A i \in DOMAIN toClient : toClient[i].lines \in Seq(LineType)
    <3> SUFFICES ASSUME NEW i \in DOMAIN toClient PROVE toClient[i].lines \in Seq(LineType)
      OBVIOUS
    <3>1. toClient[i] \in Replies
      BY SMT DEF HomeTypes
    <3> QED BY <2>1, <3>1 DEF Replies
  <2>5. \A i \in DOMAIN idle : idle[i].lines \in Seq(LineType)
    <3> SUFFICES ASSUME NEW i \in DOMAIN idle PROVE idle[i].lines \in Seq(LineType)
      OBVIOUS
    <3>1. idle[i] \in Callbacks
      BY SMT DEF HomeTypes
    <3> QED BY <2>1, <3>1 DEF Callbacks
  <2>6. members \subseteq Convs
    BY Signs DEF HomeTypes
  <2> QED BY <2>2, <2>3, <2>4, <2>5, <2>6 DEF HomeTypes, TypeOK
<1> QED BY <1>1, ListingInvariant, PTL

\* contact_map finds exactly the widgets of contacts_box, each listed once
\* (ui_home.c:296-376, 449-472, 636-643), however many contacts come and go.
THEOREM MapAndBoxAgree == Spec => []MapMatchesBox
<1>1. HListing => MapMatchesBox
  <2> SUFFICES ASSUME HomeTypes, BoxIsMap PROVE Len(box) = Cardinality(map)
    BY DEF HListing, MapMatchesBox, BoxIsMap
  <2>1. Len(box) \in Nat /\ DOMAIN box = 1 .. Len(box)
    BY SMT DEF HomeTypes
  <2>2. \A i \in 1 .. Len(box) : box[i] \in map
    BY <2>1 DEF BoxIsMap, ToSet
  <2>3. \A c \in map : \E i \in 1 .. Len(box) : box[i] = c
    BY <2>1 DEF BoxIsMap, ToSet
  <2>4. \A i, j \in 1 .. Len(box) : box[i] = box[j] => i = j
    BY <2>1 DEF BoxIsMap
  <2> DEFINE f == [i \in 1 .. Len(box) |-> box[i]]
  <2>5. f \in [1 .. Len(box) -> map]
    BY <2>2
  <2>6. ExistsBijection(1 .. Len(box), map)
    <3>1. f \in Injection(1 .. Len(box), map)
      BY <2>4, <2>5 DEF Injection, IsInjective
    <3>2. f \in Surjection(1 .. Len(box), map)
      BY <2>3, <2>5 DEF Surjection
    <3>3. f \in Bijection(1 .. Len(box), map)
      BY <3>1, <3>2 DEF Bijection
    <3> QED BY <3>3 DEF ExistsBijection
  <2> QED BY <2>1, <2>6, FS_CountingElements
<1> QED BY <1>1, ListingInvariant, PTL

\* Once its history is here the view shows no other conversation's lines
\* (ui_home.c:113-142, 226-262, 659-676), whatever the clicks, loads and
\* pushes before it.
THEOREM ViewSettles == Spec => []OneConversation
<1>1. HListing => OneConversation
  <2> SUFFICES ASSUME ViewOrComing, HistoryHere
               PROVE  \A i \in DOMAIN view : view[i].conv = selected
    BY DEF HListing, OneConversation
  <2>1. ~Asked(selected)
    <3>1. GetHistoryMessage(selected).kind = "history"
      BY DEF GetHistoryMessage, Request
    <3> QED BY <3>1, Zenon DEF HistoryHere, Asked
  <2>2. ~Answered(selected)
    BY DEF HistoryHere, Answered, HistoryKinds
  <2>3. ~ToLoad(selected)
    BY DEF HistoryHere, ToLoad
  <2>4. selected # 0 /\ loaded = selected
    BY DEF HistoryHere
  <2> QED BY <2>1, <2>2, <2>3, <2>4 DEF ViewOrComing, AllOf
<1> QED BY <1>1, ListingInvariant, PTL

(***************************************************************************)
(* What lists a contact comes last.                                        *)
(***************************************************************************)

\* An answer behind the others neither loses what lists a contact nor, unless
\* it removes it, its place.
LEMMA AddKeptByAnswer ==
    ASSUME NEW runs \in Seq(Callbacks), NEW replies \in Seq(Replies), NEW new \in Seq(Replies),
           NEW c
    PROVE  /\ AddIn(runs, replies, c) => AddIn(runs, replies \o new, c)
           /\ LastAdds(runs, replies, c) /\ (\A i \in DOMAIN new : ~ReplyRemoves(new[i], c)) =>
                 LastAdds(runs, replies \o new, c)
           /\ \A a \in Replies : new = <<a>> /\ ReplyAdds(a, c) =>
                 AddIn(runs, replies \o new, c) /\ LastAdds(runs, replies \o new, c)
<1> DEFINE all == replies \o new
<1>1. /\ \A i \in DOMAIN replies : i \in DOMAIN all /\ all[i] = replies[i]
      /\ \A i \in DOMAIN new : Len(replies) + i \in DOMAIN all /\ all[Len(replies) + i] = new[i]
      /\ \A i \in DOMAIN all :
            \/ i \in DOMAIN replies /\ all[i] = replies[i]
            \/ i \notin DOMAIN replies /\ i > Len(replies) /\ i - Len(replies) \in DOMAIN new
               /\ all[i] = new[i - Len(replies)]
  BY ConcatPlaces
<1>2. \A i \in DOMAIN replies : i \in Nat /\ i < Len(replies) + 1
  BY SMT
<1> HIDE DEF all
<1>3. AddIn(runs, replies, c) => AddIn(runs, all, c)
  BY <1>1 DEF AddIn
<1>4. ASSUME LastAdds(runs, replies, c), \A i \in DOMAIN new : ~ReplyRemoves(new[i], c)
      PROVE  LastAdds(runs, all, c)
  <2>1. ASSUME NEW i \in DOMAIN runs, RunRemoves(runs[i], c)
        PROVE  \/ \E j \in DOMAIN runs : j > i /\ RunAdds(runs[j], c)
               \/ \E j \in DOMAIN all : ReplyAdds(all[j], c)
    BY <1>1, <1>4, <2>1, Zenon DEF LastAdds
  <2>2. ASSUME NEW i \in DOMAIN all, ReplyRemoves(all[i], c)
        PROVE  \E j \in DOMAIN all : j > i /\ ReplyAdds(all[j], c)
    <3>1. i \in DOMAIN replies /\ ReplyRemoves(replies[i], c)
      BY <1>1, <1>4, <2>2
    <3> QED BY <1>1, <1>4, <3>1, Zenon DEF LastAdds
  <2> QED BY <2>1, <2>2, Zenon DEF LastAdds
<1>5. ASSUME NEW a \in Replies, new = <<a>>, ReplyAdds(a, c)
      PROVE  AddIn(runs, all, c) /\ LastAdds(runs, all, c)
  <2>1. 1 \in DOMAIN new /\ new[1] = a /\ \A i \in DOMAIN new : i = 1
    BY <1>5, SMT
  <2>2. Len(replies) + 1 \in DOMAIN all /\ all[Len(replies) + 1] = a
    BY <1>1, <2>1
  <2>3. ~ReplyRemoves(a, c)
    BY <1>5, KindsExclude DEF ReplyRemoves, ReplyAdds
  <2>4. ASSUME NEW i \in DOMAIN all, ReplyRemoves(all[i], c)
        PROVE  i < Len(replies) + 1
    <3>1. i \in DOMAIN replies
      BY <1>1, <2>1, <2>3, <2>4
    <3> QED BY <1>2, <3>1
  <2>5. AddIn(runs, all, c)
    BY <1>5, <2>2 DEF AddIn
  <2>6. \A i \in DOMAIN all : ReplyRemoves(all[i], c) => Len(replies) + 1 > i
    BY <2>4, <1>1, <1>2, SMT
  <2> QED BY <1>5, <2>2, <2>5, <2>6, Zenon DEF LastAdds
<1> QED BY <1>3, <1>4, <1>5, Zenon DEF all

\* The collector turns the first answer into callbacks behind the others.
LEMMA AddKeptByCollector ==
    ASSUME NEW runs \in Seq(Callbacks), NEW replies \in Seq(Replies), replies # << >>,
           NEW new, MadeOf(new, Head(replies)), NEW c
    PROVE  /\ AddIn(runs, replies, c) => AddIn(runs \o new, Tail(replies), c)
           /\ LastAdds(runs, replies, c) => LastAdds(runs \o new, Tail(replies), c)
<1> DEFINE all == runs \o new
           rest == Tail(replies)
           a == Head(replies)
<1>1. /\ a = replies[1] /\ 1 \in DOMAIN replies /\ a \in Replies /\ rest \in Seq(Replies)
      /\ \A i \in DOMAIN replies : i \in Nat /\ i >= 1
      /\ \A i \in DOMAIN replies : i # 1 => i - 1 \in DOMAIN rest /\ rest[i - 1] = replies[i]
      /\ \A i \in DOMAIN rest : i \in Nat /\ i + 1 \in DOMAIN replies /\ rest[i] = replies[i + 1]
  BY TailPlaces
<1>2. new \in Seq(Callbacks)
  BY DEF MadeOf
<1>3. /\ \A i \in DOMAIN runs : i \in DOMAIN all /\ all[i] = runs[i]
      /\ \A i \in DOMAIN new : Len(runs) + i \in DOMAIN all /\ all[Len(runs) + i] = new[i]
      /\ \A i \in DOMAIN all :
            \/ i \in DOMAIN runs /\ all[i] = runs[i]
            \/ i \notin DOMAIN runs /\ i > Len(runs) /\ i - Len(runs) \in DOMAIN new
               /\ all[i] = new[i - Len(runs)]
  BY <1>2, ConcatPlaces
<1>4. /\ \A i \in DOMAIN runs : i \in Nat /\ i <= Len(runs)
      /\ \A i \in DOMAIN new : i \in Nat /\ i >= 1
      /\ \A i \in DOMAIN all : i \in Nat
      /\ Len(runs) \in Nat
  <2>1. all \in Seq(Callbacks)
    BY <1>2, ConcatTyped
  <2> HIDE DEF all
  <2> QED BY <1>2, <2>1, SMT
<1>5. MadeOf(new, a)
  OBVIOUS
<1> HIDE DEF all, rest, a
<1>6. ASSUME ReplyAdds(a, c)
      PROVE  \E k \in DOMAIN new : RunAdds(new[k], c)
  <2>1. PICK k \in DOMAIN a.lines : a.lines[k].conv = c
    BY <1>6 DEF ReplyAdds
  <2>2. new = Updates(a.lines) /\ a.lines \in Seq(ConvLine)
    BY <1>1, <1>5, <1>6 DEF ReplyAdds, MadeOf, Replies
  <2>3. k \in DOMAIN new /\ new[k].run = "update" /\ new[k].lines[1] = a.lines[k]
    BY <2>1, <2>2, UpdatesTyped, Zenon
  <2> QED BY <2>1, <2>3 DEF RunAdds
<1>7. ASSUME NEW j \in DOMAIN replies, ReplyAdds(replies[j], c)
      PROVE  \/ \E k \in DOMAIN all : k > Len(runs) /\ RunAdds(all[k], c)
             \/ j - 1 \in DOMAIN rest /\ ReplyAdds(rest[j - 1], c)
  <2>1. CASE j # 1
    BY <1>1, <1>7, <2>1
  <2>2. CASE j = 1
    <3>1. PICK k \in DOMAIN new : RunAdds(new[k], c)
      BY <1>1, <1>6, <1>7, <2>2
    <3>2. Len(runs) + k \in DOMAIN all /\ RunAdds(all[Len(runs) + k], c)
      BY <1>3, <3>1
    <3>3. Len(runs) + k > Len(runs)
      BY <1>4, <3>1
    <3> QED BY <3>2, <3>3
  <2> QED BY <2>1, <2>2
<1>8. AddIn(runs, replies, c) => AddIn(all, rest, c)
  BY <1>3, <1>7, Zenon DEF AddIn
<1>9. ASSUME LastAdds(runs, replies, c) PROVE LastAdds(all, rest, c)
  <2>1. ASSUME NEW i \in DOMAIN all, RunRemoves(all[i], c)
        PROVE  \/ \E j \in DOMAIN all : j > i /\ RunAdds(all[j], c)
               \/ \E j \in DOMAIN rest : ReplyAdds(rest[j], c)
    <3>1. CASE i \in DOMAIN runs
      <4>1. RunRemoves(runs[i], c)
        BY <1>3, <2>1, <3>1
      <4>2. CASE \E j \in DOMAIN runs : j > i /\ RunAdds(runs[j], c)
        BY <1>3, <4>2
      <4>3. CASE \E j \in DOMAIN replies : ReplyAdds(replies[j], c)
        <5>1. \/ \E k \in DOMAIN all : k > Len(runs) /\ RunAdds(all[k], c)
              \/ \E j \in DOMAIN rest : ReplyAdds(rest[j], c)
          BY <1>7, <4>3
        <5>2. \A k : k \in DOMAIN all /\ k > Len(runs) => k > i
          BY <1>3, <1>4, <3>1
        <5> QED BY <5>1, <5>2
      <4> QED BY <1>9, <3>1, <4>1, <4>2, <4>3 DEF LastAdds
    <3>2. CASE i \notin DOMAIN runs
      <4>1. i - Len(runs) \in DOMAIN new /\ all[i] = new[i - Len(runs)]
        BY <1>3, <3>2
      <4>2. /\ RunRemoves(new[i - Len(runs)], c)
            /\ new[i - Len(runs)].run = "remove"
        BY <2>1, <4>1 DEF RunRemoves
      <4>3. Removing(a) /\ new[i - Len(runs)].lines = a.lines
        BY <1>1, <1>5, <4>1, <4>2, MadeRuns
      <4>4. ReplyRemoves(replies[1], c)
        BY <1>1, <4>2, <4>3 DEF ReplyRemoves, RunRemoves
      <4>5. PICK j \in DOMAIN replies : j > 1 /\ ReplyAdds(replies[j], c)
        BY <1>1, <1>9, <4>4 DEF LastAdds
      <4>6. j - 1 \in DOMAIN rest /\ rest[j - 1] = replies[j]
        BY <1>1, <4>5
      <4> QED BY <4>5, <4>6
    <3> QED BY <3>1, <3>2
  <2>2. ASSUME NEW i \in DOMAIN rest, ReplyRemoves(rest[i], c)
        PROVE  \E j \in DOMAIN rest : j > i /\ ReplyAdds(rest[j], c)
    <3>1. i + 1 \in DOMAIN replies /\ ReplyRemoves(replies[i + 1], c) /\ i \in Nat
      BY <1>1, <2>2
    <3>2. PICK j \in DOMAIN replies : j > i + 1 /\ ReplyAdds(replies[j], c)
      BY <1>9, <3>1 DEF LastAdds
    <3>3. j \in Nat /\ j # 1 /\ j - 1 > i
      BY <1>1, <3>1, <3>2
    <3> QED BY <1>1, <3>2, <3>3
  <2> QED BY <2>1, <2>2, Zenon DEF LastAdds
<1> QED BY <1>8, <1>9 DEF all, rest

\* The main loop takes the first callback; what it removes is listed again.
LEMMA AddKeptByRun ==
    ASSUME NEW runs \in Seq(Callbacks), runs # << >>, NEW replies \in Seq(Replies), NEW c
    PROVE  /\ AddIn(runs, replies, c) =>
                 RunAdds(Head(runs), c) \/ AddIn(Tail(runs), replies, c)
           /\ LastAdds(runs, replies, c) => LastAdds(Tail(runs), replies, c)
           /\ LastAdds(runs, replies, c) /\ RunRemoves(Head(runs), c) =>
                 AddIn(Tail(runs), replies, c)
<1> DEFINE rest == Tail(runs)
           b == Head(runs)
<1>1. /\ b = runs[1] /\ 1 \in DOMAIN runs
      /\ \A i \in DOMAIN runs : i \in Nat /\ i >= 1
      /\ \A i \in DOMAIN runs : i # 1 => i - 1 \in DOMAIN rest /\ rest[i - 1] = runs[i]
      /\ \A i \in DOMAIN rest : i \in Nat /\ i + 1 \in DOMAIN runs /\ rest[i] = runs[i + 1]
  BY TailPlaces
<1> HIDE DEF rest, b
<1>2. AddIn(runs, replies, c) => RunAdds(b, c) \/ AddIn(rest, replies, c)
  BY <1>1 DEF AddIn
<1>3. ASSUME NEW i \in DOMAIN runs, NEW j \in DOMAIN runs, j > i, RunAdds(runs[j], c)
      PROVE  /\ j - 1 \in DOMAIN rest /\ RunAdds(rest[j - 1], c) /\ j - 1 >= i
  <2>1. j \in Nat /\ i \in Nat /\ i >= 1 /\ j # 1
    BY <1>1, <1>3
  <2> QED BY <1>1, <1>3, <2>1
<1>4. ASSUME LastAdds(runs, replies, c), RunRemoves(b, c) PROVE AddIn(rest, replies, c)
  <2>1. \/ \E j \in DOMAIN runs : j > 1 /\ RunAdds(runs[j], c)
        \/ \E j \in DOMAIN replies : ReplyAdds(replies[j], c)
    BY <1>1, <1>4 DEF LastAdds
  <2> QED BY <1>1, <1>3, <2>1 DEF AddIn
<1>5. ASSUME LastAdds(runs, replies, c) PROVE LastAdds(rest, replies, c)
  <2>1. ASSUME NEW i \in DOMAIN rest, RunRemoves(rest[i], c)
        PROVE  \/ \E j \in DOMAIN rest : j > i /\ RunAdds(rest[j], c)
               \/ \E j \in DOMAIN replies : ReplyAdds(replies[j], c)
    <3>1. i + 1 \in DOMAIN runs /\ RunRemoves(runs[i + 1], c) /\ i \in Nat
      BY <1>1, <2>1
    <3>2. CASE \E j \in DOMAIN runs : j > i + 1 /\ RunAdds(runs[j], c)
      <4>1. PICK j \in DOMAIN runs : j > i + 1 /\ RunAdds(runs[j], c)
        BY <3>2
      <4>2. j - 1 \in DOMAIN rest /\ RunAdds(rest[j - 1], c)
        BY <1>3, <3>1, <4>1
      <4>3. j - 1 > i
        BY <1>1, <3>1, <4>1
      <4> QED BY <4>2, <4>3
    <3> QED BY <1>5, <3>1, <3>2 DEF LastAdds
  <2> QED BY <1>5, <2>1, Zenon DEF LastAdds
<1> QED BY <1>2, <1>4, <1>5 DEF rest, b

(***************************************************************************)
(* One login at a time.                                                    *)
(***************************************************************************)

\* What the user's gestures ask for, but to log in again: no login, no chats,
\* and a message, of his own, is sent to a contact that is listed.
Sent(r) ==
    /\ r.line.from = "me"
    /\ \/ r.kind \notin {"login", "logout", "chats", "send"}
       \/ r.kind = "send" /\ r.line.conv \in map'
AllSent == \A i \in DOMAIN requests' :
              (i \in DOMAIN requests /\ requests'[i] = requests[i]) \/ Sent(requests'[i])

LEMMA GesturesSent ==
    /\ Sent(SearchUsers)
    /\ \A c : Sent(GetHistoryMessage(c))
    /\ \A c : \A r \in LeaveOrDelete(c) \cup JoinOrCreate(c) : Sent(r)
<1>1. \A k \in {"search", "history", "leave", "delete", "join", "create"} : \A c : Sent(Request(k, c))
  <2>1. \A k \in {"search", "history", "leave", "delete", "join", "create"} :
           k \notin {"login", "logout", "chats", "send"}
    BY SMT
  <2>2. \A k, c : Request(k, c).kind = k /\ Request(k, c).line.from = "me"
    BY DEF Request, Line
  <2> QED BY <2>1, <2>2, Zenon DEF Sent
<1> QED BY <1>1 DEF SearchUsers, GetHistoryMessage, LeaveOrDelete, JoinOrCreate

LEMMA AllSentAppend ==
    ASSUME requests \in Seq(Requests), NEW r \in Requests, requests' = Append(requests, r), Sent(r)
    PROVE  AllSent
BY AppendPlaces DEF AllSent

LEMMA AllSentConcat ==
    ASSUME requests \in Seq(Requests), NEW q \in Seq(Requests), requests' = requests \o q,
           \A i \in DOMAIN q : Sent(q[i])
    PROVE  AllSent
BY ConcatPlaces DEF AllSent

LEMMA ClickSent ==
    ASSUME requests \in Seq(Requests), NEW c \in Convs, NEW q \in Seq(Requests),
           \A i \in DOMAIN q : Sent(q[i]), Click(c, q)
    PROVE  AllSent
<1>1. GetHistoryMessage(c) \in Requests
  BY RequestsTyped
<1>2. CASE requests' = requests \o q
  BY <1>2, AllSentConcat
<1>3. CASE requests' = requests \o q \o <<GetHistoryMessage(c)>>
  <2> DEFINE h == GetHistoryMessage(c)
             t == Append(q, h)
  <2>1. t \in Seq(Requests)
    BY <1>1, AppendTyped
  <2>2. requests' = requests \o t
    <3> HIDE DEF h
    <3> QED BY <1>1, <1>3, SMT DEF h
  <2>3. \A i \in DOMAIN t : (i \in DOMAIN q /\ t[i] = q[i]) \/ t[i] = h
    BY <1>1, AppendPlaces
  <2>4. Sent(h)
    BY GesturesSent
  <2> HIDE DEF t, h
  <2>5. \A i \in DOMAIN t : Sent(t[i])
    BY <2>3, <2>4, Zenon
  <2> QED BY <2>1, <2>2, <2>5, AllSentConcat
<1> QED BY <1>2, <1>3 DEF Click

LEMMA UserSends ==
    ASSUME HomeTypes, BoxIsMap, UserNext
    PROVE  /\ shown /\ map \subseteq map' /\ UNCHANGED <<toClient, idle, online, members, store>>
           /\ LoginAgain \/ (shown' = shown /\ AllSent)
<1> USE DEF srvVars, uiVars
<1>0. /\ requests \in Seq(Requests) /\ selected \in Convs \cup {0} /\ gestures \in Nat
  BY DEF HomeTypes
<1>1. ASSUME NEW c \in Convs, ClickContact(c)
      PROVE  shown /\ UNCHANGED <<shown, map, toClient, idle, online, members, store>> /\ AllSent
  <2>1. << >> \in Seq(Requests) /\ \A i \in DOMAIN << >> : Sent(<< >>[i])
    BY SMT
  <2> QED BY <1>0, <1>1, <2>1, ClickSent DEF ClickContact, Gesture
<1>2. ASSUME NEW p \in Peers, ClickSearchItem(p)
      PROVE  /\ shown /\ UNCHANGED <<shown, toClient, idle, online, members, store>> /\ AllSent
             /\ map \subseteq map'
  <2>1. SearchUsers \in Requests /\ p \in Convs
    BY RequestsTyped, Signs
  <2>2. PICK q \in {<< >>, <<SearchUsers>>} : Click(p, q)
    BY <1>2 DEF ClickSearchItem
  <2>3. q \in Seq(Requests) /\ \A i \in DOMAIN q : q[i] = SearchUsers
    <3>1. CASE q = << >>
      BY <3>1, SMT
    <3>2. CASE q = <<SearchUsers>>
      BY <2>1, <3>2, SMT
    <3> QED BY <3>1, <3>2
  <2>4. \A i \in DOMAIN q : Sent(q[i])
    BY <2>3, GesturesSent
  <2>5. AllSent
    BY <1>0, <2>1, <2>2, <2>3, <2>4, ClickSent
  <2> QED BY <1>2, <2>5 DEF ClickSearchItem, Gesture
<1>3. CASE TypeSearch
  <2>1. AllSent
    BY <1>0, <1>3, RequestsTyped, GesturesSent, AllSentAppend DEF TypeSearch
  <2> QED BY <1>3, <2>1 DEF TypeSearch, Gesture
<1>4. CASE Send
  <2> DEFINE line == Line(selected, gestures', "me")
  <2>1. selected \in Convs /\ gestures' \in Nat
    BY <1>0, <1>4, SMT DEF Send, Gesture
  <2>2. line \in ConvLine /\ line.conv = selected /\ line.from = "me"
    BY <2>1, LinesTyped
  <2>3. SendMessage(line) \in Requests
    BY <2>2, RequestsTyped
  <2>4. /\ requests' = Append(requests, SendMessage(line)) /\ UpdateContact(line)
        /\ shown /\ UNCHANGED <<shown, toClient, idle, online, members, store>>
    BY <1>4, Zenon DEF Send, Gesture
  <2> HIDE DEF line
  <2>5. map' = map \cup {selected}
    BY <2>2, <2>4, ContactUpdated
  <2>6. Sent(SendMessage(line))
    BY <2>2, <2>5 DEF Sent, SendMessage
  <2>7. AllSent
    BY <1>0, <2>3, <2>4, <2>6, AllSentAppend
  <2> QED BY <2>4, <2>5, <2>7
<1>5. CASE LeaveGroup
  <2>1. selected \in Convs
    BY <1>0, <1>5, SMT DEF LeaveGroup
  <2>2. PICK r \in LeaveOrDelete(selected) : requests' = Append(requests, r)
    BY <1>5 DEF LeaveGroup
  <2>3. r \in Requests /\ Sent(r)
    BY <2>1, <2>2, RequestsTyped, GesturesSent
  <2>4. AllSent
    BY <1>0, <2>2, <2>3, AllSentAppend
  <2> QED BY <1>5, <2>4 DEF LeaveGroup, Gesture
<1>6. CASE EnterGroup
  <2>1. PICK g \in Groups : \E r \in JoinOrCreate(-g) : requests' = Append(requests, r)
    BY <1>6 DEF EnterGroup
  <2>2. PICK r \in JoinOrCreate(-g) : requests' = Append(requests, r)
    BY <2>1
  <2>3. -g \in GroupConvs
    BY Signs
  <2>4. r \in Requests /\ Sent(r)
    BY <2>2, <2>3, RequestsTyped, GesturesSent
  <2>5. AllSent
    BY <1>0, <2>2, <2>4, AllSentAppend
  <2> QED BY <1>6, <2>5 DEF EnterGroup, Gesture
<1>7. CASE LoginAgain
  BY <1>7 DEF LoginAgain, Gesture
<1> QED BY <1>1, <1>2, <1>3, <1>4, <1>5, <1>6, <1>7 DEF UserNext

LEMMA OneLoginUser ==
    ASSUME HomeTypes, BoxIsMap, OneLogin, UserNext
    PROVE  OneLogin'
<1>0. requests \in Seq(Requests)
  BY DEF HomeTypes
<1>1. /\ shown /\ UNCHANGED <<toClient, idle, online>>
      /\ LoginAgain \/ (shown' = shown /\ AllSent)
  BY UserSends
<1>2. /\ ~LoginAsked /\ ~LoginAnswered /\ ~HomeComing /\ online
      /\ \A i \in DOMAIN requests : requests[i].kind # "logout"
  BY <1>1 DEF OneLogin
<1>3. ~LoginAnswered' /\ ~HomeComing' /\ online'
  BY <1>1, <1>2 DEF LoginAnswered, HomeComing
<1>4. CASE LoginAgain
  <2> DEFINE t == <<Request("logout", 0), Request("login", 0)>>
             n == Len(requests)
  <2>1. requests' = requests \o t /\ ~shown'
    BY <1>4 DEF LoginAgain
  <2>2. /\ t \in Seq(Requests) /\ DOMAIN t = {1, 2} /\ t[1].kind = "logout" /\ t[2].kind = "login"
        /\ n \in Nat /\ \A i \in DOMAIN requests : i \in Nat /\ i <= n
    BY <1>0, RequestsTyped, SMT DEF Request
  <2>3. /\ \A i \in DOMAIN t : n + i \in DOMAIN requests' /\ requests'[n + i] = t[i]
        /\ \A i \in DOMAIN requests' :
              \/ i \in DOMAIN requests /\ requests'[i] = requests[i]
              \/ i > n /\ i - n \in DOMAIN t /\ requests'[i] = t[i - n]
    <3> HIDE DEF t
    <3> QED BY <1>0, <2>1, <2>2, ConcatPlaces, SMTT(30)
  <2>4. \A i \in DOMAIN requests' : i \in Nat
    <3> HIDE DEF t
    <3>1. requests' \in Seq(Requests)
      BY <1>0, <2>1, <2>2, ConcatTyped
    <3> QED BY <3>1, SMT
  <2> HIDE DEF t, n
  <2>5. n + 2 \in DOMAIN requests' /\ requests'[n + 2].kind = "login"
    BY <2>2, <2>3
  <2>6. \A i \in DOMAIN requests' : i <= n + 2 /\ (requests'[i].kind = "login" => i = n + 2)
    <3> SUFFICES ASSUME NEW i \in DOMAIN requests'
                 PROVE  i <= n + 2 /\ (requests'[i].kind = "login" => i = n + 2)
      OBVIOUS
    <3>1. CASE i \in DOMAIN requests /\ requests'[i] = requests[i]
      <4>1. requests[i].kind # "login"
        BY <1>2, <3>1 DEF LoginAsked
      <4> QED BY <2>2, <3>1, <4>1
    <3>2. CASE i > n /\ i - n \in DOMAIN t /\ requests'[i] = t[i - n]
      <4>1. i - n = 1 \/ i - n = 2
        BY <2>2, <3>2
      <4>2. i - n = 1 => requests'[i].kind # "login"
        BY <2>2, <3>2, SMT
      <4> QED BY <2>2, <2>4, <4>1, <4>2, SMT
    <3> QED BY <2>3, <3>1, <3>2
  <2>7. LoginAsked'
    BY <2>5 DEF LoginAsked
  <2>8. \A i, j \in DOMAIN requests' : requests'[i].kind = "login" =>
           j <= i /\ (requests'[j].kind = "login" => j = i)
    BY <2>6
  <2> QED BY <1>3, <2>1, <2>7, <2>8, Zenon DEF OneLogin, LoginAnswered, HomeComing
<1>5. CASE shown' = shown /\ AllSent
  <2>1. \A i \in DOMAIN requests' : requests'[i].kind # "login" /\ requests'[i].kind # "logout"
    <3> SUFFICES ASSUME NEW i \in DOMAIN requests'
                 PROVE  requests'[i].kind # "login" /\ requests'[i].kind # "logout"
      OBVIOUS
    <3>1. CASE i \in DOMAIN requests /\ requests'[i] = requests[i]
      BY <1>2, <3>1 DEF LoginAsked
    <3>2. CASE Sent(requests'[i])
      BY <3>2, SMT DEF Sent
    <3> QED BY <1>5, <3>1, <3>2 DEF AllSent
  <2>2. ~LoginAsked'
    BY <2>1 DEF LoginAsked
  <2> QED BY <1>1, <1>3, <1>5, <2>1, <2>2, Zenon DEF OneLogin, LoginAnswered, HomeComing
<1> QED BY <1>1, <1>4, <1>5

\* Where answers and callbacks are the old ones, but for no login.
LEMMA OneLoginAnswered ==
    ASSUME OneLogin, UNCHANGED <<shown, requests, online, idle>>,
           \A i \in DOMAIN toClient' :
              \/ i \in DOMAIN toClient /\ toClient'[i] = toClient[i]
              \/ toClient'[i].kind # "login"
    PROVE  OneLogin'
<1>1. LoginAnswered' => LoginAnswered
  BY DEF LoginAnswered
<1>2. \A i, j \in DOMAIN toClient' :
         toClient'[i].kind = "login" /\ toClient'[j].kind = "login" => i = j
  BY DEF OneLogin
<1>3. (LoginAsked' <=> LoginAsked) /\ (HomeComing' <=> HomeComing)
  BY DEF LoginAsked, HomeComing
<1> HIDE DEF LoginAsked, LoginAnswered, HomeComing
<1> QED BY <1>1, <1>2, <1>3 DEF OneLogin

LEMMA OneLoginServer ==
    ASSUME HomeTypes, Histories, OneLogin, ServerNext
    PROVE  OneLogin'
<1>0. requests \in Seq(Requests) /\ toClient \in Seq(Replies) /\ nmsg \in Nat
  BY DEF HomeTypes
<1>1. ASSUME NEW a \in Replies, a.kind # "login", UNCHANGED <<shown, requests, online, idle>>,
             toClient' = Append(toClient, a) \/ toClient' = toClient
      PROVE  OneLogin'
  <2>1. \A i \in DOMAIN toClient' :
           (i \in DOMAIN toClient /\ toClient'[i] = toClient[i]) \/ toClient'[i].kind # "login"
    BY <1>0, <1>1, AppendPlaces
  <2> QED BY <1>1, <2>1, OneLoginAnswered
<1>2. ASSUME NEW c \in Convs, Incoming(c) PROVE OneLogin'
  <2> DEFINE k == IF c > 0 THEN "user" ELSE "group"
             line == Line(c, nmsg', "other")
  <2>1. /\ toClient' = IF online THEN Append(toClient, Answer(k, <<line>>)) ELSE toClient
        /\ UNCHANGED <<shown, requests, online, idle>> /\ nmsg' \in Nat
    BY <1>0, <1>2, SMT DEF Incoming, uiVars
  <2>2. <<line>> \in Seq(ConvLine) /\ k \in {"user", "group"}
    BY <2>1, LinesTyped, SMT
  <2>3. Answer(k, <<line>>) \in Replies /\ Answer(k, <<line>>).kind = k
    BY <2>2, RepliesTyped DEF Answer
  <2>4. k # "login"
    OBVIOUS
  <2> HIDE DEF k, line
  <2> QED BY <1>1, <2>1, <2>3, <2>4
<1>3. ASSUME NEW c \in Convs, OtherLeaves(c) PROVE OneLogin'
  <2> DEFINE a == Answer("leave", <<Line(c, 0, "notice")>>)
  <2>1. toClient' = Append(toClient, a) /\ UNCHANGED <<shown, requests, online, idle>>
    BY <1>3 DEF OtherLeaves, uiVars
  <2>2. <<Line(c, 0, "notice")>> \in Seq(ConvLine) /\ <<Line(c, 0, "notice")>> # << >>
    BY LinesTyped, SMT
  <2>3. a \in Replies /\ a.kind = "leave"
    BY <2>2, RepliesTyped DEF Answer
  <2> HIDE DEF a
  <2> QED BY <1>1, <2>1, <2>3
<1>4. CASE Serve
  <2> DEFINE r == Head(requests)
  <2>1. /\ requests # << >> /\ requests' = Tail(requests) /\ toClient' = toClient \o AnswersTo(r)
        /\ UNCHANGED <<shown, idle>>
        /\ online' = CASE r.kind = "login" -> TRUE [] r.kind = "logout" -> FALSE [] OTHER -> online
    BY <1>4 DEF Serve, uiVars
  <2>2. /\ r = requests[1] /\ 1 \in DOMAIN requests /\ r \in Requests
        /\ \A i \in DOMAIN requests : i \in Nat /\ i >= 1
        /\ \A i \in DOMAIN requests : i # 1 =>
              i - 1 \in DOMAIN requests' /\ requests'[i - 1] = requests[i]
        /\ \A i \in DOMAIN requests' : /\ i \in Nat /\ i >= 1 /\ i + 1 \in DOMAIN requests
                                       /\ requests'[i] = requests[i + 1]
    BY <1>0, <2>1, TailPlaces
  <2>3. AnswersTo(r) \in Seq(Replies)
    <3>1. << >> \in Seq(Replies) /\ \A a \in Replies : <<a>> \in Seq(Replies)
      BY SMT
    <3> QED BY <2>2, <3>1, AnswersAre, Zenon
  <2>4. HomeComing' <=> HomeComing
    BY <2>1 DEF HomeComing
  <2> HIDE DEF r
  <2>5. CASE r.kind = "login"
    <3>1. LoginAsked /\ ~shown /\ ~LoginAnswered /\ ~HomeComing
      <4>1. LoginAsked
        BY <2>2, <2>5 DEF LoginAsked
      <4> QED BY <4>1 DEF OneLogin
    <3>2. \A i \in DOMAIN requests : i # 1 => requests[i].kind \notin {"login", "logout", "send"}
      <4> SUFFICES ASSUME NEW i \in DOMAIN requests, i # 1,
                          requests[i].kind \in {"login", "logout", "send"}
                   PROVE  FALSE
        BY Zenon
      <4>1. i <= 1
        BY <2>2, <2>5 DEF OneLogin
      <4> QED BY <2>2, <4>1
    <3>3. \A i \in DOMAIN requests' : requests'[i].kind \notin {"login", "logout", "send"}
      <4> SUFFICES ASSUME NEW i \in DOMAIN requests'
                   PROVE  requests'[i].kind \notin {"login", "logout", "send"}
        OBVIOUS
      <4>1. i + 1 \in DOMAIN requests /\ i + 1 # 1 /\ requests'[i] = requests[i + 1]
        BY <2>2
      <4> QED BY <3>2, <4>1
    <3>4. online' /\ ~shown' /\ ~HomeComing'
      BY <2>1, <2>4, <2>5, <3>1
    <3>5. toClient' = Append(toClient, Answer("login", << >>))
          /\ Answer("login", << >>) \in Replies
      <4>1. << >> \in Seq(ConvLine)
        OBVIOUS
      <4>2. Answer("login", << >>) \in Replies
        BY <4>1, RepliesTyped
      <4>3. AnswersTo(r) = <<Answer("login", << >>)>>
        BY <2>5, AnswerCases, Zenon
      <4> QED BY <1>0, <2>1, <4>2, <4>3, SMT
    <3>6. \A i, j \in DOMAIN toClient' :
             toClient'[i].kind = "login" /\ toClient'[j].kind = "login" => i = j
      <4>1. \A i \in DOMAIN toClient' : toClient'[i].kind = "login" => i = Len(toClient) + 1
        BY <1>0, <3>1, <3>5, AppendPlaces DEF LoginAnswered
      <4> QED BY <4>1
    <3>7. ~LoginAsked'
      BY <3>3 DEF LoginAsked
    <3>8. \A i, j \in DOMAIN idle' : idle'[i].run = "home" /\ idle'[j].run = "home" => i = j
      BY <2>1 DEF OneLogin
    <3> QED BY <3>3, <3>4, <3>6, <3>7, <3>8 DEF OneLogin
  <2>6. CASE r.kind # "login"
    <3>1. LoginAsked' <=> LoginAsked
      <4>1. LoginAsked' => LoginAsked
        BY <2>2 DEF LoginAsked
      <4>2. ASSUME LoginAsked PROVE LoginAsked'
        <5>1. PICK i \in DOMAIN requests : requests[i].kind = "login"
          BY <4>2 DEF LoginAsked
        <5>2. i - 1 \in DOMAIN requests' /\ requests'[i - 1].kind = "login"
          BY <2>2, <2>6, <5>1
        <5> QED BY <5>2 DEF LoginAsked
      <4> QED BY <4>1, <4>2
    <3>2. \A i \in DOMAIN toClient' :
             (i \in DOMAIN toClient /\ toClient'[i] = toClient[i]) \/ toClient'[i].kind # "login"
      <4>1. \A i \in DOMAIN AnswersTo(r) : AnswersTo(r)[i].kind # "login"
        <5>1. CASE AnswersTo(r) = << >>
          BY <5>1, SMT
        <5>2. ASSUME NEW a \in Replies, AnswersTo(r) = <<a>>, a.kind = "login" => r.kind = "login"
              PROVE  \A i \in DOMAIN AnswersTo(r) : AnswersTo(r)[i].kind # "login"
          BY <2>6, <5>2, SMT
        <5> QED BY <2>2, <5>1, <5>2, AnswersAre
      <4> QED BY <1>0, <2>1, <2>3, <4>1, ConcatPlaces
    <3>3. /\ LoginAnswered' => LoginAnswered
          /\ \A i, j \in DOMAIN toClient' :
                toClient'[i].kind = "login" /\ toClient'[j].kind = "login" => i = j
      BY <3>2 DEF LoginAnswered, OneLogin
    <3>4. \A i, j \in DOMAIN requests' : requests'[i].kind = "login" =>
             /\ requests'[j].kind \in {"login", "logout", "send"} => j <= i
             /\ requests'[j].kind = "login" => j = i
      <4> SUFFICES ASSUME NEW i \in DOMAIN requests', NEW j \in DOMAIN requests',
                          requests'[i].kind = "login"
                   PROVE  /\ requests'[j].kind \in {"login", "logout", "send"} => j <= i
                          /\ requests'[j].kind = "login" => j = i
        OBVIOUS
      <4>1. /\ i + 1 \in DOMAIN requests /\ requests'[i] = requests[i + 1] /\ i \in Nat
            /\ j + 1 \in DOMAIN requests /\ requests'[j] = requests[j + 1] /\ j \in Nat
        BY <2>2
      <4>2. /\ requests'[j].kind \in {"login", "logout", "send"} => j + 1 <= i + 1
            /\ requests'[j].kind = "login" => j + 1 = i + 1
        BY <4>1 DEF OneLogin
      <4> QED BY <4>1, <4>2
    <3>5. ~LoginAsked => /\ online' /\ \A i \in DOMAIN requests' : requests'[i].kind # "logout"
                         /\ shown \/ \A i \in DOMAIN requests' : requests'[i].kind # "send"
      <4> SUFFICES ASSUME ~LoginAsked
                   PROVE  /\ online' /\ \A i \in DOMAIN requests' : requests'[i].kind # "logout"
                          /\ shown \/ \A i \in DOMAIN requests' : requests'[i].kind # "send"
        OBVIOUS
      <4>1. /\ online /\ \A i \in DOMAIN requests : requests[i].kind # "logout"
            /\ shown \/ \A i \in DOMAIN requests : requests[i].kind # "send"
        BY DEF OneLogin
      <4>2. r.kind # "logout"
        BY <2>2, <4>1
      <4>3. online'
        BY <2>1, <2>6, <4>1, <4>2
      <4> QED BY <2>2, <4>1, <4>3
    <3>6. /\ (shown => ~LoginAsked /\ ~LoginAnswered /\ ~HomeComing)
          /\ (LoginAsked => ~LoginAnswered /\ ~HomeComing)
          /\ (LoginAnswered => ~HomeComing)
      BY DEF OneLogin
    <3>7. \A i, j \in DOMAIN idle' : idle'[i].run = "home" /\ idle'[j].run = "home" => i = j
      BY <2>1 DEF OneLogin
    <3>8. shown' = shown
      BY <2>1
    <3> HIDE DEF LoginAsked, LoginAnswered, HomeComing
    <3> QED BY <2>4, <3>1, <3>3, <3>4, <3>5, <3>6, <3>7, <3>8, Zenon DEF OneLogin
  <2> QED BY <2>5, <2>6
<1> QED BY <1>2, <1>3, <1>4 DEF ServerNext

LEMMA OneLoginCollector ==
    ASSUME HomeTypes, OneLogin, CollectorNext
    PROVE  OneLogin'
<1> DEFINE a == Head(toClient)
<1>0. toClient \in Seq(Replies) /\ idle \in Seq(Callbacks)
  BY DEF HomeTypes
<1>1. /\ toClient # << >> /\ toClient' = Tail(toClient)
      /\ UNCHANGED <<shown, requests, online>>
  BY CollectorMakes DEF uiVars, srvVars
<1>2. PICK new : idle' = idle \o new /\ MadeOf(new, a)
  BY CollectorMakes
<1>3. /\ a \in Replies /\ a = toClient[1] /\ 1 \in DOMAIN toClient
      /\ \A i \in DOMAIN toClient' : /\ i \in Nat /\ i >= 1 /\ i + 1 \in DOMAIN toClient
                                     /\ toClient'[i] = toClient[i + 1]
  BY <1>0, <1>1, TailPlaces
<1>4. new \in Seq(Callbacks)
  BY <1>2 DEF MadeOf
<1> HIDE DEF a
<1>5. LoginAsked' <=> LoginAsked
  BY <1>1 DEF LoginAsked
<1>6. LoginAnswered' => LoginAnswered
  BY <1>3 DEF LoginAnswered
<1>7. \A i, j \in DOMAIN toClient' :
         toClient'[i].kind = "login" /\ toClient'[j].kind = "login" => i = j
  <2> SUFFICES ASSUME NEW i \in DOMAIN toClient', NEW j \in DOMAIN toClient',
                      toClient'[i].kind = "login", toClient'[j].kind = "login"
               PROVE  i = j
    OBVIOUS
  <2>1. i + 1 = j + 1 /\ i \in Nat /\ j \in Nat
    BY <1>3 DEF OneLogin
  <2> QED BY <2>1
<1>8. \A i \in DOMAIN idle' :
         \/ i \in DOMAIN idle /\ idle'[i] = idle[i]
         \/ i - Len(idle) \in DOMAIN new /\ idle'[i] = new[i - Len(idle)]
  BY <1>0, <1>2, <1>4, ConcatPlaces
<1>9. CASE a.kind = "login"
  <2>1. LoginAnswered /\ ~HomeComing /\ ~LoginAsked /\ ~shown
    <3>1. LoginAnswered
      BY <1>3, <1>9 DEF LoginAnswered
    <3> QED BY <3>1 DEF OneLogin
  <2>2. ~LoginAnswered'
    <3> SUFFICES ASSUME NEW i \in DOMAIN toClient', toClient'[i].kind = "login" PROVE FALSE
      BY DEF LoginAnswered
    <3>1. i + 1 = 1 /\ i \in Nat /\ i >= 1
      BY <1>3, <1>9 DEF OneLogin
    <3> QED BY <3>1
  <2>3. \A i \in DOMAIN idle' : idle'[i].run = "home" => i - Len(idle) = 1
    BY <1>2, <1>3, <1>8, <2>1, MadeRuns DEF HomeComing
  <2>4. \A i, j \in DOMAIN idle' : idle'[i].run = "home" /\ idle'[j].run = "home" => i = j
    <3>1. idle' \in Seq(Callbacks)
      BY <1>0, <1>2, <1>4, ConcatTyped
    <3>2. Len(idle) \in Nat /\ \A i \in DOMAIN idle' : i \in Nat
      BY <1>0, <3>1, SMT
    <3> QED BY <2>3, <3>2
  <2>5. /\ online /\ \A i \in DOMAIN requests : requests[i].kind # "logout"
        /\ shown \/ \A i \in DOMAIN requests : requests[i].kind # "send"
    BY <2>1 DEF OneLogin
  <2>6. ~LoginAsked' /\ ~shown' /\ \A i \in DOMAIN requests' : requests'[i].kind # "login"
    BY <1>1, <1>5, <2>1 DEF LoginAsked
  <2> HIDE DEF LoginAsked, LoginAnswered, HomeComing
  <2> QED BY <1>1, <2>2, <2>4, <2>5, <2>6, <1>7, Zenon DEF OneLogin
<1>10. CASE a.kind # "login"
  <2>1. \A i \in DOMAIN new : new[i].run # "home"
    BY <1>2, <1>3, <1>10, MadeRuns
  <2>2. \A i \in DOMAIN idle' : idle'[i].run = "home" => i \in DOMAIN idle /\ idle'[i] = idle[i]
    BY <1>8, <2>1
  <2>3. HomeComing' => HomeComing
    BY <2>2 DEF HomeComing
  <2>4. \A i, j \in DOMAIN idle' : idle'[i].run = "home" /\ idle'[j].run = "home" => i = j
    BY <2>2 DEF OneLogin
  <2>5. /\ (shown => ~LoginAsked /\ ~LoginAnswered /\ ~HomeComing)
        /\ (LoginAsked => ~LoginAnswered /\ ~HomeComing)
        /\ (LoginAnswered => ~HomeComing)
    BY DEF OneLogin
  <2>6. /\ \A i, j \in DOMAIN requests' : requests'[i].kind = "login" =>
              /\ requests'[j].kind \in {"login", "logout", "send"} => j <= i
              /\ requests'[j].kind = "login" => j = i
        /\ ~LoginAsked => /\ online' /\ \A i \in DOMAIN requests' : requests'[i].kind # "logout"
                          /\ shown' \/ \A i \in DOMAIN requests' : requests'[i].kind # "send"
    BY <1>1 DEF OneLogin
  <2> HIDE DEF LoginAsked, LoginAnswered, HomeComing
  <2> QED BY <1>1, <1>5, <1>6, <1>7, <2>3, <2>4, <2>5, <2>6, Zenon DEF OneLogin
<1> QED BY <1>9, <1>10

LEMMA OneLoginGtk ==
    ASSUME HomeTypes, OneLogin, GtkNext
    PROVE  OneLogin'
<1>0. idle \in Seq(Callbacks) /\ requests \in Seq(Requests)
  BY DEF HomeTypes
<1>1. /\ idle # << >> /\ idle' = Tail(idle) /\ UNCHANGED <<toClient, online>>
      /\ \/ UNCHANGED <<shown, requests>>
         \/ Head(idle).run = "home" /\ shown' /\ requests' = Append(requests, GetHistory)
  BY DEF GtkNext, RunHome, RunUpdate, RunLoad, RunRemove, RunResults, Run, srvVars
<1>2. /\ Head(idle) = idle[1] /\ 1 \in DOMAIN idle
      /\ \A i \in DOMAIN idle' : i \in Nat /\ i >= 1 /\ i + 1 \in DOMAIN idle /\ idle'[i] = idle[i + 1]
  BY <1>0, <1>1, TailPlaces
<1>3. HomeComing' => HomeComing
  BY <1>2 DEF HomeComing
<1>4. LoginAnswered' <=> LoginAnswered
  BY <1>1 DEF LoginAnswered
<1>5. \A i, j \in DOMAIN idle' : idle'[i].run = "home" /\ idle'[j].run = "home" => i = j
  <2> SUFFICES ASSUME NEW i \in DOMAIN idle', NEW j \in DOMAIN idle',
                      idle'[i].run = "home", idle'[j].run = "home"
               PROVE  i = j
    OBVIOUS
  <2>1. i + 1 = j + 1 /\ i \in Nat /\ j \in Nat
    BY <1>2 DEF OneLogin
  <2> QED BY <2>1
<1>6. \A i, j \in DOMAIN toClient' :
         toClient'[i].kind = "login" /\ toClient'[j].kind = "login" => i = j
  BY <1>1 DEF OneLogin
<1>7. CASE UNCHANGED <<shown, requests>>
  <2>1. LoginAsked' <=> LoginAsked
    BY <1>7 DEF LoginAsked
  <2>2. /\ (shown => ~LoginAsked /\ ~LoginAnswered /\ ~HomeComing)
        /\ (LoginAsked => ~LoginAnswered /\ ~HomeComing)
        /\ (LoginAnswered => ~HomeComing)
    BY DEF OneLogin
  <2>3. /\ \A i, j \in DOMAIN requests' : requests'[i].kind = "login" =>
              /\ requests'[j].kind \in {"login", "logout", "send"} => j <= i
              /\ requests'[j].kind = "login" => j = i
        /\ ~LoginAsked => /\ online' /\ \A i \in DOMAIN requests' : requests'[i].kind # "logout"
                          /\ shown' \/ \A i \in DOMAIN requests' : requests'[i].kind # "send"
    BY <1>1, <1>7 DEF OneLogin
  <2> HIDE DEF LoginAsked, LoginAnswered, HomeComing
  <2> QED BY <1>3, <1>4, <1>5, <1>6, <1>7, <2>1, <2>2, <2>3, Zenon DEF OneLogin
<1>8. CASE /\ Head(idle).run = "home" /\ shown' /\ requests' = Append(requests, GetHistory)
  <2>1. HomeComing
    BY <1>2, <1>8 DEF HomeComing
  <2>2. ~shown /\ ~LoginAsked /\ ~LoginAnswered
    BY <2>1 DEF OneLogin
  <2>3. ~HomeComing'
    <3> SUFFICES ASSUME NEW i \in DOMAIN idle', idle'[i].run = "home" PROVE FALSE
      BY DEF HomeComing
    <3>1. i + 1 = 1 /\ i \in Nat /\ i >= 1
      BY <1>2, <1>8 DEF OneLogin
    <3> QED BY <3>1
  <2>4. online /\ \A i \in DOMAIN requests : requests[i].kind # "logout"
    BY <2>2 DEF OneLogin
  <2>5. GetHistory \in Requests /\ GetHistory.kind = "chats"
    BY RequestsTyped DEF GetHistory, Request
  <2>6. \A i \in DOMAIN requests' :
           (i \in DOMAIN requests /\ requests'[i] = requests[i]) \/ requests'[i] = GetHistory
    BY <1>0, <1>8, <2>5, AppendPlaces
  <2>7. \A i \in DOMAIN requests' : requests'[i].kind # "logout" /\ requests'[i].kind # "login"
    BY <2>2, <2>4, <2>5, <2>6 DEF LoginAsked
  <2>8. ~LoginAsked'
    BY <2>7 DEF LoginAsked
  <2> HIDE DEF LoginAsked, LoginAnswered, HomeComing
  <2> QED BY <1>1, <1>4, <1>5, <1>6, <1>8, <2>2, <2>3, <2>4, <2>7, <2>8, Zenon DEF OneLogin
<1> QED BY <1>1, <1>7, <1>8

LEMMA OneLoginStep ==
    ASSUME HomeTypes, BoxIsMap, Histories, OneLogin, [Next]_vars
    PROVE  OneLogin'
<1>1. CASE EnableClick \/ UNCHANGED vars
  <2>1. UNCHANGED <<shown, online, requests, toClient, idle>>
    BY <1>1 DEF EnableClick, vars, uiVars, srvVars
  <2> QED BY <2>1 DEF OneLogin, LoginAsked, LoginAnswered, HomeComing
<1> QED BY <1>1, OneLoginUser, OneLoginServer, OneLoginCollector, OneLoginGtk DEF Next

(***************************************************************************)
(* No conversation is missing.                                             *)
(***************************************************************************)
ChatsAskedNext == \E i \in DOMAIN requests' : requests'[i].kind = "chats"
SendingNext(c) ==
    \E i \in DOMAIN requests' : requests'[i].kind = "send" /\ requests'[i].line.conv = c
ListedNext(c) == c \in map' \/ AddIn(idle', toClient', c)
ContactNext(c) ==
    /\ LastAdds(idle', toClient', c)
    /\ shown' => /\ store'[c] # << >> => ChatsAskedNext \/ ListedNext(c)
                 /\ SendingNext(c) => ListedNext(c)

LEMMA ContactsFromEach ==
    ASSUME \A c \in Peers \cup members' : ContactNext(c)
    PROVE  Contacts'
BY DEF Contacts, Mine, ContactNext, LastAdds, AddIn, ChatsAsked, Sending, Listed,
       ChatsAskedNext, SendingNext, ListedNext

LEMMA ContactNow ==
    ASSUME Contacts, NEW c \in Mine
    PROVE  /\ LastAdds(idle, toClient, c)
           /\ shown => /\ store[c] # << >> => ChatsAsked \/ Listed(c)
                       /\ Sending(c) => Listed(c)
BY Zenon DEF Contacts

LEMMA ContactsUser ==
    ASSUME HomeTypes, BoxIsMap, Contacts, UserNext
    PROVE  Contacts'
<1>1. /\ shown /\ map \subseteq map' /\ UNCHANGED <<toClient, idle, members, store>>
      /\ LoginAgain \/ (shown' = shown /\ AllSent)
  BY UserSends
<1>2. Kept(requests, requests')
  BY UserAdds
<1>3. SUFFICES ASSUME NEW c \in Mine PROVE ContactNext(c)
  BY <1>1, ContactsFromEach DEF Mine
<1>4. LastAdds(idle', toClient', c)
  BY <1>1, ContactNow
<1>5. CASE LoginAgain
  BY <1>4, <1>5 DEF LoginAgain, ContactNext
<1>6. CASE AllSent
  <2>1. Listed(c) => ListedNext(c)
    BY <1>1 DEF Listed, ListedNext
  <2>2. ChatsAsked => ChatsAskedNext
    BY <1>2 DEF Kept, ChatsAsked, ChatsAskedNext
  <2>3. ASSUME SendingNext(c) PROVE ListedNext(c)
    <3>1. PICK i \in DOMAIN requests' : requests'[i].kind = "send" /\ requests'[i].line.conv = c
      BY <2>3 DEF SendingNext
    <3>2. CASE i \in DOMAIN requests /\ requests'[i] = requests[i]
      <4>1. Sending(c)
        BY <3>1, <3>2 DEF Sending
      <4> QED BY <1>1, <2>1, <4>1, ContactNow
    <3>3. CASE Sent(requests'[i])
      BY <3>1, <3>3 DEF Sent, ListedNext
    <3> QED BY <1>6, <3>2, <3>3 DEF AllSent
  <2>4. store'[c] # << >> => ChatsAskedNext \/ ListedNext(c)
    BY <1>1, <2>1, <2>2, ContactNow
  <2> QED BY <1>4, <2>3, <2>4 DEF ContactNext
<1> QED BY <1>1, <1>5, <1>6

\* An answer that adds c lists it, wherever it comes from.
LEMMA ContactAdded ==
    ASSUME HomeTypes, NEW a \in Replies, NEW c, ReplyAdds(a, c), UNCHANGED idle,
           toClient' = toClient \o <<a>>
    PROVE  ContactNext(c)
<1>0. toClient \in Seq(Replies) /\ idle \in Seq(Callbacks)
  BY DEF HomeTypes
<1>1. <<a>> \in Seq(Replies)
  BY SMT
<1>2. AddIn(idle, toClient', c) /\ LastAdds(idle, toClient', c)
  <2> DEFINE new == <<a>>
  <2>1. new \in Seq(Replies) /\ new = <<a>> /\ toClient' = toClient \o new
    BY <1>1
  <2> HIDE DEF new
  <2> QED BY <1>0, <2>1, AddKeptByAnswer
<1> QED BY <1>2 DEF ContactNext, ListedNext

\* An answer that does not remove c leaves it listed, or about to be.
LEMMA ContactStays ==
    ASSUME HomeTypes, Contacts, NEW c \in Mine, NEW new \in Seq(Replies),
           UNCHANGED <<shown, map, idle>>,
           toClient' = toClient \o new,
           \A i \in DOMAIN new : ~ReplyRemoves(new[i], c)
    PROVE  LastAdds(idle', toClient', c) /\ (Listed(c) => ListedNext(c))
<1>0. toClient \in Seq(Replies) /\ idle \in Seq(Callbacks)
  BY DEF HomeTypes
<1>1. LastAdds(idle, toClient, c)
  BY ContactNow
<1>2. LastAdds(idle, toClient', c)
  BY <1>0, <1>1, AddKeptByAnswer
<1>3. AddIn(idle, toClient, c) => AddIn(idle, toClient', c)
  BY <1>0, AddKeptByAnswer
<1> QED BY <1>2, <1>3 DEF Listed, ListedNext

LEMMA ContactsPushed ==
    ASSUME HomeTypes, OneLogin, Contacts,
           (\E c \in Convs : Incoming(c)) \/ (\E c \in Convs : OtherLeaves(c))
    PROVE  Contacts'
<1>0. /\ toClient \in Seq(Replies) /\ nmsg \in Nat /\ store \in [Convs -> Seq(ConvLine)]
  BY DEF HomeTypes
<1>1. ASSUME NEW c \in Mine, NEW new \in Seq(Replies), toClient' = toClient \o new,
             \A i \in DOMAIN new : ~ReplyRemoves(new[i], c),
             UNCHANGED <<shown, map, idle, requests>>, store'[c] = store[c]
      PROVE  ContactNext(c)
  <2>1. LastAdds(idle', toClient', c) /\ (Listed(c) => ListedNext(c))
    BY <1>1, ContactStays
  <2>2. (ChatsAsked => ChatsAskedNext) /\ (SendingNext(c) => Sending(c))
    BY <1>1 DEF ChatsAsked, ChatsAskedNext, Sending, SendingNext
  <2>3. shown => /\ store[c] # << >> => ChatsAsked \/ Listed(c)
                 /\ Sending(c) => Listed(c)
    BY ContactNow
  <2>4. shown' = shown /\ store'[c] = store[c]
    BY <1>1
  <2> HIDE DEF ChatsAsked, ChatsAskedNext, Sending, SendingNext, Listed, ListedNext
  <2> QED BY <2>1, <2>2, <2>3, <2>4, Zenon DEF ContactNext
<1>2. ASSUME NEW d \in Convs, Incoming(d) PROVE Contacts'
  <2> DEFINE k == IF d > 0 THEN "user" ELSE "group"
             line == Line(d, nmsg', "other")
             a == Answer(k, <<line>>)
  <2>1. /\ toClient' = IF online THEN Append(toClient, a) ELSE toClient
        /\ UNCHANGED <<shown, map, requests, idle, members>> /\ nmsg' \in Nat
        /\ store' = [store EXCEPT ![d] = Append(@, line)]
    BY <1>0, <1>2, SMT DEF Incoming, uiVars
  <2>2. <<line>> \in Seq(ConvLine) /\ k \in {"user", "group"} /\ line.conv = d
    BY <2>1, LinesTyped, SMT
  <2>3. a \in Replies /\ a.kind = k /\ a.lines = <<line>>
    BY <2>2, RepliesTyped DEF Answer
  <2> HIDE DEF k, line, a
  <2>4. ReplyAdds(a, d)
    <3>1. Adding(a)
      BY <2>2, <2>3, SMT DEF Adding
    <3>2. 1 \in DOMAIN a.lines /\ a.lines[1].conv = d
      BY <2>2, <2>3, SMT
    <3> QED BY <3>1, <3>2 DEF ReplyAdds
  <2>5. \A c \in Mine : c # d => store'[c] = store[c]
    BY <2>1
  <2>6. CASE online
    <3>1. toClient' = toClient \o <<a>> /\ <<a>> \in Seq(Replies)
      BY <1>0, <2>1, <2>3, <2>6, SMT
    <3>2. \A c : \A i \in DOMAIN <<a>> : ~ReplyRemoves(<<a>>[i], c)
      <4>1. ~Removing(a)
        BY <2>4, KindsExclude DEF ReplyAdds
      <4>2. \A i \in DOMAIN <<a>> : <<a>>[i] = a
        BY SMT
      <4> QED BY <4>1, <4>2 DEF ReplyRemoves
    <3>3. ContactNext(d)
      BY <2>1, <2>3, <2>4, <3>1, ContactAdded
    <3>4. \A c \in Mine : c # d => ContactNext(c)
      <4> DEFINE new == <<a>>
      <4>1. new \in Seq(Replies) /\ toClient' = toClient \o new
            /\ \A c : \A i \in DOMAIN new : ~ReplyRemoves(new[i], c)
        BY <3>1, <3>2
      <4> HIDE DEF new
      <4> QED BY <1>1, <2>1, <2>5, <4>1
    <3> QED BY <2>1, <3>3, <3>4, ContactsFromEach DEF Mine
  <2>7. CASE ~online
    <3>1. ~shown
      BY <2>7 DEF OneLogin
    <3>2. \A c \in Mine : LastAdds(idle', toClient', c)
      BY <2>1, <2>7, ContactNow
    <3> QED BY <2>1, <3>1, <3>2, ContactsFromEach DEF Mine, ContactNext
  <2> QED BY <2>6, <2>7
<1>3. ASSUME NEW d \in Convs, OtherLeaves(d) PROVE Contacts'
  <2> DEFINE line == Line(d, 0, "notice")
             a == Answer("leave", <<line>>)
  <2>1. /\ toClient' = Append(toClient, a)
        /\ UNCHANGED <<shown, map, requests, idle, members, store>>
    BY <1>3 DEF OtherLeaves, uiVars
  <2>2. <<line>> \in Seq(ConvLine) /\ <<line>> # << >> /\ line.from = "notice"
    BY LinesTyped, SMT
  <2>3. a \in Replies /\ a.kind = "leave" /\ a.lines = <<line>>
    BY <2>2, RepliesTyped DEF Answer
  <2> HIDE DEF line, a
  <2>4. ~Removing(a)
    BY <2>2, <2>3, SMT DEF Removing, IsNotice
  <2> DEFINE new == <<a>>
  <2>5. new \in Seq(Replies) /\ toClient' = toClient \o new /\ \A i \in DOMAIN new : new[i] = a
    BY <1>0, <2>1, <2>3, SMT
  <2> HIDE DEF new
  <2>6. \A c \in Mine : ContactNext(c)
    BY <1>1, <2>1, <2>4, <2>5 DEF ReplyRemoves
  <2> QED BY <2>1, <2>6, ContactsFromEach DEF Mine
<1> QED BY <1>2, <1>3

LEMMA ContactsServed ==
    ASSUME HomeTypes, Histories, Contacts, Serve
    PROVE  Contacts'
<1> DEFINE r == Head(requests)
           new == AnswersTo(r)
           d == r.line.conv
<1>0. /\ requests \in Seq(Requests) /\ toClient \in Seq(Replies)
      /\ store \in [Convs -> Seq(ConvLine)] /\ members \subseteq GroupConvs
  BY DEF HomeTypes
<1>1. /\ requests # << >> /\ requests' = Tail(requests) /\ toClient' = toClient \o new
      /\ UNCHANGED <<shown, map, idle>>
  BY DEF Serve, uiVars
<1>2. /\ members' = CASE r.kind \in {"leave", "delete"} -> members \ {d}
                      [] r.kind \in {"join", "create"} -> members \cup {d}
                      [] OTHER -> members
      /\ store' = IF r.kind = "send" /\ d \in Peers \cup members
                  THEN [store EXCEPT ![d] = Append(@, r.line)] ELSE store
  BY DEF Serve
<1>3. /\ r = requests[1] /\ 1 \in DOMAIN requests /\ r \in Requests
      /\ \A i \in DOMAIN requests : i # 1 =>
            i - 1 \in DOMAIN requests' /\ requests'[i - 1] = requests[i]
      /\ \A i \in DOMAIN requests' : i + 1 \in DOMAIN requests /\ requests'[i] = requests[i + 1]
  BY <1>0, <1>1, TailPlaces
<1>4. new \in Seq(Replies)
  <2>1. << >> \in Seq(Replies) /\ \A a \in Replies : <<a>> \in Seq(Replies)
    BY SMT
  <2> QED BY <1>3, <2>1, AnswersAre, Zenon
<1> HIDE DEF r, new, d
<1>5. SUFFICES ASSUME NEW c \in Peers \cup members' PROVE ContactNext(c)
  BY ContactsFromEach
<1>6. CASE c \notin Mine
  <2>1. r.kind \in {"join", "create"} /\ c = d /\ d \notin members
    BY <1>2, <1>6, SMT DEF Mine
  <2> DEFINE a == Answer(r.kind, <<Line(d, 0, "notice")>>)
  <2>2. new = <<a>>
    BY <2>1, AnswerCases, Zenon DEF new, d
  <2>3. d \in Convs
    BY <1>3, <2>1 DEF Requests, OnConv, d
  <2>4. <<Line(d, 0, "notice")>> \in Seq(ConvLine) /\ Line(d, 0, "notice").conv = d
    BY <2>3, LinesTyped, SMT
  <2>5. a \in Replies /\ a.kind = r.kind /\ a.lines = <<Line(d, 0, "notice")>>
    BY <2>1, <2>4, RepliesTyped DEF Answer
  <2> HIDE DEF a
  <2>6. ReplyAdds(a, c)
    <3>1. Adding(a)
      BY <2>1, <2>5, SMT DEF Adding
    <3>2. 1 \in DOMAIN a.lines /\ a.lines[1].conv = c
      BY <2>1, <2>4, <2>5, SMT
    <3> QED BY <3>1, <3>2 DEF ReplyAdds
  <2> QED BY <1>1, <2>2, <2>5, <2>6, ContactAdded
<1>7. CASE c \in Mine
  <2>1. \A i \in DOMAIN new : ~ReplyRemoves(new[i], c)
    <3>1. CASE new = << >>
      BY <3>1, SMT
    <3>2. ASSUME NEW a \in Replies, new = <<a>>, ReplyRemoves(a, c),
                 a.kind \in {"leave", "delete"} =>
                    r.kind = a.kind /\ d \in members /\ a.lines[1].conv = d
          PROVE  FALSE
      <4>1. a.kind \in {"leave", "delete"} /\ a.lines[1].conv = c
        BY <3>2 DEF ReplyRemoves, Removing
      <4>2. r.kind \in {"leave", "delete"} /\ d \in members /\ c = d
        BY <3>2, <4>1
      <4>3. members' = members \ {d}
        BY <1>2, <4>2, SMT
      <4> QED BY <1>0, <1>5, <4>2, <4>3, Signs
    <3>3. ASSUME NEW a \in Replies, new = <<a>>,
                 a.kind \in {"leave", "delete"} =>
                    r.kind = a.kind /\ d \in members /\ a.lines[1].conv = d
          PROVE  \A i \in DOMAIN new : ~ReplyRemoves(new[i], c)
      <4>1. \A i \in DOMAIN new : new[i] = a
        BY <3>3, SMT
      <4> QED BY <3>2, <3>3, <4>1, Zenon
    <3>4. \/ new = << >>
          \/ \E a \in Replies :
                /\ new = <<a>>
                /\ a.kind \in {"leave", "delete"} =>
                      r.kind = a.kind /\ d \in members /\ a.lines[1].conv = d
      BY <1>3, AnswersAre, Zenon DEF new, d
    <3> QED BY <3>1, <3>3, <3>4
  <2>2. LastAdds(idle', toClient', c) /\ (Listed(c) => ListedNext(c))
    BY <1>1, <1>4, <1>7, <2>1, ContactStays
  <2>3. SendingNext(c) => Sending(c)
    BY <1>3 DEF SendingNext, Sending
  <2>4. ASSUME shown, ChatsAsked, store[c] # << >> PROVE ChatsAskedNext \/ ListedNext(c)
    <3>1. PICK i \in DOMAIN requests : requests[i].kind = "chats"
      BY <2>4 DEF ChatsAsked
    <3>2. CASE i # 1
      BY <1>3, <3>1, <3>2 DEF ChatsAskedNext
    <3>3. CASE i = 1
      <4>1. PICK lines \in Seq(ConvLine) :
                /\ new = <<Answer("chats", lines)>>
                /\ \A e \in Chats : \E k \in DOMAIN lines : lines[k].conv = e
        BY <1>3, <3>1, <3>3, ChatsAnswered, Zenon DEF new
      <4> DEFINE a == Answer("chats", lines)
      <4>2. a \in Replies /\ a.kind = "chats" /\ a.lines = lines
        BY RepliesTyped DEF Answer
      <4>3. c \in Chats
        BY <1>7, <2>4 DEF Chats, Mine
      <4> HIDE DEF a
      <4>4. ReplyAdds(a, c)
        BY <4>1, <4>2, <4>3 DEF ReplyAdds, Adding
      <4>5. AddIn(idle', toClient', c)
        <5>1. AddIn(idle, toClient \o new, c)
          <6>1. toClient \in Seq(Replies) /\ idle \in Seq(Callbacks)
            BY DEF HomeTypes
          <6>2. new = <<a>>
            BY <4>1 DEF a
          <6> QED BY <1>4, <4>2, <4>4, <6>1, <6>2, AddKeptByAnswer
        <5> QED BY <1>1, <5>1
      <4> QED BY <4>5 DEF ListedNext
    <3> QED BY <3>2, <3>3
  <2>5. ASSUME shown, store'[c] # << >> PROVE ChatsAskedNext \/ ListedNext(c)
    <3>1. CASE store[c] # << >>
      BY <1>7, <2>2, <2>4, <2>5, <3>1, ContactNow
    <3>2. CASE store[c] = << >>
      <4>1. r.kind = "send" /\ d = c
        BY <1>0, <1>2, <2>5, <3>2
      <4>2. Sending(c)
        BY <1>3, <4>1 DEF Sending, d
      <4> QED BY <1>7, <2>2, <2>5, <4>2, ContactNow
    <3> QED BY <3>1, <3>2
  <2>6. shown /\ SendingNext(c) => ListedNext(c)
    BY <1>7, <2>2, <2>3, ContactNow
  <2> QED BY <1>1, <2>2, <2>5, <2>6 DEF ContactNext
<1> QED BY <1>6, <1>7

LEMMA ContactsCollected ==
    ASSUME HomeTypes, Contacts, CollectorNext
    PROVE  Contacts'
<1>0. toClient \in Seq(Replies) /\ idle \in Seq(Callbacks)
  BY DEF HomeTypes
<1>1. /\ toClient # << >> /\ toClient' = Tail(toClient)
      /\ UNCHANGED <<shown, map, requests, members, store>>
  BY CollectorMakes DEF uiVars, srvVars
<1>2. PICK new : idle' = idle \o new /\ MadeOf(new, Head(toClient))
  BY CollectorMakes
<1>3. SUFFICES ASSUME NEW c \in Mine PROVE ContactNext(c)
  BY <1>1, ContactsFromEach DEF Mine
<1>4. LastAdds(idle, toClient, c)
  BY ContactNow
<1>5. LastAdds(idle', toClient', c)
  BY <1>0, <1>1, <1>2, <1>4, AddKeptByCollector
<1>6. AddIn(idle, toClient, c) => AddIn(idle', toClient', c)
  BY <1>0, <1>1, <1>2, AddKeptByCollector
<1>7. Listed(c) => ListedNext(c)
  BY <1>1, <1>6 DEF Listed, ListedNext
<1>8. (ChatsAsked => ChatsAskedNext) /\ (SendingNext(c) => Sending(c))
  BY <1>1 DEF ChatsAsked, ChatsAskedNext, Sending, SendingNext
<1>9. shown => /\ store[c] # << >> => ChatsAsked \/ Listed(c)
               /\ Sending(c) => Listed(c)
  BY ContactNow
<1> HIDE DEF ChatsAsked, ChatsAskedNext, Sending, SendingNext, Listed, ListedNext
<1>10. shown' = shown /\ store' = store
  BY <1>1
<1> QED BY <1>5, <1>7, <1>8, <1>9, <1>10, Zenon DEF ContactNext

LEMMA ContactsRun ==
    ASSUME HomeTypes, BoxIsMap, OneLogin, Contacts, GtkNext
    PROVE  Contacts'
<1> DEFINE b == Head(idle)
<1>0. toClient \in Seq(Replies) /\ idle \in Seq(Callbacks) /\ requests \in Seq(Requests)
  BY DEF HomeTypes
<1>1. idle # << >> /\ idle' = Tail(idle) /\ UNCHANGED <<toClient, members, store>>
  BY DEF GtkNext, RunHome, RunUpdate, RunLoad, RunRemove, RunResults, Run, srvVars
<1>2. /\ b \in Callbacks /\ b = idle[1] /\ 1 \in DOMAIN idle
      /\ b.run = "update" => b.lines[1] \in ConvLine
  BY <1>1, CallbackIs
<1>3. SUFFICES ASSUME NEW c \in Mine PROVE ContactNext(c)
  BY <1>1, ContactsFromEach DEF Mine
<1>4. LastAdds(idle, toClient, c)
  BY ContactNow
<1>5. LastAdds(idle', toClient', c)
  BY <1>0, <1>1, <1>4, AddKeptByRun
<1>6. AddIn(idle, toClient, c) => RunAdds(b, c) \/ AddIn(idle', toClient', c)
  BY <1>0, <1>1, AddKeptByRun
<1>7. RunRemoves(b, c) => AddIn(idle', toClient', c)
  BY <1>0, <1>1, <1>4, AddKeptByRun
<1> HIDE DEF b
<1>8. CASE RunHome
  <2>1. b.run = "home" /\ requests' = Append(requests, GetHistory)
    BY <1>8 DEF RunHome, Run, b
  <2>2. GetHistory \in Requests /\ GetHistory.kind = "chats"
    BY RequestsTyped DEF GetHistory, Request
  <2>3. /\ Len(requests) + 1 \in DOMAIN requests' /\ requests'[Len(requests) + 1] = GetHistory
        /\ \A i \in DOMAIN requests' :
              (i \in DOMAIN requests /\ requests'[i] = requests[i]) \/ requests'[i] = GetHistory
    BY <1>0, <2>1, <2>2, AppendPlaces
  <2>4. ChatsAskedNext
    BY <2>2, <2>3 DEF ChatsAskedNext
  <2>5. \A i \in DOMAIN requests : requests[i].kind # "send"
    <3>1. HomeComing
      BY <1>2, <2>1 DEF HomeComing
    <3>2. ~shown /\ ~LoginAsked
      BY <3>1 DEF OneLogin
    <3> QED BY <3>2 DEF OneLogin
  <2>6. ~SendingNext(c)
    BY <2>2, <2>3, <2>5, Zenon DEF SendingNext
  <2> QED BY <1>5, <2>4, <2>6 DEF ContactNext
<1>9. ASSUME UNCHANGED <<shown, requests>>, Listed(c) => ListedNext(c)
      PROVE  ContactNext(c)
  <2>1. (ChatsAsked => ChatsAskedNext) /\ (SendingNext(c) => Sending(c))
    BY <1>9 DEF ChatsAsked, ChatsAskedNext, Sending, SendingNext
  <2>2. shown => /\ store[c] # << >> => ChatsAsked \/ Listed(c)
                 /\ Sending(c) => Listed(c)
    BY ContactNow
  <2>3. shown' = shown /\ store' = store /\ (Listed(c) => ListedNext(c))
    BY <1>1, <1>9
  <2> HIDE DEF ChatsAsked, ChatsAskedNext, Sending, SendingNext, Listed, ListedNext
  <2> QED BY <1>5, <2>1, <2>2, <2>3, Zenon DEF ContactNext
<1>10. CASE RunUpdate
  <2>1. /\ b.run = "update" /\ UpdateContact(b.lines[1]) /\ UNCHANGED <<shown, requests>>
    BY <1>10 DEF RunUpdate, Run, b
  <2>2. map' = map \cup {b.lines[1].conv}
    BY <1>2, <2>1, ContactUpdated
  <2>3. RunAdds(b, c) => c \in map'
    BY <2>2 DEF RunAdds
  <2>4. Listed(c) => ListedNext(c)
    BY <1>6, <2>2, <2>3 DEF Listed, ListedNext
  <2> QED BY <1>9, <2>1, <2>4
<1>11. CASE RunLoad \/ RunResults
  <2>1. b.run # "update" /\ UNCHANGED <<shown, requests, map>>
    BY <1>11 DEF RunLoad, RunResults, Run, b
  <2>2. Listed(c) => ListedNext(c)
    BY <1>6, <2>1 DEF Listed, ListedNext, RunAdds
  <2> QED BY <1>9, <2>1, <2>2
<1>12. CASE RunRemove
  <2>1. b.run = "remove" /\ map' = map \ {b.lines[1].conv} /\ UNCHANGED <<shown, requests>>
    BY <1>12 DEF RunRemove, Run, b
  <2>2. Listed(c) => ListedNext(c)
    <3>1. CASE b.lines[1].conv = c
      BY <1>7, <2>1, <3>1 DEF RunRemoves, ListedNext
    <3>2. CASE b.lines[1].conv # c
      BY <1>6, <2>1, <3>2 DEF Listed, ListedNext, RunAdds
    <3> QED BY <3>1, <3>2
  <2> QED BY <1>9, <2>1, <2>2
<1> QED BY <1>8, <1>10, <1>11, <1>12 DEF GtkNext

LEMMA ContactsStep ==
    ASSUME HomeTypes, BoxIsMap, Histories, OneLogin, Contacts, [Next]_vars
    PROVE  Contacts'
<1>1. CASE EnableClick \/ UNCHANGED vars
  <2>1. UNCHANGED <<shown, members, store, map, requests, toClient, idle>>
    BY <1>1 DEF EnableClick, vars, uiVars, srvVars
  <2> QED BY <2>1 DEF Contacts, Mine, ChatsAsked, Sending, Listed, LastAdds, AddIn
<1>2. CASE ServerNext
  BY <1>2, ContactsServed, ContactsPushed DEF ServerNext
<1> QED BY <1>1, <1>2, ContactsUser, ContactsCollected, ContactsRun DEF Next

LEMMA HomeInit == ASSUME Init PROVE HInv
<1>1. HListing
  BY ListingInit
<1>2. /\ requests = <<Request("login", 0)>> /\ DOMAIN toClient = {} /\ DOMAIN idle = {} /\ ~shown
  BY SMT DEF Init
<1>3. DOMAIN requests = {1} /\ requests[1].kind = "login"
  BY <1>2, SMT DEF Request
<1>4. OneLogin
  <2>1. LoginAsked /\ ~LoginAnswered /\ ~HomeComing
    BY <1>2, <1>3 DEF LoginAsked, LoginAnswered, HomeComing
  <2>2. \A i, j \in DOMAIN requests : j <= i /\ j = i
    BY <1>3
  <2> HIDE DEF LoginAsked, LoginAnswered, HomeComing
  <2> QED BY <1>2, <2>1, <2>2 DEF OneLogin
<1>5. Contacts
  BY <1>2 DEF Contacts, LastAdds
<1> QED BY <1>1, <1>4, <1>5 DEF HListing, HInv

LEMMA HomeStep == HInv /\ [Next]_vars => HInv'
<1> SUFFICES ASSUME HInv, [Next]_vars PROVE HInv'
  OBVIOUS
<1>1. HomeTypes /\ BoxIsMap /\ Histories /\ ViewOrComing /\ OneLogin /\ Contacts
  BY DEF HInv
<1>2. HomeTypes' /\ BoxIsMap' /\ Histories' /\ ViewOrComing'
  BY <1>1, TypesStep, HistoriesStep, ViewStep
<1>3. OneLogin' /\ Contacts'
  BY <1>1, OneLoginStep, ContactsStep
<1> QED BY <1>2, <1>3 DEF HInv

\* When everything asked for has arrived, every conversation of the user's that
\* has a message is among the contacts (controller.c:502-571, 924-1013,
\* ui_home.c:315-376), whatever was pushed, sent, joined, left and logged in to
\* before.
THEOREM NoContactMissing == Spec => []ContactsComplete
<1>1. HInv => ContactsComplete
  <2> SUFFICES ASSUME Contacts, Settled, NEW c \in Chats PROVE c \in map
    BY DEF HInv, ContactsComplete
  <2>1. /\ shown /\ DOMAIN requests = {} /\ DOMAIN toClient = {} /\ DOMAIN idle = {}
    BY SMT DEF Settled
  <2>2. c \in Mine /\ store[c] # << >>
    BY DEF Chats, Mine
  <2>3. ChatsAsked \/ Listed(c)
    BY <2>1, <2>2, ContactNow
  <2> QED BY <2>1, <2>3 DEF ChatsAsked, Listed, AddIn
<1> QED BY <1>1, HomeInit, HomeStep, PTL DEF Spec

(***************************************************************************)
(* What others wrote: Theirs of a concatenation is the concatenation.      *)
(***************************************************************************)

\* One more line is kept or left out.
StepOf(s, c) ==
    [z \in Nat \X Seq(ConvLine) |->
        IF z[1] \in DOMAIN s /\ Wanted(s[z[1]], c) THEN Append(z[2], s[z[1]]) ELSE z[2]]

StepIs(F, s, c) ==
    \A i \in Nat, q \in Seq(ConvLine) :
       F[<<i, q>>] = IF i \in DOMAIN s /\ Wanted(s[i], c) THEN Append(q, s[i]) ELSE q

LEMMA StepTyped ==
    ASSUME NEW s \in Seq(ConvLine), NEW c
    PROVE  /\ StepOf(s, c) \in [Nat \X Seq(ConvLine) -> Seq(ConvLine)]
           /\ StepIs(StepOf(s, c), s, c)
<1>1. \A i \in DOMAIN s : s[i] \in ConvLine
  BY SMT
<1>2. \A i \in Nat, q \in Seq(ConvLine) :
         (IF i \in DOMAIN s /\ Wanted(s[i], c) THEN Append(q, s[i]) ELSE q) \in Seq(ConvLine)
  BY <1>1, AppendTyped
<1>3. \A z \in Nat \X Seq(ConvLine) :
         (IF z[1] \in DOMAIN s /\ Wanted(s[z[1]], c) THEN Append(z[2], s[z[1]]) ELSE z[2]) \in Seq(ConvLine)
  BY <1>2, SMT
<1>4. StepOf(s, c) \in [Nat \X Seq(ConvLine) -> Seq(ConvLine)]
  BY <1>3, Zenon DEF StepOf
<1>5. \A i \in Nat, q \in Seq(ConvLine) :
         StepOf(s, c)[<<i, q>>] =
            IF i \in DOMAIN s /\ Wanted(s[i], c) THEN Append(q, s[i]) ELSE q
  BY SMT DEF StepOf
<1> QED BY <1>4, <1>5 DEF StepIs

\* Theirs is a recursion on Nat, of which Recursion (NumberTheorems) knows.
LEMMA TheirsIs ==
    ASSUME NEW s \in Seq(ConvLine), NEW c
    PROVE  \E g \in UpToN(Len(s), Seq(ConvLine), << >>, StepOf(s, c)) :
              Theirs(s, c) = g[Len(s)]
<1>0. \A i \in Nat, q \in Seq(ConvLine) :
         StepOf(s, c)[<<i, q>>] =
            IF i \in DOMAIN s /\ Wanted(s[i], c) THEN Append(q, s[i]) ELSE q
  <2>1. StepIs(StepOf(s, c), s, c)
    BY StepTyped
  <2> QED BY <2>1 DEF StepIs
<1> DEFINE F == StepOf(s, c)
           n == Len(s)
           V == Seq(ConvLine)
           F0 == [z \in (0 .. n) \X V |-> F[z]]
           Def(f) == [i \in 0 .. n |->
                        IF i = 0 THEN << >>
                        ELSE IF s[i].conv = c /\ s[i].from = "other"
                             THEN Append(f[i - 1], s[i]) ELSE f[i - 1]]
           h == CHOOSE f : f = Def(f)
<1>1. n \in Nat /\ DOMAIN s = 1 .. n /\ << >> \in V
  BY SMT
<1>2. F0 \in [(0 .. n) \X V -> V]
  <2> HIDE DEF F
  <2>1. F \in [Nat \X V -> V]
    BY StepTyped DEF F
  <2> QED BY <1>1, <2>1
<1>3. \A i \in 1 .. n, q \in V :
         F0[<<i, q>>] = F[<<i, q>>] /\
         F[<<i, q>>] = IF Wanted(s[i], c) THEN Append(q, s[i]) ELSE q
  <2>1. \A i \in 0 .. n, q \in V : F0[<<i, q>>] = F[<<i, q>>]
    BY SMT
  <2>2. \A i \in Nat, q \in V :
           F[<<i, q>>] = IF i \in DOMAIN s /\ Wanted(s[i], c) THEN Append(q, s[i]) ELSE q
    BY <1>0
  <2> HIDE DEF F, F0, V
  <2> TAKE i \in 1 .. n, q \in V
  <2>3. i \in 0 .. n /\ i \in Nat /\ i \in DOMAIN s
    BY <1>1
  <2>4. F0[<<i, q>>] = F[<<i, q>>]
    BY <2>1, <2>3
  <2>5. F[<<i, q>>] = IF i \in DOMAIN s /\ Wanted(s[i], c) THEN Append(q, s[i]) ELSE q
    BY <2>2, <2>3
  <2> QED BY <2>3, <2>4, <2>5
<1>4. Initial(0 .. n) /\ 0 .. n \in SUBSET Nat
  BY <1>1 DEF Initial
<1> HIDE DEF F, F0, V, n
<1>5. PICK g \in [0 .. n -> V] : Recursive(g, 0 .. n, << >>, F0)
  BY <1>1, <1>2, <1>4, Recursion, Zenon
<1>6. g[0] = << >> /\ \A i \in 1 .. n : g[i] = F[<<i, g[i - 1]>>]
                                     /\ g[i - 1] \in V
  <2>1. \A i \in 0 .. n : g[i] = IF i = 0 THEN << >> ELSE F0[<<i, g[i - 1]>>]
    BY <1>5 DEF Recursive
  <2>2. \A i \in 1 .. n : i \in 0 .. n /\ i # 0 /\ i - 1 \in 0 .. n
    BY <1>1
  <2>3. \A i \in 1 .. n : g[i - 1] \in V
    BY <1>5, <2>2
  <2>4. \A i \in 1 .. n : g[i] = F[<<i, g[i - 1]>>]
    <3> TAKE i \in 1 .. n
    <3>1. g[i] = F0[<<i, g[i - 1]>>]
      BY <2>1, <2>2
    <3>2. F0[<<i, g[i - 1]>>] = F[<<i, g[i - 1]>>]
      BY <1>3, <2>3
    <3> QED BY <3>1, <3>2
  <2>5. g[0] = << >>
    <3>1. 0 \in 0 .. n
      BY <1>1
    <3> QED BY <2>1, <3>1
  <2> QED BY <2>3, <2>4, <2>5
<1>7. \A f : (f = Def(f)) => f = g
  <2> SUFFICES ASSUME NEW f, f = Def(f) PROVE f = g
    OBVIOUS
  <2>0. DOMAIN f = 0 .. n
    BY Zenon
  <2>1. \A i \in 0 .. n : f[i] = IF i = 0 THEN << >>
                                ELSE IF Wanted(s[i], c) THEN Append(f[i - 1], s[i]) ELSE f[i - 1]
    BY Zenon DEF Wanted
  <2> DEFINE S == {i \in Nat : i <= n => f[i] = g[i]}
  <2>2. 0 \in S
    BY <1>1, <1>6, <2>1
  <2>3. ASSUME NEW i \in Nat, i \in S PROVE i + 1 \in S
    <3> SUFFICES ASSUME i + 1 <= n PROVE f[i + 1] = g[i + 1]
      OBVIOUS
    <3>1. i + 1 \in 1 .. n /\ i + 1 \in 0 .. n /\ i + 1 # 0 /\ (i + 1) - 1 = i /\ i <= n
      BY <1>1
    <3>2. f[i] = g[i]
      BY <2>3, <3>1
    <3>3. g[i + 1] = F[<<i + 1, g[i]>>] /\ g[i] \in V
      <4> DEFINE j == i + 1
      <4>1. g[j] = F[<<j, g[j - 1]>>] /\ g[j - 1] \in V
        BY <1>6, <3>1
      <4> QED BY <3>1, <4>1
    <3>4. f[i + 1] = IF Wanted(s[i + 1], c) THEN Append(f[i], s[i + 1]) ELSE f[i]
      <4> DEFINE j == i + 1
      <4>1. f[j] = IF j = 0 THEN << >>
                  ELSE IF Wanted(s[j], c) THEN Append(f[j - 1], s[j]) ELSE f[j - 1]
        BY <2>1, <3>1, Zenon
      <4> HIDE DEF j
      <4>2. j # 0 /\ j - 1 = i
        BY <3>1 DEF j
      <4> QED BY <4>1, <4>2 DEF j
    <3> QED BY <1>3, <3>1, <3>2, <3>3, <3>4
  <2> HIDE DEF S
  <2>4. Nat \subseteq S
    BY <2>2, <2>3, Induction
  <2>5. \A i \in 0 .. n : f[i] = g[i]
    <3> TAKE i \in 0 .. n
    <3>1. i \in Nat /\ i <= n
      BY <1>1
    <3>2. i \in S
      BY <2>4, <3>1
    <3> QED BY <3>1, <3>2 DEF S
  <2> QED BY <1>5, <2>0, <2>5, Zenon
<1>8. g = Def(g)
  <2>1. \A i \in 0 .. n : g[i] = IF i = 0 THEN << >>
                                ELSE IF s[i].conv = c /\ s[i].from = "other"
                                     THEN Append(g[i - 1], s[i]) ELSE g[i - 1]
    <3> TAKE i \in 0 .. n
    <3>1. CASE i = 0
      BY <1>6, <3>1
    <3>2. CASE i # 0
      <4>1. i \in 1 .. n
        BY <1>1, <3>2
      <4> QED BY <1>3, <1>6, <3>2, <4>1 DEF Wanted
    <3> QED BY <3>1, <3>2
  <2> QED BY <1>5, <2>1, Zenon
<1>9. h = g
  <2>1. h = Def(h)
    BY <1>8, Zenon
  <2> HIDE DEF h
  <2> QED BY <1>7, <2>1
<1>10. Theirs(s, c) = h[n]
  BY Zenon DEF Theirs, n
<1>11. g \in UpToN(n, V, << >>, F)
  BY <1>5, <1>6 DEF UpToN
<1> HIDE DEF h, Def
<1> QED BY <1>9, <1>10, <1>11 DEF n, V, F

LEMMA TheirsTyped ==
    ASSUME NEW s \in Seq(ConvLine), NEW c
    PROVE  Theirs(s, c) \in Seq(ConvLine)
<1>1. PICK g \in UpToN(Len(s), Seq(ConvLine), << >>, StepOf(s, c)) : Theirs(s, c) = g[Len(s)]
  BY TheirsIs
<1>2. Len(s) \in 0 .. Len(s)
  BY SMT
<1>3. g \in [0 .. Len(s) -> Seq(ConvLine)]
  BY Zenon DEF UpToN
<1> QED BY <1>1, <1>2, <1>3

LEMMA TheirsEmpty ==
    ASSUME NEW c PROVE Theirs(<< >>, c) = << >>
<1>1. << >> \in Seq(ConvLine) /\ Len(<< >>) = 0
  BY SMT
<1>2. PICK g \in UpToN(Len(<< >>), Seq(ConvLine), << >>, StepOf(<< >>, c)) :
         Theirs(<< >>, c) = g[Len(<< >>)]
  BY <1>1, TheirsIs
<1> QED BY <1>1, <1>2 DEF UpToN

\* One line more is at the end, if it is wanted.
LEMMA TheirsAppend ==
    ASSUME NEW s \in Seq(ConvLine), NEW x \in ConvLine, NEW c
    PROVE  /\ Wanted(x, c) => Theirs(Append(s, x), c) = Append(Theirs(s, c), x)
           /\ ~Wanted(x, c) => Theirs(Append(s, x), c) = Theirs(s, c)
<1> DEFINE t == Append(s, x)
           n == Len(s)
           V == Seq(ConvLine)
           F == StepOf(t, c)
           G == StepOf(s, c)
<1>1. /\ t \in V /\ n \in Nat /\ Len(t) = n + 1 /\ t[n + 1] = x
      /\ DOMAIN s = 1 .. n /\ DOMAIN t = 1 .. n + 1
      /\ \A i \in 1 .. n : t[i] = s[i]
  BY SMT
<1>2. StepIs(F, t, c) /\ StepIs(G, s, c)
  BY <1>1, StepTyped
<1>3. PICK g \in UpToN(n, V, << >>, G) : Theirs(s, c) = g[n]
  BY TheirsIs
<1>4. PICK h \in UpToN(n + 1, V, << >>, F) : Theirs(t, c) = h[n + 1]
  <2>1. \E h \in UpToN(Len(t), V, << >>, F) : Theirs(t, c) = h[Len(t)]
    BY <1>1, TheirsIs
  <2> QED BY <1>1, <2>1
<1> HIDE DEF t, n, V, F, G
<1>5. \A i \in 1 .. n, q \in V : G[<<i, q>>] = F[<<i, q>>]
  <2> TAKE i \in 1 .. n, q \in V
  <2>1. i \in Nat /\ i \in DOMAIN s /\ i \in DOMAIN t /\ t[i] = s[i]
    BY <1>1
  <2>2. G[<<i, q>>] = IF i \in DOMAIN s /\ Wanted(s[i], c) THEN Append(q, s[i]) ELSE q
    BY <1>2, <2>1 DEF StepIs, V
  <2>3. F[<<i, q>>] = IF i \in DOMAIN t /\ Wanted(t[i], c) THEN Append(q, t[i]) ELSE q
    BY <1>2, <2>1 DEF StepIs, V
  <2> QED BY <2>1, <2>2, <2>3
<1>6. g \in UpToN(n, V, << >>, F)
  <2>1. g \in [0 .. n -> V] /\ g[0] = << >> /\ \A i \in 1 .. n : g[i] = G[<<i, g[i - 1]>>]
    BY <1>3 DEF UpToN
  <2>2. \A i \in 1 .. n : g[i - 1] \in V
    <3> TAKE i \in 1 .. n
    <3>1. i - 1 \in 0 .. n
      BY <1>1
    <3> QED BY <2>1, <3>1
  <2>3. \A i \in 1 .. n : g[i] = F[<<i, g[i - 1]>>]
    BY <1>5, <2>1, <2>2
  <2> QED BY <2>1, <2>3 DEF UpToN
<1>7. h[n] = g[n]
  <2>1. n + 1 \in Nat
    BY <1>1
  <2>2. \A i \in Nat : i <= n /\ i <= n + 1 => g[i] = h[i]
    BY <1>1, <1>4, <1>6, <2>1, Agree
  <2> QED BY <1>1, <2>2
<1>8. h[n + 1] = F[<<n + 1, h[n]>>] /\ h[n] \in V
  <2> DEFINE j == n + 1
  <2>1. j \in 1 .. n + 1 /\ j - 1 = n /\ n \in 0 .. n + 1
    BY <1>1
  <2>2. h[j] = F[<<j, h[j - 1]>>] /\ h \in [0 .. n + 1 -> V]
    BY <1>4, <2>1 DEF UpToN
  <2> QED BY <2>1, <2>2
<1>9. F[<<n + 1, h[n]>>] = IF Wanted(x, c) THEN Append(h[n], x) ELSE h[n]
  <2>1. n + 1 \in Nat /\ n + 1 \in DOMAIN t
    BY <1>1
  <2>2. F[<<n + 1, h[n]>>] =
           IF n + 1 \in DOMAIN t /\ Wanted(t[n + 1], c) THEN Append(h[n], t[n + 1]) ELSE h[n]
    BY <1>2, <1>8, <2>1 DEF StepIs, V
  <2> QED BY <1>1, <2>1, <2>2
<1>10. Theirs(t, c) = IF Wanted(x, c) THEN Append(Theirs(s, c), x) ELSE Theirs(s, c)
  BY <1>3, <1>4, <1>7, <1>8, <1>9
<1> QED BY <1>10 DEF t

LEMMA TheirsOne ==
    ASSUME NEW x \in ConvLine, NEW c
    PROVE  /\ Wanted(x, c) => Theirs(<<x>>, c) = <<x>>
           /\ ~Wanted(x, c) => Theirs(<<x>>, c) = << >>
<1>1. << >> \in Seq(ConvLine) /\ Append(<< >>, x) = <<x>>
  BY SMT
<1>2. /\ Wanted(x, c) => Theirs(Append(<< >>, x), c) = Append(Theirs(<< >>, c), x)
      /\ ~Wanted(x, c) => Theirs(Append(<< >>, x), c) = Theirs(<< >>, c)
  BY <1>1, TheirsAppend
<1> QED BY <1>1, <1>2, TheirsEmpty

\* A sequence that is not empty ends in its last element.
LEMMA EndsInLast ==
    ASSUME NEW S, NEW n \in Nat, NEW t \in Seq(S), Len(t) = n + 1
    PROVE  \E u \in Seq(S), x \in S : t = Append(u, x) /\ Len(u) = n /\ x = t[n + 1]
<1> DEFINE u == [i \in 1 .. n |-> t[i]]
           x == t[n + 1]
<1>1. \A i \in 1 .. n + 1 : t[i] \in S
  BY SMT
<1>2. u \in Seq(S) /\ Len(u) = n /\ x \in S
  BY <1>1, SMT
<1>3. Append(u, x) \in Seq(S) /\ Len(Append(u, x)) = n + 1
  BY <1>2, SMT
<1>4. \A i \in 1 .. n + 1 : Append(u, x)[i] = t[i]
  <2> TAKE i \in 1 .. n + 1
  <2>1. CASE i = n + 1
    BY <1>2, <2>1, SMT
  <2>2. CASE i # n + 1
    <3>1. i \in 1 .. n /\ u[i] = t[i]
      BY <2>2, SMT
    <3> HIDE DEF u
    <3> QED BY <1>2, <3>1, SMT
  <2> QED BY <2>1, <2>2
<1> HIDE DEF u, x
<1>5. t = Append(u, x)
  BY <1>3, <1>4, SeqEqual
<1> QED BY <1>2, <1>5 DEF x

LEMMA AppendOfConcat ==
    ASSUME NEW s \in Seq(ConvLine), NEW t \in Seq(ConvLine), NEW x \in ConvLine
    PROVE  Append(s \o t, x) = s \o Append(t, x)
<1>1. <<x>> \in Seq(ConvLine) /\ s \o t \in Seq(ConvLine)
  BY SMT
<1>2. Append(s \o t, x) = (s \o t) \o <<x>> /\ Append(t, x) = t \o <<x>>
  BY <1>1, AppendIsConcat
<1> QED BY <1>1, <1>2, ConcatAssociative

LEMMA TheirsConcat ==
    ASSUME NEW s \in Seq(ConvLine), NEW t \in Seq(ConvLine), NEW c
    PROVE  Theirs(s \o t, c) = Theirs(s, c) \o Theirs(t, c)
<1> DEFINE Holds(u) == Theirs(s \o u, c) = Theirs(s, c) \o Theirs(u, c)
           Lengths == {n \in Nat : \A u \in Seq(ConvLine) : Len(u) = n => Holds(u)}
<1>1. 0 \in Lengths
  <2> SUFFICES ASSUME NEW u \in Seq(ConvLine), Len(u) = 0 PROVE Holds(u)
    OBVIOUS
  <2>1. u = << >> /\ s \o << >> = s
    BY SMT
  <2>2. Theirs(s, c) \o << >> = Theirs(s, c)
    BY TheirsTyped, ConcatEmptySeq
  <2> QED BY <2>1, <2>2, TheirsEmpty
<1>2. ASSUME NEW n \in Nat, n \in Lengths PROVE n + 1 \in Lengths
  <2> SUFFICES ASSUME NEW t1 \in Seq(ConvLine), Len(t1) = n + 1 PROVE Holds(t1)
    OBVIOUS
  <2>1. PICK u \in Seq(ConvLine), x \in ConvLine : t1 = Append(u, x) /\ Len(u) = n
    <3>1. \E u \in Seq(ConvLine), x \in ConvLine :
             t1 = Append(u, x) /\ Len(u) = n /\ x = t1[n + 1]
      BY EndsInLast, ZenonT(30)
    <3> QED BY <3>1
  <2>2. Holds(u)
    BY <1>2, <2>1
  <2>3. s \o t1 = Append(s \o u, x) /\ s \o u \in Seq(ConvLine)
    BY <2>1, SMT
  <2>4. /\ Wanted(x, c) => Theirs(s \o t1, c) = Append(Theirs(s \o u, c), x)
        /\ ~Wanted(x, c) => Theirs(s \o t1, c) = Theirs(s \o u, c)
    <3> DEFINE w == s \o u
    <3>1. w \in Seq(ConvLine) /\ s \o t1 = Append(w, x)
      BY <2>3
    <3> HIDE DEF w
    <3>2. /\ Wanted(x, c) => Theirs(Append(w, x), c) = Append(Theirs(w, c), x)
          /\ ~Wanted(x, c) => Theirs(Append(w, x), c) = Theirs(w, c)
      BY <3>1, TheirsAppend
    <3> QED BY <3>1, <3>2 DEF w
  <2>5. /\ Wanted(x, c) => Theirs(t1, c) = Append(Theirs(u, c), x)
        /\ ~Wanted(x, c) => Theirs(t1, c) = Theirs(u, c)
    BY <2>1, TheirsAppend
  <2>7. Theirs(s, c) \in Seq(ConvLine) /\ Theirs(u, c) \in Seq(ConvLine)
    BY TheirsTyped
  <2>8. Append(Theirs(s, c) \o Theirs(u, c), x) = Theirs(s, c) \o Append(Theirs(u, c), x)
    <3> DEFINE a == Theirs(s, c)
               b == Theirs(u, c)
    <3>1. a \in Seq(ConvLine) /\ b \in Seq(ConvLine)
      BY <2>7
    <3> HIDE DEF a, b
    <3>2. Append(a \o b, x) = a \o Append(b, x)
      BY <3>1, AppendOfConcat, Zenon
    <3> QED BY <3>2 DEF a, b
  <2> QED BY <2>2, <2>4, <2>5, <2>8
<1> HIDE DEF Lengths
<1>3. Nat \subseteq Lengths
  BY <1>1, <1>2, Induction
<1>4. Len(t) \in Lengths
  BY <1>3, SMT
<1> QED BY <1>4 DEF Lengths

(***************************************************************************)
(* FlattenSeq of a concatenation is the concatenation.                     *)
(***************************************************************************)

\* One more sequence is put behind.
JoinOf(ss) ==
    [z \in Nat \X Seq(ConvLine) |->
        IF z[1] \in DOMAIN ss THEN z[2] \o ss[z[1]] ELSE z[2]]
JoinIs(F, ss) ==
    \A i \in Nat, q \in Seq(ConvLine) :
       F[<<i, q>>] = IF i \in DOMAIN ss THEN q \o ss[i] ELSE q

LEMMA JoinTyped ==
    ASSUME NEW ss \in Seq(Seq(ConvLine))
    PROVE  /\ JoinOf(ss) \in [Nat \X Seq(ConvLine) -> Seq(ConvLine)]
           /\ JoinIs(JoinOf(ss), ss)
<1>1. \A i \in DOMAIN ss : ss[i] \in Seq(ConvLine)
  BY SMT
<1>2. \A i \in Nat, q \in Seq(ConvLine) :
         (IF i \in DOMAIN ss THEN q \o ss[i] ELSE q) \in Seq(ConvLine)
  <2> TAKE i \in Nat, q \in Seq(ConvLine)
  <2>1. i \in DOMAIN ss => q \o ss[i] \in Seq(ConvLine)
    BY <1>1, ConcatTyped
  <2> QED BY <2>1
<1>3. \A z \in Nat \X Seq(ConvLine) :
         (IF z[1] \in DOMAIN ss THEN z[2] \o ss[z[1]] ELSE z[2]) \in Seq(ConvLine)
  BY <1>2, SMT
<1>4. JoinOf(ss) \in [Nat \X Seq(ConvLine) -> Seq(ConvLine)]
  BY <1>3, Zenon DEF JoinOf
<1>5. \A i \in Nat, q \in Seq(ConvLine) :
         JoinOf(ss)[<<i, q>>] = IF i \in DOMAIN ss THEN q \o ss[i] ELSE q
  BY SMT DEF JoinOf
<1> QED BY <1>4, <1>5 DEF JoinIs

\* FlattenSeq is such a recursion, too.
LEMMA FlattenIs ==
    ASSUME NEW ss \in Seq(Seq(ConvLine))
    PROVE  \E g \in UpToN(Len(ss), Seq(ConvLine), << >>, JoinOf(ss)) :
              FlattenSeq(ss) = g[Len(ss)]
<1>0. \A i \in Nat, q \in Seq(ConvLine) :
         JoinOf(ss)[<<i, q>>] = IF i \in DOMAIN ss THEN q \o ss[i] ELSE q
  <2>1. JoinIs(JoinOf(ss), ss)
    BY JoinTyped
  <2> QED BY <2>1 DEF JoinIs
<1> DEFINE F == JoinOf(ss)
           n == Len(ss)
           V == Seq(ConvLine)
           F0 == [z \in (0 .. n) \X V |-> F[z]]
           Def(f) == [i \in 1 .. n |-> IF i = 1 THEN ss[i] ELSE f[i - 1] \o ss[i]]
           h == CHOOSE f : f = Def(f)
<1>1. n \in Nat /\ DOMAIN ss = 1 .. n /\ << >> \in V
  BY SMT
<1>20. \A i \in 1 .. n : ss[i] \in V
  BY SMT
<1>2. F0 \in [(0 .. n) \X V -> V]
  <2> HIDE DEF F
  <2>1. F \in [Nat \X V -> V]
    BY JoinTyped DEF F
  <2> QED BY <1>1, <2>1
<1>3. \A i \in 1 .. n, q \in V :
         F0[<<i, q>>] = F[<<i, q>>] /\ F[<<i, q>>] = q \o ss[i]
  <2>1. \A i \in 0 .. n, q \in V : F0[<<i, q>>] = F[<<i, q>>]
    BY SMT
  <2>2. \A i \in Nat, q \in V : F[<<i, q>>] = IF i \in DOMAIN ss THEN q \o ss[i] ELSE q
    BY <1>0
  <2> HIDE DEF F, F0, V
  <2> TAKE i \in 1 .. n, q \in V
  <2>3. i \in 0 .. n /\ i \in Nat /\ i \in DOMAIN ss
    BY <1>1
  <2>4. F0[<<i, q>>] = F[<<i, q>>]
    BY <2>1, <2>3
  <2>5. F[<<i, q>>] = IF i \in DOMAIN ss THEN q \o ss[i] ELSE q
    BY <2>2, <2>3
  <2> QED BY <2>3, <2>4, <2>5
<1>4. Initial(0 .. n) /\ 0 .. n \in SUBSET Nat
  BY <1>1 DEF Initial
<1> HIDE DEF F, F0, n
<1>5. PICK g \in [0 .. n -> V] : Recursive(g, 0 .. n, << >>, F0)
  <2> HIDE DEF V
  <2> QED BY <1>1, <1>2, <1>4, Recursion, Zenon
<1>21. \A s \in V : << >> \o s = s
  BY ConcatEmptySeq
<1> HIDE DEF V
<1>6. g[0] = << >> /\ \A i \in 1 .. n : /\ g[i] = F[<<i, g[i - 1]>>]
                                        /\ g[i] = g[i - 1] \o ss[i]
                                        /\ g[i - 1] \in V
  <2>1. \A i \in 0 .. n : g[i] = IF i = 0 THEN << >> ELSE F0[<<i, g[i - 1]>>]
    BY <1>5 DEF Recursive
  <2>2. \A i \in 1 .. n : i \in 0 .. n /\ i # 0 /\ i - 1 \in 0 .. n
    BY <1>1
  <2>3. \A i \in 1 .. n : g[i - 1] \in V
    BY <1>5, <2>2
  <2>4. \A i \in 1 .. n : g[i] = F[<<i, g[i - 1]>>] /\ g[i] = g[i - 1] \o ss[i]
    <3> TAKE i \in 1 .. n
    <3>1. g[i] = F0[<<i, g[i - 1]>>]
      BY <2>1, <2>2
    <3>2. F0[<<i, g[i - 1]>>] = F[<<i, g[i - 1]>>] /\ F[<<i, g[i - 1]>>] = g[i - 1] \o ss[i]
      BY <1>3, <2>3
    <3> QED BY <3>1, <3>2
  <2>5. g[0] = << >>
    <3>1. 0 \in 0 .. n
      BY <1>1
    <3> QED BY <2>1, <3>1
  <2> QED BY <2>3, <2>4, <2>5
<1> DEFINE g1 == [i \in 1 .. n |-> g[i]]
<1>7. \A i \in 1 .. n : g[i] = IF i = 1 THEN ss[i] ELSE g[i - 1] \o ss[i]
  <2> TAKE i \in 1 .. n
  <2>1. CASE i = 1
    <3>1. g[i - 1] = << >> /\ << >> \o ss[i] = ss[i]
      <4>1. i - 1 = 0
        BY <2>1
      <4>2. g[i - 1] = g[0]
        BY <4>1
      <4> QED BY <1>6, <1>20, <1>21, <4>2
    <3>2. g[i] = g[i - 1] \o ss[i]
      BY <1>6
    <3> QED BY <2>1, <3>1, <3>2
  <2>2. CASE i # 1
    BY <1>6, <2>2
  <2> QED BY <2>1, <2>2
<1>8. g1 = Def(g1)
  <2>1. \A i \in 1 .. n : g1[i] = IF i = 1 THEN ss[i] ELSE g1[i - 1] \o ss[i]
    <3> TAKE i \in 1 .. n
    <3>1. i # 1 => i - 1 \in 1 .. n
      BY <1>1
    <3>2. i # 1 => g1[i - 1] = g[i - 1]
      BY <3>1
    <3> QED BY <1>7, <3>2
  <2> HIDE DEF g1
  <2>2. DOMAIN g1 = 1 .. n /\ g1 = [i \in 1 .. n |-> g1[i]]
    BY DEF g1
  <2> QED BY <2>1, <2>2, Zenon
<1>9. h = Def(h)
  <2> HIDE DEF g1
  <2> QED BY <1>8, Zenon
<1> HIDE DEF h, g1
<1>10. \A i \in 1 .. n : h[i] = g[i]
  <2>1. \A i \in 1 .. n : h[i] = IF i = 1 THEN ss[i] ELSE h[i - 1] \o ss[i]
    BY <1>9, Zenon
  <2> DEFINE S == {i \in Nat : i \in 1 .. n => h[i] = g[i]}
  <2>2. 0 \in S
    OBVIOUS
  <2>3. ASSUME NEW i \in Nat, i \in S PROVE i + 1 \in S
    <3> SUFFICES ASSUME i + 1 \in 1 .. n PROVE h[i + 1] = g[i + 1]
      OBVIOUS
    <3> DEFINE j == i + 1
    <3>1. h[j] = IF j = 1 THEN ss[j] ELSE h[j - 1] \o ss[j]
      BY <2>1
    <3>2. g[j] = IF j = 1 THEN ss[j] ELSE g[j - 1] \o ss[j]
      BY <1>7
    <3>3. j # 1 => h[j - 1] = g[j - 1]
      <4>1. j # 1 => j - 1 \in 1 .. n /\ j - 1 = i
        BY <1>1
      <4> QED BY <2>3, <4>1
    <3> QED BY <3>1, <3>2, <3>3
  <2> HIDE DEF S
  <2>4. Nat \subseteq S
    BY <2>2, <2>3, Induction
  <2> TAKE i \in 1 .. n
  <2>5. i \in S
    BY <1>1, <2>4
  <2> QED BY <2>5 DEF S
<1>11. FlattenSeq(ss) = g[n]
  <2>1. CASE n = 0
    <3>1. FlattenSeq(ss) = ss
      BY <2>1, Zenon DEF FlattenSeq, n
    <3>2. ss = << >>
      BY <2>1, SMT DEF n
    <3>3. g[n] = << >>
      BY <1>6, <2>1
    <3> QED BY <3>1, <3>2, <3>3
  <2>2. CASE n # 0
    <3>1. FlattenSeq(ss) = h[n]
      BY <2>2, Zenon DEF FlattenSeq, n, h, Def
    <3>2. n \in 1 .. n
      BY <1>1, <2>2
    <3> QED BY <1>10, <3>1, <3>2
  <2> QED BY <2>1, <2>2
<1>12. g \in UpToN(n, V, << >>, F)
  BY <1>5, <1>6 DEF UpToN
<1> QED BY <1>11, <1>12 DEF n, V, F

LEMMA FlattenTyped ==
    ASSUME NEW ss \in Seq(Seq(ConvLine))
    PROVE  FlattenSeq(ss) \in Seq(ConvLine)
<1>1. PICK g \in UpToN(Len(ss), Seq(ConvLine), << >>, JoinOf(ss)) : FlattenSeq(ss) = g[Len(ss)]
  BY FlattenIs
<1>2. Len(ss) \in 0 .. Len(ss)
  BY SMT
<1>3. g \in [0 .. Len(ss) -> Seq(ConvLine)]
  BY Zenon DEF UpToN
<1> QED BY <1>1, <1>2, <1>3

LEMMA FlattenEmpty == FlattenSeq(<< >>) = << >>
<1>1. Len(<< >>) = 0
  BY SMT
<1> QED BY <1>1, Zenon DEF FlattenSeq

\* One sequence more is at the end.
LEMMA FlattenAppend ==
    ASSUME NEW ss \in Seq(Seq(ConvLine)), NEW x \in Seq(ConvLine)
    PROVE  FlattenSeq(Append(ss, x)) = FlattenSeq(ss) \o x
<1> DEFINE t == Append(ss, x)
           n == Len(ss)
           V == Seq(ConvLine)
           F == JoinOf(t)
           G == JoinOf(ss)
<1>1. /\ t \in Seq(V) /\ n \in Nat /\ Len(t) = n + 1 /\ t[n + 1] = x
      /\ DOMAIN ss = 1 .. n /\ DOMAIN t = 1 .. n + 1
      /\ \A i \in 1 .. n : t[i] = ss[i]
  <2>1. ss \in Seq(V) /\ x \in V
    OBVIOUS
  <2> HIDE DEF V
  <2> QED BY <2>1, SMT
<1>2. JoinIs(F, t) /\ JoinIs(G, ss)
  BY <1>1, JoinTyped
<1>3. PICK g \in UpToN(n, V, << >>, G) : FlattenSeq(ss) = g[n]
  BY FlattenIs
<1>4. PICK h \in UpToN(n + 1, V, << >>, F) : FlattenSeq(t) = h[n + 1]
  <2>1. \E h \in UpToN(Len(t), V, << >>, F) : FlattenSeq(t) = h[Len(t)]
    BY <1>1, FlattenIs
  <2> QED BY <1>1, <2>1
<1> HIDE DEF t, n, V, F, G
<1>5. \A i \in 1 .. n, q \in V : G[<<i, q>>] = F[<<i, q>>]
  <2> TAKE i \in 1 .. n, q \in V
  <2>1. i \in Nat /\ i \in DOMAIN ss /\ i \in DOMAIN t /\ t[i] = ss[i]
    BY <1>1
  <2>2. G[<<i, q>>] = IF i \in DOMAIN ss THEN q \o ss[i] ELSE q
    BY <1>2, <2>1 DEF JoinIs, V
  <2>3. F[<<i, q>>] = IF i \in DOMAIN t THEN q \o t[i] ELSE q
    BY <1>2, <2>1 DEF JoinIs, V
  <2> QED BY <2>1, <2>2, <2>3
<1>6. g \in UpToN(n, V, << >>, F)
  <2>1. g \in [0 .. n -> V] /\ g[0] = << >> /\ \A i \in 1 .. n : g[i] = G[<<i, g[i - 1]>>]
    BY <1>3 DEF UpToN
  <2>2. \A i \in 1 .. n : g[i - 1] \in V
    <3> TAKE i \in 1 .. n
    <3>1. i - 1 \in 0 .. n
      BY <1>1
    <3> QED BY <2>1, <3>1
  <2>3. \A i \in 1 .. n : g[i] = F[<<i, g[i - 1]>>]
    BY <1>5, <2>1, <2>2
  <2> QED BY <2>1, <2>3 DEF UpToN
<1>7. h[n] = g[n]
  <2>1. n + 1 \in Nat
    BY <1>1
  <2>2. \A i \in Nat : i <= n /\ i <= n + 1 => g[i] = h[i]
    BY <1>1, <1>4, <1>6, <2>1, Agree
  <2> QED BY <1>1, <2>2
<1>8. h[n + 1] = F[<<n + 1, h[n]>>] /\ h[n] \in V
  <2> DEFINE j == n + 1
  <2>1. j \in 1 .. n + 1 /\ j - 1 = n /\ n \in 0 .. n + 1
    BY <1>1
  <2>2. h[j] = F[<<j, h[j - 1]>>] /\ h \in [0 .. n + 1 -> V]
    BY <1>4, <2>1 DEF UpToN
  <2> QED BY <2>1, <2>2
<1>9. F[<<n + 1, h[n]>>] = h[n] \o x
  <2>1. n + 1 \in Nat /\ n + 1 \in DOMAIN t
    BY <1>1
  <2>2. F[<<n + 1, h[n]>>] = IF n + 1 \in DOMAIN t THEN h[n] \o t[n + 1] ELSE h[n]
    BY <1>2, <1>8, <2>1 DEF JoinIs, V
  <2> QED BY <1>1, <2>1, <2>2
<1>10. FlattenSeq(t) = FlattenSeq(ss) \o x
  BY <1>3, <1>4, <1>7, <1>8, <1>9
<1> QED BY <1>10 DEF t

LEMMA LinesAssociative ==
    ASSUME NEW a \in Seq(ConvLine), NEW b \in Seq(ConvLine), NEW d \in Seq(ConvLine)
    PROVE  (a \o b) \o d = a \o (b \o d)
BY ConcatAssociative

LEMMA FlattenConcat ==
    ASSUME NEW ss \in Seq(Seq(ConvLine)), NEW tt \in Seq(Seq(ConvLine))
    PROVE  FlattenSeq(ss \o tt) = FlattenSeq(ss) \o FlattenSeq(tt)
<1> DEFINE Holds(u) == FlattenSeq(ss \o u) = FlattenSeq(ss) \o FlattenSeq(u)
           Lengths == {n \in Nat : \A u \in Seq(Seq(ConvLine)) : Len(u) = n => Holds(u)}
<1>1. 0 \in Lengths
  <2> SUFFICES ASSUME NEW u \in Seq(Seq(ConvLine)), Len(u) = 0 PROVE Holds(u)
    OBVIOUS
  <2>1. u = << >> /\ ss \o << >> = ss
    BY EmptySeq, ConcatEmptySeq
  <2>2. FlattenSeq(ss) \o << >> = FlattenSeq(ss)
    BY FlattenTyped, ConcatEmptySeq
  <2> QED BY <2>1, <2>2, FlattenEmpty
<1>2. ASSUME NEW n \in Nat, n \in Lengths PROVE n + 1 \in Lengths
  <2> SUFFICES ASSUME NEW v \in Seq(Seq(ConvLine)), Len(v) = n + 1 PROVE Holds(v)
    OBVIOUS
  <2>1. PICK u \in Seq(Seq(ConvLine)), x \in Seq(ConvLine) : v = Append(u, x) /\ Len(u) = n
    <3>1. \E u \in Seq(Seq(ConvLine)), x \in Seq(ConvLine) :
             v = Append(u, x) /\ Len(u) = n /\ x = v[n + 1]
      BY EndsInLast, ZenonT(30)
    <3> QED BY <3>1
  <2>2. Holds(u)
    BY <1>2, <2>1
  <2> DEFINE w == ss \o u
             a == FlattenSeq(ss)
             b == FlattenSeq(u)
  <2>3. ss \o v = Append(w, x) /\ w \in Seq(Seq(ConvLine))
    <3>1. <<x>> \in Seq(Seq(ConvLine)) /\ w \in Seq(Seq(ConvLine))
      BY ConcatTyped
    <3>2. Append(w, x) = w \o <<x>> /\ Append(u, x) = u \o <<x>>
      BY <3>1, AppendIsConcat
    <3> QED BY <2>1, <3>1, <3>2, ConcatAssociative
  <2>4. a \in Seq(ConvLine) /\ b \in Seq(ConvLine)
    BY FlattenTyped
  <2>5. FlattenSeq(v) = b \o x
    BY <2>1, FlattenAppend
  <2>6. FlattenSeq(w) = a \o b
    BY <2>2
  <2> HIDE DEF w, a, b
  <2>7. FlattenSeq(ss \o v) = FlattenSeq(w) \o x
    BY <2>3, FlattenAppend
  <2>8. (a \o b) \o x = a \o (b \o x)
    BY <2>4, LinesAssociative
  <2> QED BY <2>5, <2>6, <2>7, <2>8 DEF a
<1> HIDE DEF Lengths
<1>3. Nat \subseteq Lengths
  BY <1>1, <1>2, Induction
<1>4. Len(tt) \in Lengths
  BY <1>3, LenProperties
<1> QED BY <1>4 DEF Lengths

LEMMA FlattenOne ==
    ASSUME NEW s \in Seq(ConvLine)
    PROVE  FlattenSeq(<<s>>) = s
<1>1. << >> \in Seq(Seq(ConvLine)) /\ Append(<< >>, s) = <<s>> /\ << >> \o s = s
  BY ConcatEmptySeq
<1> QED BY <1>1, FlattenAppend, FlattenEmpty

(***************************************************************************)
(* What others wrote among callbacks and among answers: of a concatenation *)
(* it is the concatenation.                                                *)
(***************************************************************************)
LEMMA LinesPushed ==
    /\ \A b \in Callbacks : PushedRun(b) \in Seq(ConvLine)
    /\ \A a \in Replies : PushedReply(a) \in Seq(ConvLine)
<1>1. << >> \in Seq(ConvLine)
  BY SMT
<1>2. \A b \in Callbacks : b.lines \in Seq(ConvLine)
  BY SMT DEF Callbacks
<1>3. \A a \in Replies : a.lines \in Seq(ConvLine)
  BY SMT DEF Replies
<1> QED BY <1>1, <1>2, <1>3, Zenon DEF PushedRun, PushedReply

LEMMA RunLinesTyped ==
    ASSUME NEW q \in Seq(Callbacks)
    PROVE  RunLines(q) \in Seq(Seq(ConvLine)) /\ Len(RunLines(q)) = Len(q)
<1>1. \A i \in DOMAIN q : q[i] \in Callbacks
  BY SMT
<1>2. \A i \in DOMAIN q : RunLines(q)[i] \in Seq(ConvLine)
  BY <1>1, LinesPushed DEF RunLines
<1>3. DOMAIN q = 1 .. Len(q) /\ Len(q) \in Nat
  BY SMT
<1>4. DOMAIN RunLines(q) = DOMAIN q
  BY Zenon DEF RunLines
<1>5. RunLines(q) \in [1 .. Len(q) -> Seq(ConvLine)]
  BY <1>2, <1>3, <1>4, Zenon DEF RunLines
<1> HIDE DEF RunLines
<1>6. \A n \in Nat : \A f \in [1 .. n -> Seq(ConvLine)] : f \in Seq(Seq(ConvLine)) /\ Len(f) = n
  BY SMT
<1> QED BY <1>3, <1>5, <1>6, Zenon

LEMMA ReplyLinesTyped ==
    ASSUME NEW q \in Seq(Replies)
    PROVE  ReplyLines(q) \in Seq(Seq(ConvLine)) /\ Len(ReplyLines(q)) = Len(q)
<1>1. \A i \in DOMAIN q : q[i] \in Replies
  BY SMT
<1>2. \A i \in DOMAIN q : ReplyLines(q)[i] \in Seq(ConvLine)
  BY <1>1, LinesPushed DEF ReplyLines
<1>3. DOMAIN q = 1 .. Len(q) /\ Len(q) \in Nat
  BY SMT
<1>4. DOMAIN ReplyLines(q) = DOMAIN q
  BY Zenon DEF ReplyLines
<1>5. ReplyLines(q) \in [1 .. Len(q) -> Seq(ConvLine)]
  BY <1>2, <1>3, <1>4, Zenon DEF ReplyLines
<1> HIDE DEF ReplyLines
<1>6. \A n \in Nat : \A f \in [1 .. n -> Seq(ConvLine)] : f \in Seq(Seq(ConvLine)) /\ Len(f) = n
  BY SMT
<1> QED BY <1>3, <1>5, <1>6, Zenon

\* s is q mapped by g; a concatenation is mapped part by part.
Maps(g, q, s) == Len(s) = Len(q) /\ \A i \in DOMAIN q : s[i] = g[q[i]]

MapParts(S, T, g, q, r, s, t, u) ==
    /\ q \in Seq(S) /\ r \in Seq(S) /\ s \in Seq(T) /\ t \in Seq(T) /\ u \in Seq(T)
    /\ Maps(g, q, s) /\ Maps(g, r, t) /\ Maps(g, q \o r, u)

LEMMA MappedConcat ==
    ASSUME NEW S, NEW T, NEW g, NEW q, NEW r, NEW s, NEW t, NEW u,
           MapParts(S, T, g, q, r, s, t, u)
    PROVE  u = s \o t
<1>0. /\ q \in Seq(S) /\ r \in Seq(S) /\ s \in Seq(T) /\ t \in Seq(T) /\ u \in Seq(T)
      /\ Maps(g, q, s) /\ Maps(g, r, t) /\ Maps(g, q \o r, u)
  BY DEF MapParts
<1>1. /\ Len(q) \in Nat /\ DOMAIN q = 1 .. Len(q)
      /\ Len(r) \in Nat /\ DOMAIN r = 1 .. Len(r)
      /\ Len(q \o r) = Len(q) + Len(r) /\ DOMAIN (q \o r) = 1 .. Len(q) + Len(r)
      /\ \A i \in 1 .. Len(q) + Len(r) : (q \o r)[i] = IF i <= Len(q) THEN q[i] ELSE r[i - Len(q)]
  <2>1. q \o r \in Seq(S) /\ Len(q \o r) = Len(q) + Len(r)
    BY <1>0, ConcatProperties
  <2>2. \A i \in 1 .. Len(q) + Len(r) : (q \o r)[i] = IF i <= Len(q) THEN q[i] ELSE r[i - Len(q)]
    BY <1>0, ConcatProperties
  <2> QED BY <1>0, <2>1, <2>2, LenProperties
<1>2. /\ s \o t \in Seq(T) /\ Len(s \o t) = Len(q) + Len(r)
      /\ \A i \in 1 .. Len(q) + Len(r) : (s \o t)[i] = IF i <= Len(q) THEN s[i] ELSE t[i - Len(q)]
  <2>1. s \o t \in Seq(T) /\ Len(s \o t) = Len(s) + Len(t)
    BY <1>0, ConcatProperties
  <2>2. \A i \in 1 .. Len(s) + Len(t) : (s \o t)[i] = IF i <= Len(s) THEN s[i] ELSE t[i - Len(s)]
    BY <1>0, ConcatProperties
  <2>3. Len(s) = Len(q) /\ Len(t) = Len(r)
    BY <1>0 DEF Maps
  <2> QED BY <2>1, <2>2, <2>3
<1>3. \A i \in 1 .. Len(u) : u[i] = (s \o t)[i]
  <2> TAKE i \in 1 .. Len(u)
  <2>0. i \in 1 .. Len(q) + Len(r) /\ i \in DOMAIN (q \o r)
    BY <1>0, <1>1 DEF Maps
  <2>1. u[i] = g[(q \o r)[i]]
    BY <1>0, <2>0 DEF Maps
  <2>2. CASE i <= Len(q)
    <3>1. i \in DOMAIN q /\ (q \o r)[i] = q[i] /\ (s \o t)[i] = s[i]
      BY <1>1, <1>2, <2>0, <2>2
    <3>2. s[i] = g[q[i]]
      BY <1>0, <3>1 DEF Maps
    <3> QED BY <2>1, <3>1, <3>2
  <2>3. CASE ~(i <= Len(q))
    <3> DEFINE k == i - Len(q)
    <3>1. k \in DOMAIN r /\ (q \o r)[i] = r[k] /\ (s \o t)[i] = t[k]
      BY <1>1, <1>2, <2>0, <2>3
    <3>2. t[k] = g[r[k]]
      BY <1>0, <3>1 DEF Maps
    <3> QED BY <2>1, <3>1, <3>2
  <2> QED BY <2>2, <2>3
<1>4. Len(u) = Len(s \o t)
  BY <1>0, <1>1, <1>2 DEF Maps
<1> QED BY <1>0, <1>2, <1>3, <1>4, SeqEqual

LEMMA RunLinesConcat ==
    ASSUME NEW q \in Seq(Callbacks), NEW r \in Seq(Callbacks)
    PROVE  RunLines(q \o r) = RunLines(q) \o RunLines(r)
<1> DEFINE u == RunLines(q \o r)
           s == RunLines(q)
           t == RunLines(r)
           g == [b \in Callbacks |-> PushedRun(b)]
           V == Seq(ConvLine)
<1>1. q \o r \in Seq(Callbacks)
  BY ConcatTyped
<1>2. /\ u \in Seq(V) /\ Len(u) = Len(q \o r)
      /\ s \in Seq(V) /\ Len(s) = Len(q)
      /\ t \in Seq(V) /\ Len(t) = Len(r)
  BY <1>1, RunLinesTyped
<1>3. \A w \in Seq(Callbacks) : \A i \in DOMAIN w : RunLines(w)[i] = g[w[i]]
  <2>1. \A w \in Seq(Callbacks) : \A i \in DOMAIN w : w[i] \in Callbacks
    BY SMT
  <2> QED BY <2>1, Zenon DEF RunLines
<1>4. Maps(g, q \o r, u) /\ Maps(g, q, s) /\ Maps(g, r, t)
  BY <1>1, <1>2, <1>3, Zenon DEF Maps
<1> HIDE DEF u, s, t, g, V
<1>5. MapParts(Callbacks, V, g, q, r, s, t, u)
  BY <1>2, <1>4 DEF MapParts
<1>6. u = s \o t
  BY <1>5, MappedConcat
<1> QED BY <1>6 DEF u, s, t

LEMMA RunLinesOne ==
    ASSUME NEW b \in Callbacks
    PROVE  RunLines(<<b>>) = <<PushedRun(b)>>
BY SMT DEF RunLines

LEMMA RunsInTyped ==
    ASSUME NEW q \in Seq(Callbacks), NEW c
    PROVE  RunsIn(q, c) \in Seq(ConvLine)
BY RunLinesTyped, FlattenTyped, TheirsTyped DEF RunsIn

LEMMA RunsInEmpty ==
    ASSUME NEW c PROVE RunsIn(<< >>, c) = << >>
<1>1. RunLines(<< >>) = << >>
  BY SMT DEF RunLines
<1> QED BY <1>1, FlattenEmpty, TheirsEmpty DEF RunsIn

LEMMA RunsInConcat ==
    ASSUME NEW q \in Seq(Callbacks), NEW r \in Seq(Callbacks), NEW c
    PROVE  RunsIn(q \o r, c) = RunsIn(q, c) \o RunsIn(r, c)
<1> DEFINE s == RunLines(q)
           t == RunLines(r)
<1>1. s \in Seq(Seq(ConvLine)) /\ t \in Seq(Seq(ConvLine))
  BY RunLinesTyped
<1>2. RunLines(q \o r) = s \o t
  BY RunLinesConcat
<1>3. RunsIn(q \o r, c) = Theirs(FlattenSeq(s \o t), c)
  BY <1>2 DEF RunsIn
<1> HIDE DEF s, t
<1>4. FlattenSeq(s \o t) = FlattenSeq(s) \o FlattenSeq(t)
  BY <1>1, FlattenConcat
<1> DEFINE a == FlattenSeq(s)
           b == FlattenSeq(t)
<1>5. a \in Seq(ConvLine) /\ b \in Seq(ConvLine)
  BY <1>1, FlattenTyped
<1> HIDE DEF a, b
<1>6. Theirs(a \o b, c) = Theirs(a, c) \o Theirs(b, c)
  BY <1>5, TheirsConcat
<1> QED BY <1>3, <1>4, <1>6 DEF a, b, s, t, RunsIn

LEMMA RunsInOne ==
    ASSUME NEW b \in Callbacks, NEW c
    PROVE  RunsIn(<<b>>, c) = Theirs(PushedRun(b), c)
BY RunLinesOne, LinesPushed, FlattenOne DEF RunsIn

LEMMA ReplyLinesConcat ==
    ASSUME NEW q \in Seq(Replies), NEW r \in Seq(Replies)
    PROVE  ReplyLines(q \o r) = ReplyLines(q) \o ReplyLines(r)
<1> DEFINE u == ReplyLines(q \o r)
           s == ReplyLines(q)
           t == ReplyLines(r)
           g == [b \in Replies |-> PushedReply(b)]
           V == Seq(ConvLine)
<1>1. q \o r \in Seq(Replies)
  BY ConcatTyped
<1>2. /\ u \in Seq(V) /\ Len(u) = Len(q \o r)
      /\ s \in Seq(V) /\ Len(s) = Len(q)
      /\ t \in Seq(V) /\ Len(t) = Len(r)
  BY <1>1, ReplyLinesTyped
<1>3. \A w \in Seq(Replies) : \A i \in DOMAIN w : ReplyLines(w)[i] = g[w[i]]
  <2>1. \A w \in Seq(Replies) : \A i \in DOMAIN w : w[i] \in Replies
    BY SMT
  <2> QED BY <2>1, Zenon DEF ReplyLines
<1>4. Maps(g, q \o r, u) /\ Maps(g, q, s) /\ Maps(g, r, t)
  BY <1>1, <1>2, <1>3, Zenon DEF Maps
<1> HIDE DEF u, s, t, g, V
<1>5. MapParts(Replies, V, g, q, r, s, t, u)
  BY <1>2, <1>4 DEF MapParts
<1>6. u = s \o t
  BY <1>5, MappedConcat
<1> QED BY <1>6 DEF u, s, t

LEMMA ReplyLinesOne ==
    ASSUME NEW b \in Replies
    PROVE  ReplyLines(<<b>>) = <<PushedReply(b)>>
BY SMT DEF ReplyLines

LEMMA RepliesInTyped ==
    ASSUME NEW q \in Seq(Replies), NEW c
    PROVE  RepliesIn(q, c) \in Seq(ConvLine)
BY ReplyLinesTyped, FlattenTyped, TheirsTyped DEF RepliesIn

LEMMA RepliesInEmpty ==
    ASSUME NEW c PROVE RepliesIn(<< >>, c) = << >>
<1>1. ReplyLines(<< >>) = << >>
  BY SMT DEF ReplyLines
<1> QED BY <1>1, FlattenEmpty, TheirsEmpty DEF RepliesIn

LEMMA RepliesInConcat ==
    ASSUME NEW q \in Seq(Replies), NEW r \in Seq(Replies), NEW c
    PROVE  RepliesIn(q \o r, c) = RepliesIn(q, c) \o RepliesIn(r, c)
<1> DEFINE s == ReplyLines(q)
           t == ReplyLines(r)
<1>1. s \in Seq(Seq(ConvLine)) /\ t \in Seq(Seq(ConvLine))
  BY ReplyLinesTyped
<1>2. ReplyLines(q \o r) = s \o t
  BY ReplyLinesConcat
<1>3. RepliesIn(q \o r, c) = Theirs(FlattenSeq(s \o t), c)
  BY <1>2 DEF RepliesIn
<1> HIDE DEF s, t
<1>4. FlattenSeq(s \o t) = FlattenSeq(s) \o FlattenSeq(t)
  BY <1>1, FlattenConcat
<1> DEFINE a == FlattenSeq(s)
           b == FlattenSeq(t)
<1>5. a \in Seq(ConvLine) /\ b \in Seq(ConvLine)
  BY <1>1, FlattenTyped
<1> HIDE DEF a, b
<1>6. Theirs(a \o b, c) = Theirs(a, c) \o Theirs(b, c)
  BY <1>5, TheirsConcat
<1> QED BY <1>3, <1>4, <1>6 DEF a, b, s, t, RepliesIn

LEMMA RepliesInOne ==
    ASSUME NEW b \in Replies, NEW c
    PROVE  RepliesIn(<<b>>, c) = Theirs(PushedReply(b), c)
BY ReplyLinesOne, LinesPushed, FlattenOne DEF RepliesIn

\* Updates show the lines of the answer one by one.
LEMMA RunsOfUpdates ==
    ASSUME NEW lines \in Seq(ConvLine), NEW c
    PROVE  RunsIn(Updates(lines), c) = Theirs(lines, c)
<1> DEFINE Holds(u) == RunsIn(Updates(u), c) = Theirs(u, c)
           Lengths == {n \in Nat : \A u \in Seq(ConvLine) : Len(u) = n => Holds(u)}
<1>1. 0 \in Lengths
  <2> SUFFICES ASSUME NEW u \in Seq(ConvLine), Len(u) = 0 PROVE Holds(u)
    OBVIOUS
  <2>1. u = << >>
    BY SMT
  <2>2. Updates(<< >>) = << >>
    BY SMT DEF Updates
  <2> QED BY <2>1, <2>2, RunsInEmpty, TheirsEmpty
<1>2. ASSUME NEW n \in Nat, n \in Lengths PROVE n + 1 \in Lengths
  <2> SUFFICES ASSUME NEW v \in Seq(ConvLine), Len(v) = n + 1 PROVE Holds(v)
    OBVIOUS
  <2>1. PICK u \in Seq(ConvLine), x \in ConvLine : v = Append(u, x) /\ Len(u) = n
    <3>1. \E u \in Seq(ConvLine), x \in ConvLine :
             v = Append(u, x) /\ Len(u) = n /\ x = v[n + 1]
      BY EndsInLast, ZenonT(30)
    <3> QED BY <3>1
  <2>2. Holds(u)
    BY <1>2, <2>1
  <2> DEFINE b == Callback("update", <<x>>)
  <2>3. <<x>> \in Seq(ConvLine) /\ <<x>> # << >> /\ u \o <<x>> = v
    BY <2>1, AppendIsConcat
  <2>4. b \in Callbacks /\ <<b>> \in Seq(Callbacks) /\ PushedRun(b) = <<x>>
    <3>1. b \in Callbacks
      BY <2>3, CallbacksTyped
    <3>2. b.run = "update" /\ b.lines = <<x>>
      BY DEF Callback
    <3>3. PushedRun(b) = <<x>>
      BY <3>2, SMT DEF PushedRun
    <3> HIDE DEF b
    <3> QED BY <3>1, <3>3
  <2>5. Updates(u) \in Seq(Callbacks)
    BY UpdatesTyped
  <2>6. Updates(v) = Updates(u) \o <<b>>
    <3>1. /\ DOMAIN Updates(u) = DOMAIN u /\ Updates(v) \in Seq(Callbacks) /\ DOMAIN Updates(v) = DOMAIN v
      BY UpdatesTyped
    <3>2. /\ DOMAIN u = 1 .. n /\ DOMAIN v = 1 .. n + 1 /\ v[n + 1] = x
          /\ \A i \in 1 .. n : v[i] = u[i]
      BY <2>1, SMT
    <3>3. /\ \A i \in 1 .. n : Updates(u)[i] = Callback("update", <<u[i]>>)
          /\ \A i \in 1 .. n + 1 : Updates(v)[i] = Callback("update", <<v[i]>>)
      BY <3>2, Zenon DEF Updates
    <3>4. Len(Updates(u)) = n /\ Len(Updates(v)) = n + 1
      BY <2>5, <3>1, <3>2, SMT
    <3> HIDE DEF b
    <3>5. /\ Updates(u) \o <<b>> \in Seq(Callbacks) /\ Len(Updates(u) \o <<b>>) = n + 1
          /\ \A i \in 1 .. n : (Updates(u) \o <<b>>)[i] = Updates(u)[i]
          /\ (Updates(u) \o <<b>>)[n + 1] = b
      BY <2>4, <2>5, <3>4, SMT
    <3>6. \A i \in 1 .. n + 1 : Updates(v)[i] = (Updates(u) \o <<b>>)[i]
      <4> TAKE i \in 1 .. n + 1
      <4>1. CASE i = n + 1
        BY <3>2, <3>3, <3>5, <4>1 DEF b
      <4>2. CASE i # n + 1
        <5>1. i \in 1 .. n
          BY <4>2
        <5> QED BY <3>2, <3>3, <3>5, <5>1
      <4> QED BY <4>1, <4>2
    <3> QED BY <3>1, <3>4, <3>5, <3>6, SeqEqual
  <2> DEFINE p == Updates(u)
  <2> HIDE DEF b, p
  <2>7. RunsIn(Updates(v), c) = RunsIn(Updates(u), c) \o RunsIn(<<b>>, c)
    <3>1. p \in Seq(Callbacks) /\ <<b>> \in Seq(Callbacks)
      BY <2>4, <2>5 DEF p
    <3>2. RunsIn(p \o <<b>>, c) = RunsIn(p, c) \o RunsIn(<<b>>, c)
      BY <3>1, RunsInConcat
    <3> QED BY <2>6, <3>2 DEF p
  <2>8. RunsIn(<<b>>, c) = Theirs(<<x>>, c)
    BY <2>4, RunsInOne
  <2>9. Theirs(v, c) = Theirs(u, c) \o Theirs(<<x>>, c)
    <3> DEFINE w == <<x>>
    <3>1. w \in Seq(ConvLine) /\ v = u \o w
      BY <2>3
    <3> HIDE DEF w
    <3>2. Theirs(u \o w, c) = Theirs(u, c) \o Theirs(w, c)
      BY <3>1, TheirsConcat
    <3> QED BY <3>1, <3>2 DEF w
  <2> QED BY <2>2, <2>7, <2>8, <2>9
<1> HIDE DEF Lengths
<1>3. Nat \subseteq Lengths
  BY <1>1, <1>2, Induction
<1>4. Len(lines) \in Lengths
  BY <1>3, LenProperties
<1> QED BY <1>4 DEF Lengths

LEMMA AfterTyped ==
    ASSUME NEW S, NEW q \in Seq(S), NEW i \in 0 .. Len(q)
    PROVE  /\ After(q, i) \in Seq(S) /\ Len(After(q, i)) = Len(q) - i
           /\ \A k \in 1 .. Len(q) - i : After(q, i)[k] = q[i + k]
<1>1. Len(q) \in Nat /\ \A k \in 1 .. Len(q) : q[k] \in S
  BY SMT
<1>2. \A k \in 1 .. Len(q) - i : i + k \in 1 .. Len(q)
  BY <1>1
<1>3. After(q, i) \in [1 .. Len(q) - i -> S]
  BY <1>1, <1>2 DEF After
<1>4. Len(q) - i \in Nat
  BY <1>1
<1>5. \A k \in 1 .. Len(q) - i : After(q, i)[k] = q[i + k]
  BY Zenon DEF After
<1>6. /\ After(q, i) \in Seq(S) /\ Len(After(q, i)) = Len(q) - i
  <2> DEFINE m == Len(q) - i
             f == After(q, i)
  <2>1. m \in Nat /\ f \in [1 .. m -> S]
    BY <1>3, <1>4
  <2> HIDE DEF m, f
  <2>2. f \in Seq(S) /\ Len(f) = m
    BY <2>1, SMT
  <2> QED BY <2>2 DEF m, f
<1> QED BY <1>5, <1>6

LEMMA AfterConcat ==
    ASSUME NEW S, NEW q \in Seq(S), NEW r \in Seq(S), NEW i \in 0 .. Len(q)
    PROVE  After(q \o r, i) = After(q, i) \o r
<1> DEFINE a == After(q, i)
           b == After(q \o r, i)
<1>1. q \o r \in Seq(S) /\ Len(q \o r) = Len(q) + Len(r) /\ Len(q) \in Nat /\ Len(r) \in Nat
  BY ConcatProperties, LenProperties
<1>2. i \in 0 .. Len(q \o r)
  BY <1>1
<1>3. /\ a \in Seq(S) /\ Len(a) = Len(q) - i
      /\ \A k \in 1 .. Len(q) - i : a[k] = q[i + k]
  BY AfterTyped
<1>4. /\ b \in Seq(S) /\ Len(b) = Len(q) + Len(r) - i
      /\ \A k \in 1 .. Len(q) + Len(r) - i : b[k] = (q \o r)[i + k]
  <2> DEFINE w == q \o r
  <2>1. w \in Seq(S) /\ i \in 0 .. Len(w) /\ Len(w) = Len(q) + Len(r)
    BY <1>1, <1>2
  <2> HIDE DEF w
  <2>2. /\ After(w, i) \in Seq(S) /\ Len(After(w, i)) = Len(w) - i
        /\ \A k \in 1 .. Len(w) - i : After(w, i)[k] = w[i + k]
    BY <2>1, AfterTyped
  <2> QED BY <2>1, <2>2 DEF w
<1> HIDE DEF a, b
<1>5. a \o r \in Seq(S) /\ Len(a \o r) = Len(a) + Len(r)
      /\ \A k \in 1 .. Len(a) + Len(r) : (a \o r)[k] = IF k <= Len(a) THEN a[k] ELSE r[k - Len(a)]
  BY <1>3, ConcatProperties
<1>6. \A k \in 1 .. Len(q) + Len(r) : (q \o r)[k] = IF k <= Len(q) THEN q[k] ELSE r[k - Len(q)]
  BY ConcatProperties
<1>7. \A k \in 1 .. Len(b) : b[k] = (a \o r)[k]
  <2> TAKE k \in 1 .. Len(b)
  <2>0. k \in 1 .. Len(q) + Len(r) - i /\ i + k \in 1 .. Len(q) + Len(r)
        /\ k \in 1 .. Len(a) + Len(r)
    BY <1>1, <1>3, <1>4
  <2>1. CASE k <= Len(q) - i
    <3>1. k \in 1 .. Len(q) - i /\ i + k <= Len(q) /\ k <= Len(a)
      BY <1>1, <1>3, <2>0, <2>1
    <3> QED BY <1>3, <1>4, <1>5, <1>6, <2>0, <3>1
  <2>2. CASE ~(k <= Len(q) - i)
    <3>1. ~(i + k <= Len(q)) /\ ~(k <= Len(a)) /\ (i + k) - Len(q) = k - Len(a)
      BY <1>1, <1>3, <2>0, <2>2
    <3> QED BY <1>4, <1>5, <1>6, <2>0, <3>1
  <2> QED BY <2>1, <2>2
<1>8. Len(b) = Len(a \o r)
  BY <1>1, <1>3, <1>4, <1>5
<1> QED BY <1>4, <1>5, <1>7, <1>8, SeqEqual DEF a, b

LEMMA AfterConcatLast ==
    ASSUME NEW S, NEW q \in Seq(S), NEW x \in S
    PROVE  After(q \o <<x>>, Len(q) + 1) = << >>
<1>1. q \o <<x>> \in Seq(S) /\ Len(q \o <<x>>) = Len(q) + 1 /\ Len(q) \in Nat
  BY SMT
<1>2. Len(q) + 1 \in 0 .. Len(q \o <<x>>)
  BY <1>1
<1>3. After(q \o <<x>>, Len(q) + 1) \in Seq(S) /\ Len(After(q \o <<x>>, Len(q) + 1)) = 0
  <2> DEFINE w == q \o <<x>>
             i == Len(q) + 1
  <2>1. w \in Seq(S) /\ i \in 0 .. Len(w) /\ Len(w) = i /\ i \in Nat
    BY <1>1, <1>2
  <2> HIDE DEF w, i
  <2>2. After(w, i) \in Seq(S) /\ Len(After(w, i)) = Len(w) - i
    BY <2>1, AfterTyped
  <2> QED BY <2>1, <2>2 DEF w, i
<1> QED BY <1>3, EmptySeq

LEMMA AfterFirst ==
    ASSUME NEW S, NEW q \in Seq(S), q # << >>
    PROVE  After(q, 1) = Tail(q) /\ q = <<Head(q)>> \o Tail(q)
<1>1. Len(q) \in Nat /\ Len(q) >= 1
  BY EmptySeq
<1>2. /\ After(q, 1) \in Seq(S) /\ Len(After(q, 1)) = Len(q) - 1
      /\ \A k \in 1 .. Len(q) - 1 : After(q, 1)[k] = q[1 + k]
  BY <1>1, AfterTyped
<1>3. /\ Tail(q) \in Seq(S) /\ Len(Tail(q)) = Len(q) - 1
      /\ \A k \in 1 .. Len(Tail(q)) : Tail(q)[k] = q[k + 1]
  BY HeadTailProperties
<1>4. \A k \in 1 .. Len(q) - 1 : 1 + k = k + 1
  BY <1>1
<1>5. After(q, 1) = Tail(q)
  BY <1>2, <1>3, <1>4, SeqEqual
<1>6. q = <<Head(q)>> \o Tail(q)
  BY SMT
<1> QED BY <1>5, <1>6

LEMMA AfterTail ==
    ASSUME NEW S, NEW q \in Seq(S), q # << >>, NEW i \in DOMAIN Tail(q)
    PROVE  After(Tail(q), i) = After(q, i + 1) /\ i + 1 \in DOMAIN q
<1>1. /\ Tail(q) \in Seq(S) /\ Len(Tail(q)) = Len(q) - 1 /\ Len(q) \in Nat
      /\ DOMAIN Tail(q) = 1 .. Len(Tail(q)) /\ DOMAIN q = 1 .. Len(q)
      /\ \A k \in 1 .. Len(Tail(q)) : Tail(q)[k] = q[k + 1]
  <2>1. /\ Tail(q) \in Seq(S) /\ Len(Tail(q)) = Len(q) - 1
        /\ \A k \in 1 .. Len(Tail(q)) : Tail(q)[k] = q[k + 1]
    BY HeadTailProperties
  <2> QED BY <2>1, LenProperties
<1>2. i \in 0 .. Len(Tail(q)) /\ i + 1 \in 0 .. Len(q) /\ i + 1 \in DOMAIN q
  BY <1>1
<1>3. /\ After(Tail(q), i) \in Seq(S) /\ Len(After(Tail(q), i)) = Len(Tail(q)) - i
      /\ \A k \in 1 .. Len(Tail(q)) - i : After(Tail(q), i)[k] = Tail(q)[i + k]
  <2> DEFINE t == Tail(q)
  <2>1. t \in Seq(S) /\ i \in 0 .. Len(t)
    BY <1>1, <1>2
  <2> HIDE DEF t
  <2>2. /\ After(t, i) \in Seq(S) /\ Len(After(t, i)) = Len(t) - i
        /\ \A k \in 1 .. Len(t) - i : After(t, i)[k] = t[i + k]
    BY <2>1, AfterTyped
  <2> QED BY <2>2 DEF t
<1>4. /\ After(q, i + 1) \in Seq(S) /\ Len(After(q, i + 1)) = Len(q) - (i + 1)
      /\ \A k \in 1 .. Len(q) - (i + 1) : After(q, i + 1)[k] = q[(i + 1) + k]
  BY <1>2, AfterTyped
<1>5. \A k \in 1 .. Len(After(Tail(q), i)) : After(Tail(q), i)[k] = After(q, i + 1)[k]
  <2> TAKE k \in 1 .. Len(After(Tail(q), i))
  <2>1. k \in 1 .. Len(Tail(q)) - i /\ k \in 1 .. Len(q) - (i + 1)
        /\ i + k \in 1 .. Len(Tail(q)) /\ (i + k) + 1 = (i + 1) + k
    <3>1. Len(After(Tail(q), i)) = Len(Tail(q)) - i /\ Len(Tail(q)) = Len(q) - 1
          /\ Len(q) \in Nat /\ i \in 1 .. Len(Tail(q))
      BY <1>1, <1>3
    <3> HIDE DEF After
    <3> QED BY <3>1
  <2> QED BY <1>1, <1>3, <1>4, <2>1
<1>6. Len(After(Tail(q), i)) = Len(After(q, i + 1))
  BY <1>1, <1>2, <1>3, <1>4
<1> QED BY <1>2, <1>3, <1>4, <1>5, <1>6, SeqEqual

(***************************************************************************)
(* What is pushed: a new answer adds to it, and handling an answer leaves  *)
(* it as it is.                                                            *)
(***************************************************************************)
LEMMA PushedTyped ==
    ASSUME NEW q \in Seq(Callbacks), NEW r \in Seq(Replies), NEW c
    PROVE  Pushed(q, r, c) \in Seq(ConvLine)
BY RunsInTyped, RepliesInTyped, ConcatTyped DEF Pushed

\* What a new answer has is last.
LEMMA PushedAdded ==
    ASSUME NEW q \in Seq(Callbacks), NEW r \in Seq(Replies), NEW n \in Seq(Replies), NEW c
    PROVE  Pushed(q, r \o n, c) = Pushed(q, r, c) \o RepliesIn(n, c)
<1>1. RepliesIn(r \o n, c) = RepliesIn(r, c) \o RepliesIn(n, c)
  BY RepliesInConcat
<1> DEFINE a == RunsIn(q, c)
           b == RepliesIn(r, c)
           d == RepliesIn(n, c)
<1>2. a \in Seq(ConvLine) /\ b \in Seq(ConvLine) /\ d \in Seq(ConvLine)
  BY RunsInTyped, RepliesInTyped
<1>3. Pushed(q, r \o n, c) = a \o (b \o d) /\ Pushed(q, r, c) = a \o b
  BY <1>1 DEF Pushed
<1> HIDE DEF a, b, d
<1>4. (a \o b) \o d = a \o (b \o d)
  BY <1>2, LinesAssociative
<1> QED BY <1>3, <1>4 DEF d

\* What the first callback has is first.
LEMMA PushedRun1 ==
    ASSUME NEW b \in Callbacks, NEW q \in Seq(Callbacks), NEW r \in Seq(Replies), NEW c
    PROVE  Pushed(<<b>> \o q, r, c) = Theirs(PushedRun(b), c) \o Pushed(q, r, c)
<1>0. <<b>> \in Seq(Callbacks)
  BY SMT
<1> DEFINE x == Theirs(PushedRun(b), c)
           y == RunsIn(q, c)
           z == RepliesIn(r, c)
           w == <<b>>
<1>1. RunsIn(<<b>>, c) = x
  BY RunsInOne
<1>2. x \in Seq(ConvLine) /\ y \in Seq(ConvLine) /\ z \in Seq(ConvLine)
  BY LinesPushed, TheirsTyped, RunsInTyped, RepliesInTyped
<1> HIDE DEF x, y, z, w
<1>3. RunsIn(w \o q, c) = RunsIn(w, c) \o y
  BY <1>0, RunsInConcat DEF w, y
<1>4. (x \o y) \o z = x \o (y \o z)
  BY <1>2, LinesAssociative
<1>5. Pushed(w \o q, r, c) = (x \o y) \o z
  BY <1>1, <1>3 DEF Pushed, z, w
<1> QED BY <1>4, <1>5 DEF Pushed, x, y, z, w

\* An answer handled becomes its callbacks, at the same place.
LEMMA PushedMoved ==
    ASSUME NEW q \in Seq(Callbacks), NEW a \in Replies, NEW r \in Seq(Replies),
           NEW n \in Seq(Callbacks), NEW c, RunsIn(n, c) = Theirs(PushedReply(a), c)
    PROVE  Pushed(q \o n, r, c) = Pushed(q, <<a>> \o r, c)
<1>0. <<a>> \in Seq(Replies)
  BY SMT
<1> DEFINE x == RunsIn(q, c)
           y == RunsIn(n, c)
           z == RepliesIn(r, c)
           w == <<a>>
<1>1. RepliesIn(w, c) = y
  BY RepliesInOne
<1>2. x \in Seq(ConvLine) /\ y \in Seq(ConvLine) /\ z \in Seq(ConvLine)
  BY RunsInTyped, RepliesInTyped
<1> HIDE DEF x, y, z, w
<1>3. RunsIn(q \o n, c) = x \o y
  BY RunsInConcat DEF x, y
<1>4. RepliesIn(w \o r, c) = y \o z
  BY <1>0, <1>1, RepliesInConcat DEF w, z
<1>5. (x \o y) \o z = x \o (y \o z)
  BY <1>2, LinesAssociative
<1>6. Pushed(q \o n, r, c) = (x \o y) \o z
  BY <1>3 DEF Pushed, z
<1>7. Pushed(q, w \o r, c) = x \o (y \o z)
  BY <1>4 DEF Pushed, x
<1> QED BY <1>5, <1>6, <1>7 DEF w

LEMMA PushedNone ==
    ASSUME NEW c PROVE Pushed(<< >>, << >>, c) = << >>
<1>1. << >> \o << >> = << >>
  BY SMT
<1> QED BY <1>1, RunsInEmpty, RepliesInEmpty DEF Pushed

\* Each line of Theirs is one of the lines, and wanted.
LEMMA TheirsAmong ==
    ASSUME NEW lines \in Seq(ConvLine), NEW c
    PROVE  \A k \in DOMAIN Theirs(lines, c) :
              \E i \in DOMAIN lines : Theirs(lines, c)[k] = lines[i] /\ Wanted(lines[i], c)
<1> DEFINE Holds(u) == \A k \in DOMAIN Theirs(u, c) :
                          \E i \in DOMAIN u : Theirs(u, c)[k] = u[i] /\ Wanted(u[i], c)
           Lengths == {n \in Nat : \A u \in Seq(ConvLine) : Len(u) = n => Holds(u)}
<1>1. 0 \in Lengths
  <2> SUFFICES ASSUME NEW u \in Seq(ConvLine), Len(u) = 0 PROVE Holds(u)
    OBVIOUS
  <2>1. u = << >> /\ DOMAIN << >> = {}
    BY SMT
  <2>2. Theirs(u, c) = << >>
    BY <2>1, TheirsEmpty
  <2> QED BY <2>1, <2>2
<1>2. ASSUME NEW n \in Nat, n \in Lengths PROVE n + 1 \in Lengths
  <2> SUFFICES ASSUME NEW v \in Seq(ConvLine), Len(v) = n + 1 PROVE Holds(v)
    OBVIOUS
  <2>1. PICK u \in Seq(ConvLine), x \in ConvLine : v = Append(u, x) /\ Len(u) = n
    <3>1. \E u \in Seq(ConvLine), x \in ConvLine :
             v = Append(u, x) /\ Len(u) = n /\ x = v[n + 1]
      BY EndsInLast, ZenonT(30)
    <3> QED BY <3>1
  <2>2. Holds(u)
    BY <1>2, <2>1
  <2>3. /\ \A i \in DOMAIN u : i \in DOMAIN v /\ v[i] = u[i]
        /\ n + 1 \in DOMAIN v /\ v[n + 1] = x
    BY <2>1, AppendPlaces
  <2> DEFINE t == Theirs(u, c)
  <2>4. t \in Seq(ConvLine)
    BY TheirsTyped
  <2>5. \A k \in DOMAIN t : \E i \in DOMAIN v : t[k] = v[i] /\ Wanted(v[i], c)
    BY <2>2, <2>3
  <2>6. /\ Wanted(x, c) => Theirs(v, c) = Append(t, x)
        /\ ~Wanted(x, c) => Theirs(v, c) = t
    BY <2>1, TheirsAppend
  <2> HIDE DEF t
  <2>7. CASE Wanted(x, c)
    <3>1. \A k \in DOMAIN Append(t, x) :
             (k \in DOMAIN t /\ Append(t, x)[k] = t[k]) \/ Append(t, x)[k] = x
      BY <2>4, AppendPlaces
    <3>2. \A k \in DOMAIN Append(t, x) :
             \E i \in DOMAIN v : Append(t, x)[k] = v[i] /\ Wanted(v[i], c)
      BY <2>3, <2>5, <2>7, <3>1
    <3> QED BY <2>6, <2>7, <3>2
  <2>8. CASE ~Wanted(x, c)
    BY <2>5, <2>6, <2>8
  <2> QED BY <2>7, <2>8
<1> HIDE DEF Lengths
<1>3. Nat \subseteq Lengths
  BY <1>1, <1>2, Induction
<1>4. Len(lines) \in Lengths
  BY <1>3, LenProperties
<1> QED BY <1>4 DEF Lengths

LEMMA NoOthersNone ==
    ASSUME NEW lines \in Seq(ConvLine), NoOthers(lines), NEW c
    PROVE  Theirs(lines, c) = << >>
<1> SUFFICES ASSUME Theirs(lines, c) # << >> PROVE FALSE
  OBVIOUS
<1>1. Theirs(lines, c) \in Seq(ConvLine)
  BY TheirsTyped
<1>2. 1 \in DOMAIN Theirs(lines, c)
  BY <1>1, NonEmptyHasFirst
<1>3. PICK i \in DOMAIN lines : Wanted(lines[i], c)
  BY <1>2, TheirsAmong
<1> QED BY <1>3 DEF Wanted, NoOthers

\* What is behind both leaves them ending alike.
LEMMA EndsAsConcat ==
    ASSUME NEW a \in Seq(ConvLine), NEW b \in Seq(ConvLine), NEW s \in Seq(ConvLine)
    PROVE  /\ EndsAs(a, s) /\ EndsAs(b, s) => EndsAs(a \o b, s)
           /\ EndsAs(a, s) => EndsAs(a \o b, s \o b)
           /\ EndsAs(a \o b, s) => EndsAs(b, s)
           /\ EndsAs(<< >>, s)
<1>1. CASE b = << >>
  <2>1. a \o b = a /\ s \o b = s
    BY <1>1, ConcatEmptySeq
  <2>2. EndsAs(b, s)
    BY <1>1 DEF EndsAs
  <2> QED BY <1>1, <2>1, <2>2
<1>2. CASE b # << >>
  <2>1. Len(b) \in Nat \ {0} /\ Len(a) \in Nat /\ Len(s) \in Nat
    BY <1>2, EmptySeq, LenProperties
  <2>2. \A u \in Seq(ConvLine) : u \o b # << >> /\ (u \o b)[Len(u \o b)] = b[Len(b)]
    <3> TAKE u \in Seq(ConvLine)
    <3>1. /\ u \o b \in Seq(ConvLine) /\ Len(u \o b) = Len(u) + Len(b) /\ Len(u) \in Nat
          /\ \A i \in 1 .. Len(u) + Len(b) : (u \o b)[i] = IF i <= Len(u) THEN u[i] ELSE b[i - Len(u)]
      BY ConcatProperties, LenProperties
    <3>2. Len(u \o b) # 0
      BY <2>1, <3>1
    <3>3. u \o b # << >>
      BY <3>1, <3>2, EmptySeq
    <3> DEFINE m == Len(u) + Len(b)
    <3>4. m \in 1 .. Len(u) + Len(b) /\ ~(m <= Len(u)) /\ m - Len(u) = Len(b)
      BY <2>1, <3>1
    <3>5. (u \o b)[m] = b[Len(b)]
      BY <3>1, <3>4
    <3> QED BY <3>1, <3>3, <3>5
  <2>3. EndsAs(<< >>, s)
    BY DEF EndsAs
  <2> QED BY <1>2, <2>2, <2>3 DEF EndsAs
<1> QED BY <1>1, <1>2

\* The callbacks of an answer tell what the answer told.
LEMMA MadeTells ==
    ASSUME NEW a \in Replies, NEW n, MadeOf(n, a), NEW c,
           a.kind \in {"login", "search"} => NoOthers(a.lines)
    PROVE  RunsIn(n, c) = Theirs(PushedReply(a), c)
<1>0. a.lines \in Seq(ConvLine) /\ << >> \in Seq(ConvLine) /\ n \in Seq(Callbacks)
  BY SMT DEF Replies, MadeOf
<1>1. \A b \in Callbacks : b.run # "load" => RunsIn(<<b>>, c) = Theirs(b.lines, c)
  BY RunsInOne DEF PushedRun
<1>2. CASE a.kind \in HistoryKinds
  <2>1. PushedReply(a) = << >>
    BY <1>2 DEF PushedReply
  <2>2. n = LoadOf(a.lines)
    BY <1>2 DEF MadeOf
  <2>3. CASE a.lines = << >>
    <3>1. n = << >>
      BY <2>2, <2>3 DEF LoadOf
    <3> QED BY <2>1, <3>1, RunsInEmpty, TheirsEmpty
  <2>4. CASE a.lines # << >>
    <3> DEFINE b == Callback("load", a.lines)
    <3>1. n = <<b>>
      BY <2>2, <2>4 DEF LoadOf
    <3>2. b \in Callbacks /\ b.run = "load"
      BY <1>0, <2>4, CallbacksTyped DEF Callback
    <3>3. PushedRun(b) = << >>
      BY <3>2 DEF PushedRun
    <3> HIDE DEF b
    <3> QED BY <2>1, <3>1, <3>2, <3>3, RunsInOne
  <2> QED BY <2>3, <2>4
<1>3. a.kind \notin HistoryKinds => PushedReply(a) = a.lines
  BY DEF PushedReply
<1>4. ASSUME NEW r \in {"home", "results"}, n = <<Callback(r, << >>)>>, a.kind \notin HistoryKinds,
             NoOthers(a.lines)
      PROVE  RunsIn(n, c) = Theirs(PushedReply(a), c)
  <2> DEFINE b == Callback(r, << >>)
  <2>1. b \in Callbacks /\ b.run # "load" /\ b.lines = << >>
    <3>1. b \in Callbacks /\ b.run = r /\ b.lines = << >>
      BY <1>0, CallbacksTyped DEF Callback
    <3>2. r # "load"
      OBVIOUS
    <3> QED BY <3>1, <3>2
  <2> HIDE DEF b
  <2>2. RunsIn(<<b>>, c) = << >>
    BY <1>1, <2>1, TheirsEmpty
  <2>3. Theirs(a.lines, c) = << >>
    BY <1>0, <1>4, NoOthersNone
  <2> QED BY <1>3, <1>4, <2>2, <2>3 DEF b
<1>5. CASE a.kind = "login"
  <2>1. n = <<Callback("home", << >>)>> /\ a.kind \notin HistoryKinds /\ NoOthers(a.lines)
    BY <1>5, KindsExclude DEF MadeOf
  <2> QED BY <1>4, <2>1
<1>6. CASE a.kind = "search"
  <2>1. n = <<Callback("results", << >>)>> /\ a.kind \notin HistoryKinds /\ NoOthers(a.lines)
    BY <1>6, KindsExclude DEF MadeOf
  <2> QED BY <1>4, <2>1
<1>7. CASE Removing(a)
  <2> DEFINE b == Callback("remove", a.lines)
  <2>1. n = <<b>> /\ a.kind \notin HistoryKinds
    BY <1>7, KindsExclude DEF MadeOf
  <2>2. b.run = "remove" /\ b.lines = a.lines
    BY DEF Callback
  <2> HIDE DEF b
  <2>3. b \in Callbacks
    BY <1>0, <2>1, SMT
  <2>4. b.run # "load"
    BY <2>2
  <2> QED BY <1>1, <1>3, <2>1, <2>2, <2>3, <2>4
<1>8. CASE Adding(a)
  <2>1. n = Updates(a.lines) /\ a.kind \notin HistoryKinds
    BY <1>8, KindsExclude DEF MadeOf
  <2> QED BY <1>0, <1>3, <2>1, RunsOfUpdates
<1> QED BY <1>2, <1>5, <1>6, <1>7, <1>8, ReplyKinds

(***************************************************************************)
(* What the server gives.                                                  *)
(***************************************************************************)
Served(k) == requests # << >> /\ requests' = Tail(requests) /\ Head(requests).kind = k
TellsAll(as) ==
    \A c \in Convs : Theirs(store'[c], c) = Theirs(store[c], c) \o RepliesIn(as, c)
TellsLast(as) ==
    /\ store' = store
    /\ Served("chats")
    /\ \A c \in Convs : EndsAs(RepliesIn(as, c), Theirs(store[c], c))
GivesFit(a) ==
    /\ PlainReply(a)
    /\ a.kind = "login" => Served("login")
    /\ a.kind = "chats" => Served("chats")
    /\ a.kind \in HistoryKinds =>
          Served("history") /\ store' = store /\ \E c \in Convs : a.lines = store[c]
Gives(as) ==
    /\ as \in Seq(Replies) /\ toClient' = toClient \o as
    /\ UNCHANGED <<idle, uiVars>>
    /\ requests' = requests \/ (requests # << >> /\ requests' = Tail(requests))
    /\ as = << >> \/ \E a \in Replies : as = <<a>> /\ GivesFit(a)
    /\ TellsAll(as) \/ TellsLast(as) \/ (~online /\ as = << >>)

\* What the server answers to the chats: of each conversation the last line.
LEMMA ChatsAreLast ==
    ASSUME HomeTypes, Histories, NEW r \in Requests, r.kind = "chats"
    PROVE  \E lines \in Seq(ConvLine) :
              /\ AnswersTo(r) = <<Answer("chats", lines)>>
              /\ \A k \in DOMAIN lines : \E c \in Chats : lines[k] = store[c][Len(store[c])]
<1> DEFINE n == Cardinality(Chats)
           lines == [i \in 1 .. n |-> Last(store[SetToSeq(Chats)[i]])]
<1>1. /\ n \in Nat /\ SetToSeq(Chats) \in [1 .. n -> Chats]
  BY ChatsListed, SetListed
<1>2. \A c \in Chats : Last(store[c]) \in ConvLine /\ Last(store[c]) = store[c][Len(store[c])]
  <2> SUFFICES ASSUME NEW c \in Chats
               PROVE  Last(store[c]) \in ConvLine /\ Last(store[c]) = store[c][Len(store[c])]
    OBVIOUS
  <2>1. Len(store[c]) \in DOMAIN store[c] /\ store[c][Len(store[c])] \in ConvLine
    BY ChatsListed, NonEmptyHasFirst
  <2> QED BY <2>1 DEF Last
<1>3. lines \in [1 .. n -> ConvLine]
  BY <1>1, <1>2
<1>4. lines \in Seq(ConvLine)
  BY <1>1, <1>3, SMT
<1>5. AnswersTo(r) = <<Answer("chats", lines)>>
  BY SMT DEF AnswersTo
<1>6. \A k \in DOMAIN lines : \E c \in Chats : lines[k] = store[c][Len(store[c])]
  <2> TAKE k \in DOMAIN lines
  <2>1. k \in 1 .. n
    BY <1>3
  <2>2. SetToSeq(Chats)[k] \in Chats /\ lines[k] = Last(store[SetToSeq(Chats)[k]])
    BY <1>1, <2>1
  <2> HIDE DEF lines
  <2> QED BY <1>2, <2>2
<1> QED BY <1>4, <1>5, <1>6, Zenon

\* The last of a conversation's lines ends what others wrote, if another wrote it.
LEMMA LastWanted ==
    ASSUME NEW s \in Seq(ConvLine), s # << >>, NEW c, Wanted(s[Len(s)], c)
    PROVE  Theirs(s, c) # << >> /\ Theirs(s, c)[Len(Theirs(s, c))] = s[Len(s)]
<1> DEFINE n == Len(s) - 1
<1>1. n \in Nat /\ Len(s) = n + 1
  <2>1. Len(s) \in Nat \ {0}
    BY EmptySeq
  <2> QED BY <2>1
<1> HIDE DEF n
<1>2. PICK u \in Seq(ConvLine), x \in ConvLine : s = Append(u, x) /\ Len(u) = n /\ x = s[n + 1]
  BY <1>1, EndsInLast, ZenonT(30)
<1>3. x = s[Len(s)] /\ Wanted(x, c)
  BY <1>1, <1>2
<1>4. Theirs(s, c) = Append(Theirs(u, c), x)
  BY <1>2, <1>3, TheirsAppend
<1> DEFINE w == Theirs(u, c)
<1>5. w \in Seq(ConvLine)
  BY TheirsTyped
<1> HIDE DEF w
<1>6. Append(w, x) # << >> /\ Append(w, x)[Len(Append(w, x))] = x
  BY <1>5, AppendNonEmpty, SMT
<1> QED BY <1>3, <1>4, <1>6 DEF w

\* So among them the last that others wrote, if the last line is another's.
LEMMA LastsEnd ==
    ASSUME HomeTypes, Histories, NEW lines \in Seq(ConvLine), NEW c \in Convs,
           \A k \in DOMAIN lines : \E d \in Chats : lines[k] = store[d][Len(store[d])]
    PROVE  EndsAs(Theirs(lines, c), Theirs(store[c], c))
<1> DEFINE t == Theirs(lines, c)
           s == store[c]
<1> SUFFICES ASSUME t # << >>
             PROVE  Theirs(s, c) # << >> /\ t[Len(t)] = Theirs(s, c)[Len(Theirs(s, c))]
  BY DEF EndsAs
<1>1. t \in Seq(ConvLine)
  BY TheirsTyped
<1>2. Len(t) \in DOMAIN t
  BY <1>1, NonEmptyHasFirst
<1>3. PICK i \in DOMAIN lines : t[Len(t)] = lines[i] /\ Wanted(lines[i], c)
  BY <1>2, TheirsAmong
<1>4. PICK d \in Chats : lines[i] = store[d][Len(store[d])]
  BY <1>3
<1>5. store[d] \in Seq(ConvLine) /\ store[d] # << >> /\ d \in Convs
  BY ChatsListed
<1>6. lines[i].conv = d /\ d = c
  <2>1. Len(store[d]) \in DOMAIN store[d]
    BY <1>5, NonEmptyHasFirst
  <2>2. store[d][Len(store[d])].conv = d
    BY <1>5, <2>1 DEF Histories, AllOf
  <2> QED BY <1>3, <1>4, <2>2 DEF Wanted
<1>7. Wanted(store[d][Len(store[d])], d)
  BY <1>3, <1>4, <1>6
<1>8. Theirs(store[d], d) # << >>
      /\ Theirs(store[d], d)[Len(Theirs(store[d], d))] = store[d][Len(store[d])]
  BY <1>5, <1>7, LastWanted
<1> QED BY <1>3, <1>4, <1>6, <1>8

LEMMA KindsOther ==
    /\ \A k \in {"login", "chats", "user", "group", "join", "create", "delete", "search", "leave"} :
          k \notin HistoryKinds
<1>1. "login" \notin HistoryKinds /\ "chats" \notin HistoryKinds /\ "user" \notin HistoryKinds
  BY DEF HistoryKinds
<1>2. "group" \notin HistoryKinds /\ "search" \notin HistoryKinds
  BY DEF HistoryKinds
<1> QED BY <1>1, <1>2, KindsApart

\* Answers of what others did not write tell nothing, and histories do not.
LEMMA TellNothing ==
    ASSUME NEW a \in Replies, a.kind \in HistoryKinds \/ NoOthers(a.lines), NEW c
    PROVE  RepliesIn(<<a>>, c) = << >>
<1>1. RepliesIn(<<a>>, c) = Theirs(PushedReply(a), c)
  BY RepliesInOne
<1>2. a.lines \in Seq(ConvLine)
  BY DEF Replies
<1>3. CASE a.kind \in HistoryKinds
  BY <1>1, <1>3, TheirsEmpty DEF PushedReply
<1>4. CASE a.kind \notin HistoryKinds
  <2>1. PushedReply(a) = a.lines
    BY <1>4 DEF PushedReply
  <2> QED BY <1>1, <1>2, <1>4, <2>1, NoOthersNone
<1> QED BY <1>3, <1>4

LEMMA ConcatNothing ==
    ASSUME HomeTypes, NEW c \in Convs
    PROVE  Theirs(store[c], c) = Theirs(store[c], c) \o << >>
<1>1. Theirs(store[c], c) \in Seq(ConvLine)
  BY TheirsTyped DEF HomeTypes
<1> QED BY <1>1, ConcatEmptySeq

\* Where nothing is stored, nothing need be told.
LEMMA NothingTold ==
    ASSUME HomeTypes, store' = store, NEW as, \A c \in Convs : RepliesIn(as, c) = << >>
    PROVE  TellsAll(as)
<1> SUFFICES ASSUME NEW c \in Convs
             PROVE  Theirs(store'[c], c) = Theirs(store[c], c) \o RepliesIn(as, c)
  BY DEF TellsAll
<1> QED BY ConcatNothing

\* A line that another wrote, or not, at the end of a conversation.
LEMMA StoredOther ==
    ASSUME HomeTypes, NEW d \in Convs, NEW line \in ConvLine, line.conv = d,
           store' = [store EXCEPT ![d] = Append(@, line)], NEW c \in Convs
    PROVE  /\ line.from = "other" => Theirs(store'[c], c) = Theirs(store[c], c) \o Theirs(<<line>>, c)
           /\ line.from # "other" => Theirs(store'[c], c) = Theirs(store[c], c) \o << >>
<1>1. store[c] \in Seq(ConvLine) /\ Theirs(store[c], c) \in Seq(ConvLine)
  BY TheirsTyped DEF HomeTypes
<1>2. CASE c = d
  <2>1. store'[c] = Append(store[c], line)
    BY <1>2 DEF HomeTypes
  <2>2. CASE line.from = "other"
    <3>1. Theirs(Append(store[c], line), c) = Append(Theirs(store[c], c), line)
      BY <1>1, <1>2, <2>2, TheirsAppend DEF Wanted
    <3>2. Theirs(<<line>>, c) = <<line>>
      BY <1>2, <2>2, TheirsOne DEF Wanted
    <3> DEFINE w == Theirs(store[c], c)
    <3>3. w \in Seq(ConvLine)
      BY <1>1
    <3> HIDE DEF w
    <3>4. Append(w, line) = w \o <<line>>
      BY <3>3, SMT
    <3> QED BY <2>1, <2>2, <3>1, <3>2, <3>4 DEF w
  <2>3. CASE line.from # "other"
    <3>1. Theirs(Append(store[c], line), c) = Theirs(store[c], c)
      BY <1>1, <2>3, TheirsAppend DEF Wanted
    <3> QED BY <2>1, <2>3, <3>1, ConcatNothing
  <2> QED BY <2>2, <2>3
<1>3. CASE c # d
  <2>1. store'[c] = store[c]
    BY <1>3 DEF HomeTypes
  <2>2. ~Wanted(line, c)
    BY <1>3 DEF Wanted
  <2>3. Theirs(<<line>>, c) = << >>
    BY <2>2, TheirsOne
  <2> QED BY <2>1, <2>3, ConcatNothing
<1> QED BY <1>2, <1>3

\* What an answer is, by its request.
LEMMA ServeGives ==
    ASSUME HomeTypes, Histories, Plain, Serve
    PROVE  \E as : Gives(as)
<1> DEFINE r == Head(requests)
           c0 == r.line.conv
           as == AnswersTo(r)
<1>1. /\ requests # << >> /\ requests' = Tail(requests) /\ UNCHANGED <<idle, uiVars>>
      /\ toClient' = toClient \o as
      /\ store' = IF r.kind = "send" /\ c0 \in Peers \cup members
                  THEN [store EXCEPT ![c0] = Append(@, r.line)] ELSE store
  BY DEF Serve
<1>2. r \in Requests /\ 1 \in DOMAIN requests /\ r = requests[1]
  BY <1>1, TailPlaces DEF HomeTypes
<1>3. \A k : r.kind = k => Served(k)
  BY <1>1 DEF Served
<1> HIDE DEF r, as
<1>4. << >> \in Seq(Replies) /\ \A a \in Replies : <<a>> \in Seq(Replies)
  BY SMT
<1>5. ASSUME NEW a \in Replies, as = <<a>>, GivesFit(a), TellsAll(as) \/ TellsLast(as)
      PROVE  \E s : Gives(s)
  <2>1. as \in Seq(Replies)
    BY <1>4, <1>5
  <2>2. Gives(as)
    BY <1>1, <1>5, <2>1, Zenon DEF Gives
  <2> QED BY <2>2
<1>6. ASSUME NEW a \in Replies, as = <<a>>, GivesFit(a), r.kind # "send",
             a.kind \in HistoryKinds \/ NoOthers(a.lines)
      PROVE  \E s : Gives(s)
  <2>1. store' = store
    BY <1>1, <1>6
  <2>2. \A c \in Convs : RepliesIn(<<a>>, c) = << >>
    BY <1>6, TellNothing
  <2>3. TellsAll(as)
    BY <1>6, <2>1, <2>2, NothingTold
  <2> QED BY <1>5, <1>6, <2>3
<1>7. << >> \in Seq(ConvLine) /\ NoOthers(<< >>)
  <2>1. DOMAIN << >> = {}
    BY EmptySeq
  <2> QED BY <2>1, SMT DEF NoOthers
<1>8. CASE r.kind = "login"
  <2> DEFINE a == Answer("login", << >>)
  <2>1. as = <<a>> /\ a \in Replies
    BY <1>7, <1>8, AnswerCases, RepliesTyped DEF as
  <2>2. a.kind = "login" /\ a.lines = << >>
    BY DEF Answer
  <2>3. GivesFit(a)
    BY <1>3, <1>7, <1>8, <2>2, KindsOther DEF GivesFit, PlainReply
  <2> HIDE DEF a
  <2> QED BY <1>6, <1>7, <1>8, <2>1, <2>2, <2>3
<1>9. CASE r.kind = "chats"
  <2>1. PICK lines \in Seq(ConvLine) :
              /\ as = <<Answer("chats", lines)>>
              /\ \A k \in DOMAIN lines : \E c \in Chats : lines[k] = store[c][Len(store[c])]
    BY <1>2, <1>9, ChatsAreLast DEF as
  <2> DEFINE a == Answer("chats", lines)
  <2>2. a \in Replies /\ a.kind = "chats" /\ a.lines = lines /\ as = <<a>>
    BY <2>1, RepliesTyped DEF Answer
  <2>3. GivesFit(a)
    BY <1>3, <1>9, <2>2, KindsOther DEF GivesFit, PlainReply
  <2> HIDE DEF a
  <2>4. store' = store
    BY <1>1, <1>9
  <2>5. \A c \in Convs : EndsAs(RepliesIn(<<a>>, c), Theirs(store[c], c))
    <3> TAKE c \in Convs
    <3>1. RepliesIn(<<a>>, c) = Theirs(PushedReply(a), c)
      BY <2>2, RepliesInOne
    <3>2. PushedReply(a) = lines
      BY <2>2, KindsOther DEF PushedReply
    <3>3. EndsAs(Theirs(lines, c), Theirs(store[c], c))
      BY <2>1, LastsEnd
    <3> QED BY <3>1, <3>2, <3>3
  <2>6. TellsLast(as)
    BY <1>3, <1>9, <2>2, <2>4, <2>5 DEF TellsLast
  <2> QED BY <1>5, <2>2, <2>3, <2>6
<1>10. CASE r.kind = "history"
  <2> DEFINE k == IF c0 > 0 THEN "users message" ELSE "groups message"
             a == Answer(k, store[c0])
  <2>1. as = <<a>>
    BY <1>10, AnswerCases, Zenon DEF as
  <2>2. k \in HistoryKinds /\ a.kind = k /\ a.lines = store[c0]
    BY DEF Answer, HistoryKinds
  <2>3. c0 \in Convs
    BY <1>2, <1>10, SMT DEF Requests, OnConv
  <2>4. store[c0] \in Seq(ConvLine)
    BY <2>3 DEF HomeTypes
  <2>5. a \in Replies
    BY <2>2, <2>4, RepliesTyped
  <2>6. store' = store
    BY <1>1, <1>10
  <2>7. k # "login" /\ k # "chats"
    BY <2>2, KindsOther
  <2> HIDE DEF k, a
  <2>8. GivesFit(a)
    BY <1>3, <1>10, <2>2, <2>3, <2>6, <2>7 DEF GivesFit, PlainReply
  <2> QED BY <1>6, <1>10, <2>1, <2>2, <2>5, <2>8
<1>11. ASSUME NEW k \in {"leave", "delete", "join", "create"}, NEW from \in {"me", "notice"},
              as = <<Answer(k, <<Line(c0, 0, from)>>)>>, c0 \in Convs, r.kind = k
       PROVE  \E s : Gives(s)
  <2> DEFINE l == Line(c0, 0, from)
             a == Answer(k, <<l>>)
  <2>1. l \in ConvLine /\ l.from # "other"
    BY <1>11, LinesTyped
  <2> HIDE DEF l
  <2>2. <<l>> \in Seq(ConvLine) /\ <<l>> # << >> /\ NoOthers(<<l>>)
    BY <2>1, SMT DEF NoOthers
  <2>3. a \in Replies /\ a.kind = k /\ a.lines = <<l>> /\ as = <<a>>
    BY <1>11, <2>2, RepliesTyped DEF Answer, l
  <2>4. k \notin HistoryKinds /\ k # "login" /\ k # "chats" /\ r.kind # "send"
    BY <1>11, KindsOther
  <2> HIDE DEF a
  <2>5. GivesFit(a)
    BY <2>2, <2>3, <2>4 DEF GivesFit, PlainReply
  <2> QED BY <1>6, <2>2, <2>3, <2>4, <2>5
<1>12. r.kind \in {"leave", "delete", "join", "create"} => c0 \in Convs
  BY <1>2, SMT DEF Requests, OnConv
<1>13. CASE r.kind \in {"leave", "delete"} /\ c0 \in members
  <2>1. as = <<Answer(r.kind, <<Line(c0, 0, "me")>>)>>
    BY <1>13, AnswerCases DEF as
  <2> QED BY <1>11, <1>12, <1>13, <2>1
<1>14. CASE r.kind \in {"join", "create"} /\ c0 \notin members
  <2>1. as = <<Answer(r.kind, <<Line(c0, 0, "notice")>>)>>
    BY <1>14, AnswerCases DEF as
  <2> QED BY <1>11, <1>12, <1>14, <2>1
<1>15. CASE r.kind = "search"
  <2> DEFINE a == Answer("search", << >>)
  <2>1. as = <<a>> /\ a \in Replies
    BY <1>7, <1>15, AnswerCases, RepliesTyped DEF as
  <2>2. a.kind = "search" /\ a.lines = << >>
    BY DEF Answer
  <2>3. GivesFit(a)
    BY <1>7, <2>2, KindsOther DEF GivesFit, PlainReply
  <2> HIDE DEF a
  <2> QED BY <1>6, <1>7, <1>15, <2>1, <2>2, <2>3
<1>16. CASE /\ r.kind \notin {"login", "chats", "history", "search"}
            /\ ~(r.kind \in {"leave", "delete"} /\ c0 \in members)
            /\ ~(r.kind \in {"join", "create"} /\ c0 \notin members)
  <2>1. as = << >>
    BY <1>16, AnswerCases DEF as
  <2>2. \A c \in Convs : RepliesIn(<< >>, c) = << >>
    BY RepliesInEmpty
  <2>3. TellsAll(<< >>)
    <3>1. CASE r.kind = "send" /\ c0 \in Peers \cup members
      <4>1. r.line \in ConvLine /\ c0 \in Convs
        BY <1>2, <3>1, SMT DEF Requests, OnConv, LineType, ConvLine
      <4>2. store' = [store EXCEPT ![c0] = Append(@, r.line)]
        BY <1>1, <3>1
      <4>3. r.line.from # "other"
        BY <1>2, <3>1 DEF Plain
      <4>4. \A c \in Convs : Theirs(store'[c], c) = Theirs(store[c], c) \o << >>
        BY <4>1, <4>2, <4>3, StoredOther
      <4> QED BY <2>2, <4>4 DEF TellsAll
    <3>2. CASE ~(r.kind = "send" /\ c0 \in Peers \cup members)
      BY <1>1, <2>2, <3>2, NothingTold
    <3> QED BY <3>1, <3>2
  <2>4. Gives(<< >>)
    BY <1>1, <1>4, <2>1, <2>3, Zenon DEF Gives
  <2> QED BY <2>4
<1> QED BY <1>8, <1>9, <1>10, <1>13, <1>14, <1>15, <1>16

\* Every step of the server gives an answer, a push or nothing.
LEMMA ServerGives ==
    ASSUME HomeTypes, Histories, Plain, ServerNext
    PROVE  \E as : Gives(as)
<1>1. CASE Serve
  BY <1>1, ServeGives
<1>2. ASSUME NEW d \in Convs, Incoming(d) PROVE \E as : Gives(as)
  <2> DEFINE k == IF d > 0 THEN "user" ELSE "group"
             line == Line(d, nmsg', "other")
             a == Answer(k, <<line>>)
  <2>1. /\ toClient' = IF online THEN Append(toClient, a) ELSE toClient
        /\ UNCHANGED <<requests, idle, uiVars>> /\ nmsg' \in Nat
        /\ store' = [store EXCEPT ![d] = Append(@, line)]
    BY <1>2, SMT DEF Incoming, uiVars, HomeTypes
  <2>2. line \in ConvLine /\ line.conv = d /\ line.from = "other"
    BY <2>1, LinesTyped
  <2>3. k \in {"user", "group"}
    OBVIOUS
  <2> HIDE DEF k, line
  <2>4. <<line>> \in Seq(ConvLine)
    BY <2>2, SMT
  <2>5. a \in Replies /\ a.kind = k /\ a.lines = <<line>>
    BY <2>3, <2>4, RepliesTyped DEF Answer
  <2>6. k \notin HistoryKinds /\ k # "login" /\ k # "chats"
    BY <2>3, KindsOther
  <2> HIDE DEF a
  <2>7. GivesFit(a)
    BY <2>3, <2>5, <2>6 DEF GivesFit, PlainReply
  <2>8. CASE online
    <3>1. toClient' = Append(toClient, a)
      BY <2>1, <2>8
    <3>2. toClient' = toClient \o <<a>> /\ <<a>> \in Seq(Replies)
      BY <2>5, <3>1, SMT DEF HomeTypes
    <3>3. TellsAll(<<a>>)
      <4> SUFFICES ASSUME NEW c \in Convs
                   PROVE  Theirs(store'[c], c) = Theirs(store[c], c) \o RepliesIn(<<a>>, c)
        BY DEF TellsAll
      <4>1. RepliesIn(<<a>>, c) = Theirs(PushedReply(a), c)
        BY <2>5, RepliesInOne
      <4>2. PushedReply(a) = <<line>>
        BY <2>5, <2>6 DEF PushedReply
      <4>3. store' = [store EXCEPT ![d] = Append(@, line)]
        BY <2>1
      <4>4. Theirs(store'[c], c) = Theirs(store[c], c) \o Theirs(<<line>>, c)
        BY <2>2, <4>3, StoredOther
      <4> QED BY <4>1, <4>2, <4>4
    <3>4. Gives(<<a>>)
      BY <2>1, <2>5, <2>7, <3>2, <3>3, Zenon DEF Gives
    <3> QED BY <3>4
  <2>9. CASE ~online
    <3>1. toClient' = toClient \o << >> /\ << >> \in Seq(Replies)
      BY <2>1, <2>9, SMT DEF HomeTypes
    <3>2. Gives(<< >>)
      BY <2>1, <2>9, <3>1, Zenon DEF Gives
    <3> QED BY <3>2
  <2> QED BY <2>8, <2>9
<1>3. ASSUME NEW d \in Convs, OtherLeaves(d) PROVE \E as : Gives(as)
  <2> DEFINE line == Line(d, 0, "notice")
             a == Answer("leave", <<line>>)
  <2>1. toClient' = Append(toClient, a) /\ UNCHANGED <<requests, idle, uiVars, store>>
    BY <1>3 DEF OtherLeaves
  <2>2. line \in ConvLine /\ line.from # "other"
    BY LinesTyped
  <2> HIDE DEF line
  <2>3. <<line>> \in Seq(ConvLine) /\ <<line>> # << >> /\ NoOthers(<<line>>)
    BY <2>2, SMT DEF NoOthers
  <2>4. a \in Replies /\ a.kind = "leave" /\ a.lines = <<line>>
    BY <2>3, RepliesTyped DEF Answer
  <2> HIDE DEF a
  <2>5. GivesFit(a)
    BY <2>3, <2>4, KindsOther DEF GivesFit, PlainReply
  <2>6. toClient' = toClient \o <<a>> /\ <<a>> \in Seq(Replies)
    BY <2>1, <2>4, SMT DEF HomeTypes
  <2>7. \A c \in Convs : RepliesIn(<<a>>, c) = << >>
    BY <2>3, <2>4, TellNothing
  <2>8. TellsAll(<<a>>)
    BY <2>1, <2>7, NothingTold
  <2>9. Gives(<<a>>)
    BY <2>1, <2>4, <2>5, <2>6, <2>8, Zenon DEF Gives
  <2> QED BY <2>9
<1> QED BY <1>1, <1>2, <1>3 DEF ServerNext

(***************************************************************************)
(* What each kind of step does to the queues.                              *)
(***************************************************************************)

\* The places of a queue whose first element is taken.
Shifted(q, q1) ==
    \A i \in DOMAIN q1 : i \in Nat /\ i >= 1 /\ i + 1 \in DOMAIN q /\ q1[i] = q[i + 1]
\* The places of a queue with n behind it.
Added(q, n, q1) ==
    \A i \in DOMAIN q1 :
       \/ i \in DOMAIN q /\ q1[i] = q[i]
       \/ i \notin DOMAIN q /\ i > Len(q) /\ i - Len(q) \in DOMAIN n /\ q1[i] = n[i - Len(q)]

\* The user asks, and no more.
UserActs ==
    /\ UNCHANGED <<toClient, idle, store, online, loaded>>
    /\ \/ UNCHANGED <<requests, shown>>
       \/ shown /\ (LoginAgain \/ (shown' = shown /\ AllSent /\ Kept(requests, requests')))

\* The server answers the first request, or pushes.
ServerActs(as) ==
    /\ Gives(as)
    /\ \A i \in DOMAIN toClient' :
          \/ i \in DOMAIN toClient /\ toClient'[i] = toClient[i]
          \/ /\ i = Len(toClient) + 1 /\ i \notin DOMAIN toClient
             /\ toClient'[i] \in Replies /\ as = <<toClient'[i]>> /\ GivesFit(toClient'[i])
    /\ \/ UNCHANGED requests
       \/ requests # << >> /\ requests' = Tail(requests) /\ Shifted(requests, requests')
          /\ Head(requests) = requests[1] /\ 1 \in DOMAIN requests

\* The collector makes callbacks n of the first answer.
CollectorActs(n) ==
    /\ toClient # << >> /\ toClient' = Tail(toClient) /\ Shifted(toClient, toClient')
    /\ Head(toClient) = toClient[1] /\ 1 \in DOMAIN toClient /\ toClient[1] \in Replies
    /\ n \in Seq(Callbacks) /\ MadeOf(n, toClient[1])
    /\ idle' = idle \o n /\ Added(idle, n, idle')
    /\ UNCHANGED <<uiVars, requests, store, online>>

\* The main loop runs the first callback.
GtkActs ==
    /\ idle # << >> /\ idle' = Tail(idle) /\ Shifted(idle, idle')
    /\ Head(idle) = idle[1] /\ 1 \in DOMAIN idle /\ idle[1] \in Callbacks
    /\ UNCHANGED <<toClient, store, online>>
    /\ \/ idle[1].run = "home" /\ shown' /\ loaded' = 0 /\ requests' = Append(requests, GetHistory)
       \/ /\ UNCHANGED <<shown, requests>> /\ idle[1].run # "home"
          /\ loaded' = loaded \/ loaded' = 0 \/ idle[1].run = "load"

LEMMA UserActsSo ==
    ASSUME HomeTypes, BoxIsMap, UserNext \/ EnableClick \/ UNCHANGED vars
    PROVE  UserActs
<1>1. CASE UserNext
  <2>1. /\ shown /\ UNCHANGED <<toClient, idle, online, store>>
        /\ LoginAgain \/ (shown' = shown /\ AllSent)
    BY <1>1, UserSends
  <2>2. Kept(requests, requests') /\ UNCHANGED loaded
    BY <1>1, UserAdds
  <2> QED BY <2>1, <2>2 DEF UserActs
<1>2. CASE EnableClick \/ UNCHANGED vars
  BY <1>2 DEF EnableClick, vars, uiVars, srvVars, UserActs
<1> QED BY <1>1, <1>2

LEMMA ServerActsSo ==
    ASSUME HomeTypes, Histories, Plain, ServerNext
    PROVE  \E as : ServerActs(as)
<1>1. PICK as : Gives(as)
  BY ServerGives
<1>2. /\ as \in Seq(Replies) /\ toClient' = toClient \o as
      /\ requests' = requests \/ (requests # << >> /\ requests' = Tail(requests))
      /\ as = << >> \/ \E a \in Replies : as = <<a>> /\ GivesFit(a)
  BY <1>1 DEF Gives
<1>3. toClient \in Seq(Replies) /\ requests \in Seq(Requests)
  BY DEF HomeTypes
<1>4. \A i \in DOMAIN toClient' :
          \/ i \in DOMAIN toClient /\ toClient'[i] = toClient[i]
          \/ /\ i = Len(toClient) + 1 /\ i \notin DOMAIN toClient
             /\ toClient'[i] \in Replies /\ as = <<toClient'[i]>> /\ GivesFit(toClient'[i])
  <2>1. CASE as = << >>
    <3>1. toClient' = toClient
      BY <1>2, <1>3, <2>1, SMT
    <3> QED BY <3>1
  <2>2. ASSUME NEW a \in Replies, as = <<a>>, GivesFit(a)
        PROVE  \A i \in DOMAIN toClient' :
          \/ i \in DOMAIN toClient /\ toClient'[i] = toClient[i]
          \/ /\ i = Len(toClient) + 1 /\ i \notin DOMAIN toClient
             /\ toClient'[i] \in Replies /\ as = <<toClient'[i]>> /\ GivesFit(toClient'[i])
    <3>1. toClient' = Append(toClient, a)
      BY <1>2, <1>3, <2>2, SMT
    <3>2. \A i \in DOMAIN toClient' :
             \/ i \in DOMAIN toClient /\ toClient'[i] = toClient[i]
             \/ i \notin DOMAIN toClient /\ i = Len(toClient) + 1 /\ toClient'[i] = a
      BY <1>3, <3>1, AppendPlaces
    <3> QED BY <2>2, <3>2
  <2> QED BY <1>2, <2>1, <2>2
<1>5. requests' = Tail(requests) /\ requests # << >> =>
         Shifted(requests, requests') /\ Head(requests) = requests[1] /\ 1 \in DOMAIN requests
  BY <1>3, TailPlaces DEF Shifted
<1>6. ServerActs(as)
  BY <1>1, <1>2, <1>4, <1>5 DEF ServerActs
<1> QED BY <1>6

LEMMA CollectorActsSo ==
    ASSUME HomeTypes, CollectorNext
    PROVE  \E n : CollectorActs(n)
<1>1. /\ toClient # << >> /\ toClient' = Tail(toClient)
      /\ UNCHANGED <<uiVars, requests, store, online>>
  BY CollectorMakes DEF srvVars
<1>2. PICK n : idle' = idle \o n /\ MadeOf(n, Head(toClient))
  BY CollectorMakes
<1>3. toClient \in Seq(Replies) /\ idle \in Seq(Callbacks) /\ n \in Seq(Callbacks)
  BY <1>2 DEF HomeTypes, MadeOf
<1>4. /\ Shifted(toClient, toClient') /\ Head(toClient) = toClient[1]
      /\ 1 \in DOMAIN toClient /\ toClient[1] \in Replies
  BY <1>1, <1>3, TailPlaces DEF Shifted
<1>5. Added(idle, n, idle')
  BY <1>2, <1>3, ConcatPlaces DEF Added
<1>6. CollectorActs(n)
  BY <1>1, <1>2, <1>3, <1>4, <1>5 DEF CollectorActs
<1> QED BY <1>6

LEMMA GtkActsSo ==
    ASSUME HomeTypes, GtkNext
    PROVE  GtkActs
<1>1. /\ idle # << >> /\ idle' = Tail(idle) /\ UNCHANGED <<toClient, store, online>>
      /\ \/ Head(idle).run = "home" /\ shown' /\ loaded' = 0 /\ requests' = Append(requests, GetHistory)
         \/ /\ UNCHANGED <<shown, requests>> /\ Head(idle).run # "home"
            /\ loaded' = loaded \/ loaded' = 0 \/ Head(idle).run = "load"
  BY DEF GtkNext, RunHome, RunUpdate, RunLoad, RunRemove, RunResults, Run, srvVars
<1>2. /\ Shifted(idle, idle') /\ Head(idle) = idle[1] /\ 1 \in DOMAIN idle
      /\ idle[1] \in Callbacks
  BY <1>1, TailPlaces DEF Shifted, HomeTypes
<1> QED BY <1>1, <1>2 DEF GtkActs

(***************************************************************************)
(* Where others' messages are not.                                         *)
(***************************************************************************)
LEMMA MadePlain ==
    ASSUME NEW a \in Replies, PlainReply(a), NEW n, MadeOf(n, a)
    PROVE  \A i \in DOMAIN n :
              /\ n[i].run = "update" => Len(n[i].lines) = 1
              /\ n[i].run \in {"home", "remove", "results"} => NoOthers(n[i].lines)
<1>0. a.lines \in Seq(ConvLine)
  BY DEF Replies
<1>1. NoOthers(<< >>)
  <2>1. DOMAIN << >> = {}
    BY EmptySeq
  <2> QED BY <2>1, SMT DEF NoOthers
<1>2. CASE a.kind = "login" \/ a.kind = "search"
  <2>1. n = <<Callback("home", << >>)>> \/ n = <<Callback("results", << >>)>>
    BY <1>2 DEF MadeOf
  <2>2. \A i \in DOMAIN n : n[i].run # "update" /\ n[i].lines = << >>
    BY <2>1, SMT DEF Callback
  <2> QED BY <1>1, <2>2
<1>3. CASE a.kind \in HistoryKinds
  <2>1. \A i \in DOMAIN n : n[i].run = "load"
    <3>1. n = LoadOf(a.lines)
      BY <1>3 DEF MadeOf
    <3>2. CASE a.lines = << >>
      BY <3>1, <3>2, SMT DEF LoadOf
    <3>3. CASE a.lines # << >>
      BY <3>1, <3>3, SMT DEF LoadOf, Callback
    <3> QED BY <3>2, <3>3
  <2> QED BY <2>1, SMT
<1>4. CASE Removing(a)
  <2>1. n = <<Callback("remove", a.lines)>>
    BY <1>4 DEF MadeOf
  <2>2. \A i \in DOMAIN n : n[i].run = "remove" /\ n[i].lines = a.lines
    BY <2>1, SMT DEF Callback
  <2>3. a.kind \notin {"chats", "user", "group"} \cup HistoryKinds
    <3>1. a.kind \notin {"chats", "user", "group"}
      BY <1>4, SMT DEF Removing
    <3> QED BY <1>4, <3>1, KindsExclude
  <2>4. NoOthers(a.lines)
    BY <2>3 DEF PlainReply
  <2> QED BY <2>2, <2>4, SMT
<1>5. CASE Adding(a)
  <2>1. n = Updates(a.lines)
    BY <1>5 DEF MadeOf
  <2>2. \A i \in DOMAIN n : n[i].run = "update" /\ n[i].lines = <<a.lines[i]>>
    BY <1>0, <2>1, UpdatesTyped, Zenon
  <2>3. \A i \in DOMAIN n : Len(n[i].lines) = 1
    BY <2>2, SMT
  <2> QED BY <2>2, <2>3, SMT
<1> QED BY <1>2, <1>3, <1>4, <1>5, ReplyKinds

PlainRequest(r) == r.kind = "send" => r.line.from # "other"
PlainRun(b) ==
    /\ b.run = "update" => Len(b.lines) = 1
    /\ b.run \in {"home", "remove", "results"} => NoOthers(b.lines)

LEMMA PlainFrom ==
    ASSUME \A i \in DOMAIN requests' : PlainRequest(requests'[i]),
           \A i \in DOMAIN toClient' : PlainReply(toClient'[i]),
           \A i \in DOMAIN idle' : PlainRun(idle'[i])
    PROVE  Plain'
BY DEF Plain, PlainRequest, PlainReply, PlainRun, NoOthers

LEMMA PlainNow ==
    ASSUME Plain
    PROVE  /\ \A i \in DOMAIN requests : PlainRequest(requests[i])
           /\ \A i \in DOMAIN toClient : PlainReply(toClient[i])
           /\ \A i \in DOMAIN idle : PlainRun(idle[i])
BY DEF Plain, PlainRequest, PlainRun

LEMMA PlainStep ==
    ASSUME HomeTypes, BoxIsMap, Histories, Plain, [Next]_vars
    PROVE  Plain'
<1>0. requests \in Seq(Requests)
  BY DEF HomeTypes
<1>1. CASE UserNext \/ EnableClick \/ UNCHANGED vars
  <2>1. UserActs
    BY <1>1, UserActsSo
  <2>2. \A i \in DOMAIN requests' : PlainRequest(requests'[i])
    <3>1. CASE UNCHANGED requests
      BY <3>1, PlainNow
    <3>2. CASE AllSent
      BY <3>2, PlainNow DEF AllSent, Sent, PlainRequest
    <3>3. CASE LoginAgain
      <4> DEFINE t == <<Request("logout", 0), Request("login", 0)>>
      <4>1. t \in Seq(Requests) /\ \A i \in DOMAIN t : t[i].kind # "send"
        BY RequestsTyped, SMT DEF Request
      <4>2. requests' = requests \o t
        BY <3>3 DEF LoginAgain
      <4> HIDE DEF t
      <4>3. \A i \in DOMAIN requests' :
               (i \in DOMAIN requests /\ requests'[i] = requests[i]) \/ requests'[i].kind # "send"
        BY <1>0, <4>1, <4>2, ConcatPlaces
      <4> QED BY <4>3, PlainNow DEF PlainRequest
    <3> QED BY <2>1, <3>1, <3>2, <3>3 DEF UserActs
  <2> QED BY <2>1, <2>2, PlainNow, PlainFrom DEF UserActs
<1>2. CASE ServerNext
  <2>1. PICK as : ServerActs(as)
    BY <1>2, ServerActsSo
  <2>2. \A i \in DOMAIN requests' : PlainRequest(requests'[i])
    BY <2>1, PlainNow DEF ServerActs, Shifted
  <2>3. \A i \in DOMAIN toClient' : PlainReply(toClient'[i])
    BY <2>1, PlainNow DEF ServerActs, GivesFit
  <2>4. UNCHANGED idle
    BY <2>1 DEF ServerActs, Gives
  <2> QED BY <2>2, <2>3, <2>4, PlainNow, PlainFrom
<1>3. CASE CollectorNext
  <2>1. PICK n : CollectorActs(n)
    BY <1>3, CollectorActsSo
  <2>2. \A i \in DOMAIN toClient' : PlainReply(toClient'[i])
    BY <2>1, PlainNow DEF CollectorActs, Shifted
  <2>3. \A i \in DOMAIN n : PlainRun(n[i])
    BY <2>1, PlainNow, MadePlain DEF CollectorActs, PlainRun
  <2>4. \A i \in DOMAIN idle' : PlainRun(idle'[i])
    BY <2>1, <2>3, PlainNow DEF CollectorActs, Added
  <2>5. UNCHANGED requests
    BY <2>1 DEF CollectorActs
  <2> QED BY <2>2, <2>4, <2>5, PlainNow, PlainFrom
<1>4. CASE GtkNext
  <2>1. GtkActs
    BY <1>4, GtkActsSo
  <2>2. \A i \in DOMAIN idle' : PlainRun(idle'[i])
    BY <2>1, PlainNow DEF GtkActs, Shifted
  <2>3. \A i \in DOMAIN requests' : PlainRequest(requests'[i])
    <3>1. GetHistory \in Requests /\ PlainRequest(GetHistory)
      BY RequestsTyped DEF PlainRequest, GetHistory, Request
    <3>2. CASE requests' = Append(requests, GetHistory)
      BY <1>0, <3>1, <3>2, AppendPlaces, PlainNow
    <3> QED BY <2>1, <3>2, PlainNow DEF GtkActs
  <2> QED BY <2>1, <2>2, <2>3, PlainNow, PlainFrom DEF GtkActs
<1> QED BY <1>1, <1>2, <1>3, <1>4 DEF Next

(***************************************************************************)
(* A login is the last of the requests, and answered last.                 *)
(***************************************************************************)
\* The invariant after a step, its primes pushed inwards, as in the sections below.
LoginParts ==
    /\ \A i, j \in DOMAIN requests' : requests'[i].kind = "login" => j <= i
    /\ shown' \/ LoginAsked' \/ requests' = << >>
    /\ \A i, j \in DOMAIN toClient' : toClient'[i].kind = "login" /\ j > i => ~Late(toClient'[j])
    /\ HomeComing' => \A j \in DOMAIN toClient' : ~Late(toClient'[j])
    /\ \A i, j \in DOMAIN idle' : idle'[i].run = "home" /\ j > i => idle'[j].run # "load"

LEMMA LoginFrom == ASSUME LoginParts PROVE LoginLast'
<1> HIDE DEF LoginAsked, HomeComing
<1> QED BY DEF LoginParts, LoginLast, Late

\* Nothing is asked for while a login is answered and the window built.
LEMMA NothingAsked ==
    ASSUME OneLogin, LoginLast, LoginAnswered \/ HomeComing
    PROVE  ~shown /\ ~LoginAsked /\ requests = << >>
<1> HIDE DEF LoginAsked, LoginAnswered, HomeComing
<1> QED BY DEF OneLogin, LoginLast

LEMMA LoginLastUser ==
    ASSUME HomeTypes, OneLogin, LoginLast, UserActs
    PROVE  LoginLast'
<1>0. requests \in Seq(Requests)
  BY DEF HomeTypes
<1>1. UNCHANGED <<toClient, idle>>
  BY DEF UserActs
<1>2. /\ \A i, j \in DOMAIN toClient' : toClient'[i].kind = "login" /\ j > i => ~Late(toClient'[j])
      /\ HomeComing' => \A j \in DOMAIN toClient' : ~Late(toClient'[j])
      /\ \A i, j \in DOMAIN idle' : idle'[i].run = "home" /\ j > i => idle'[j].run # "load"
  BY <1>1 DEF LoginLast, HomeComing
<1>3. CASE UNCHANGED <<requests, shown>>
  <2>1. LoginAsked' <=> LoginAsked
    BY <1>3 DEF LoginAsked
  <2>2. /\ \A i, j \in DOMAIN requests' : requests'[i].kind = "login" => j <= i
        /\ shown' \/ LoginAsked' \/ requests' = << >>
    <3> HIDE DEF LoginAsked
    <3> QED BY <1>3, <2>1 DEF LoginLast
  <2> QED BY <1>2, <2>2, LoginFrom DEF LoginParts
<1>4. CASE shown /\ LoginAgain
  <2> DEFINE t == <<Request("logout", 0), Request("login", 0)>>
             n == Len(requests)
  <2>1. requests' = requests \o t
    BY <1>4 DEF LoginAgain
  <2>2. /\ t \in Seq(Requests) /\ DOMAIN t = {1, 2} /\ t[1].kind = "logout" /\ t[2].kind = "login"
        /\ n \in Nat /\ \A i \in DOMAIN requests : i \in Nat /\ i <= n
    BY <1>0, RequestsTyped, SMT DEF Request
  <2>3. /\ \A i \in DOMAIN t : n + i \in DOMAIN requests' /\ requests'[n + i] = t[i]
        /\ \A i \in DOMAIN requests' :
              \/ i \in DOMAIN requests /\ requests'[i] = requests[i]
              \/ i > n /\ i - n \in DOMAIN t /\ requests'[i] = t[i - n]
    <3> HIDE DEF t
    <3> QED BY <1>0, <2>1, <2>2, ConcatPlaces, SMTT(30)
  <2>4. \A i \in DOMAIN requests' : i \in Nat
    <3> HIDE DEF t
    <3>1. requests' \in Seq(Requests)
      BY <1>0, <2>1, <2>2, ConcatTyped
    <3> QED BY <3>1, SMT
  <2> HIDE DEF t, n
  <2>5. LoginAsked'
    BY <2>2, <2>3 DEF LoginAsked
  <2>6. ~LoginAsked
    BY <1>4 DEF OneLogin
  <2>7. \A i \in DOMAIN requests' : i <= n + 2 /\ (requests'[i].kind = "login" => i = n + 2)
    <3> SUFFICES ASSUME NEW i \in DOMAIN requests'
                 PROVE  i <= n + 2 /\ (requests'[i].kind = "login" => i = n + 2)
      OBVIOUS
    <3>1. CASE i \in DOMAIN requests /\ requests'[i] = requests[i]
      <4>1. requests[i].kind # "login"
        BY <2>6, <3>1 DEF LoginAsked
      <4> QED BY <2>2, <3>1, <4>1
    <3>2. CASE i > n /\ i - n \in DOMAIN t /\ requests'[i] = t[i - n]
      <4>1. i - n = 1 \/ i - n = 2
        BY <2>2, <3>2
      <4>2. i - n = 1 => requests'[i].kind # "login"
        BY <2>2, <3>2, SMT
      <4> QED BY <2>2, <2>4, <4>1, <4>2, SMT
    <3> QED BY <2>3, <3>1, <3>2
  <2>8. \A i, j \in DOMAIN requests' : requests'[i].kind = "login" => j <= i
    BY <2>7
  <2> HIDE DEF LoginAsked
  <2> QED BY <1>2, <2>5, <2>8, LoginFrom DEF LoginParts
<1>5. CASE shown /\ shown' = shown /\ AllSent
  <2>1. \A i \in DOMAIN requests : requests[i].kind # "login"
    BY <1>5 DEF OneLogin, LoginAsked
  <2>2. \A i \in DOMAIN requests' : requests'[i].kind # "login"
    <3> SUFFICES ASSUME NEW i \in DOMAIN requests' PROVE requests'[i].kind # "login"
      OBVIOUS
    <3>1. CASE Sent(requests'[i])
      BY <3>1, SMT DEF Sent
    <3> QED BY <1>5, <2>1, <3>1 DEF AllSent
  <2> QED BY <1>2, <1>5, <2>2, LoginFrom DEF LoginParts
<1> QED BY <1>3, <1>4, <1>5 DEF UserActs

LEMMA LoginLastServer ==
    ASSUME HomeTypes, OneLogin, LoginLast, NEW as, ServerActs(as)
    PROVE  LoginLast'
<1>0. requests \in Seq(Requests) /\ toClient \in Seq(Replies)
  BY DEF HomeTypes
<1>1. UNCHANGED <<idle, shown>>
  BY DEF ServerActs, Gives, uiVars
<1>2. HomeComing' <=> HomeComing
  BY <1>1 DEF HomeComing
<1>3. \A i \in DOMAIN toClient' :
         \/ i \in DOMAIN toClient /\ toClient'[i] = toClient[i]
         \/ i = Len(toClient) + 1 /\ (Late(toClient'[i]) => requests # << >>)
  BY DEF ServerActs, GivesFit, Served, Late
<1>4. Len(toClient) \in Nat /\ \A i \in DOMAIN toClient : i \in Nat /\ i <= Len(toClient)
  BY <1>0, SMT
<1>5. \A i, j \in DOMAIN toClient' : toClient'[i].kind = "login" /\ j > i => ~Late(toClient'[j])
  <2> SUFFICES ASSUME NEW i \in DOMAIN toClient', NEW j \in DOMAIN toClient',
                      toClient'[i].kind = "login", j > i, Late(toClient'[j])
               PROVE  FALSE
    OBVIOUS
  <2>1. i \in DOMAIN toClient /\ toClient'[i] = toClient[i]
    BY <1>3, <1>4
  <2>2. LoginAnswered
    BY <2>1 DEF LoginAnswered
  <2>3. requests = << >>
    BY <2>2, NothingAsked
  <2>4. j \in DOMAIN toClient /\ toClient'[j] = toClient[j]
    BY <1>3, <2>3
  <2> QED BY <2>1, <2>4 DEF LoginLast
<1>6. ASSUME HomeComing PROVE \A j \in DOMAIN toClient' : ~Late(toClient'[j])
  <2>1. requests = << >>
    BY <1>6, NothingAsked
  <2> HIDE DEF HomeComing
  <2> QED BY <1>3, <1>6, <2>1 DEF LoginLast
<1>7. \A i, j \in DOMAIN idle' : idle'[i].run = "home" /\ j > i => idle'[j].run # "load"
  BY <1>1 DEF LoginLast
<1>8. CASE UNCHANGED requests
  <2>1. LoginAsked' <=> LoginAsked
    BY <1>8 DEF LoginAsked
  <2> HIDE DEF LoginAsked, HomeComing
  <2>2. /\ \A i, j \in DOMAIN requests' : requests'[i].kind = "login" => j <= i
        /\ shown' \/ LoginAsked' \/ requests' = << >>
    BY <1>1, <1>8, <2>1 DEF LoginLast
  <2> QED BY <1>2, <1>5, <1>6, <1>7, <2>2, LoginFrom DEF LoginParts
<1>9. CASE /\ requests # << >> /\ requests' = Tail(requests) /\ Shifted(requests, requests')
           /\ Head(requests) = requests[1] /\ 1 \in DOMAIN requests
  <2>1. \A i, j \in DOMAIN requests' : requests'[i].kind = "login" => j <= i
    <3> SUFFICES ASSUME NEW i \in DOMAIN requests', NEW j \in DOMAIN requests',
                        requests'[i].kind = "login"
                 PROVE  j <= i
      OBVIOUS
    <3>1. j + 1 <= i + 1 /\ i \in Nat /\ j \in Nat
      BY <1>9 DEF Shifted, LoginLast
    <3> QED BY <3>1
  <2>2. ASSUME ~shown PROVE LoginAsked' \/ requests' = << >>
    <3>1. LoginAsked
      <4> HIDE DEF LoginAsked
      <4> QED BY <1>9, <2>2 DEF LoginLast
    <3>2. PICK i \in DOMAIN requests : requests[i].kind = "login"
      BY <3>1 DEF LoginAsked
    <3>3. CASE i = 1
      <4>1. \A j \in DOMAIN requests : j <= 1
        BY <3>2, <3>3 DEF LoginLast
      <4>2. Len(requests) = 1
        <5>1. Len(requests) \in DOMAIN requests
          BY <1>0, <1>9, NonEmptyHasFirst
        <5>2. Len(requests) <= 1 /\ Len(requests) \in Nat /\ Len(requests) >= 1
          BY <1>0, <4>1, <5>1, SMT
        <5> QED BY <5>2
      <4>3. Tail(requests) \in Seq(Requests) /\ Len(Tail(requests)) = 0
        BY <1>0, <1>9, <4>2, SMT
      <4> QED BY <1>9, <4>3, EmptySeq
    <3>4. CASE i # 1
      <4>1. i - 1 \in DOMAIN requests' /\ requests'[i - 1] = requests[i]
        BY <1>0, <1>9, <3>2, <3>4, TailPlaces
      <4>2. LoginAsked'
        BY <3>2, <4>1 DEF LoginAsked
      <4> QED BY <4>2
    <3> QED BY <3>3, <3>4
  <2>3. shown' \/ LoginAsked' \/ requests' = << >>
    BY <1>1, <2>2
  <2> HIDE DEF LoginAsked, HomeComing
  <2> QED BY <1>2, <1>5, <1>6, <1>7, <2>1, <2>3, LoginFrom DEF LoginParts
<1> QED BY <1>8, <1>9 DEF ServerActs

LEMMA LoginLastCollector ==
    ASSUME HomeTypes, OneLogin, LoginLast, NEW n, CollectorActs(n)
    PROVE  LoginLast'
<1>0. idle \in Seq(Callbacks) /\ n \in Seq(Callbacks) /\ idle' \in Seq(Callbacks)
  <2>1. idle \in Seq(Callbacks) /\ n \in Seq(Callbacks) /\ idle' = idle \o n
    BY DEF HomeTypes, CollectorActs
  <2> QED BY <2>1, ConcatTyped
<1>1. UNCHANGED <<requests, shown>>
  BY DEF CollectorActs, uiVars
<1>2. LoginAsked' <=> LoginAsked
  BY <1>1 DEF LoginAsked
<1>3. /\ Shifted(toClient, toClient') /\ 1 \in DOMAIN toClient /\ toClient[1] \in Replies
      /\ MadeOf(n, toClient[1]) /\ Added(idle, n, idle')
  BY DEF CollectorActs
<1>4. /\ Len(idle) \in Nat /\ \A i \in DOMAIN idle' : i \in Nat
      /\ \A i \in DOMAIN idle : i <= Len(idle)
  BY <1>0, SMT
<1>5. \A i \in DOMAIN n : /\ n[i].run = "load" => toClient[1].kind \in HistoryKinds
                          /\ n[i].run = "home" => toClient[1].kind = "login"
  BY <1>3, MadeRuns
<1>6. \A i, j \in DOMAIN toClient' : toClient'[i].kind = "login" /\ j > i => ~Late(toClient'[j])
  <2> SUFFICES ASSUME NEW i \in DOMAIN toClient', NEW j \in DOMAIN toClient',
                      toClient'[i].kind = "login", j > i
               PROVE  ~Late(toClient'[j])
    OBVIOUS
  <2>1. /\ i + 1 \in DOMAIN toClient /\ toClient'[i] = toClient[i + 1] /\ i \in Nat
        /\ j + 1 \in DOMAIN toClient /\ toClient'[j] = toClient[j + 1] /\ j \in Nat
    BY <1>3 DEF Shifted
  <2>2. j + 1 > i + 1
    BY <2>1
  <2> QED BY <2>1, <2>2 DEF LoginLast
<1>7. ASSUME HomeComing PROVE \A j \in DOMAIN toClient : ~Late(toClient[j])
  <2> HIDE DEF HomeComing
  <2> QED BY <1>7 DEF LoginLast
<1>8. ASSUME HomeComing' PROVE \A j \in DOMAIN toClient' : ~Late(toClient'[j])
  <2>1. PICK i \in DOMAIN idle' : idle'[i].run = "home"
    BY <1>8 DEF HomeComing
  <2>2. CASE i \in DOMAIN idle /\ idle'[i] = idle[i]
    <3>1. HomeComing
      BY <2>1, <2>2 DEF HomeComing
    <3> QED BY <1>3, <1>7, <3>1 DEF Shifted
  <2>3. CASE i - Len(idle) \in DOMAIN n /\ idle'[i] = n[i - Len(idle)]
    <3>1. toClient[1].kind = "login"
      BY <1>5, <2>1, <2>3
    <3> SUFFICES ASSUME NEW j \in DOMAIN toClient' PROVE ~Late(toClient'[j])
      OBVIOUS
    <3>2. j \in Nat /\ j >= 1 /\ j + 1 \in DOMAIN toClient /\ toClient'[j] = toClient[j + 1]
      BY <1>3 DEF Shifted
    <3>3. j + 1 > 1
      BY <3>2
    <3> QED BY <1>3, <3>1, <3>2, <3>3 DEF LoginLast
  <2> QED BY <1>3, <2>1, <2>2, <2>3 DEF Added
<1>9. \A i, j \in DOMAIN idle' : idle'[i].run = "home" /\ j > i => idle'[j].run # "load"
  <2> SUFFICES ASSUME NEW i \in DOMAIN idle', NEW j \in DOMAIN idle',
                      idle'[i].run = "home", j > i, idle'[j].run = "load"
               PROVE  FALSE
    OBVIOUS
  <2>1. CASE i \in DOMAIN idle /\ idle'[i] = idle[i]
    <3>1. HomeComing
      BY <2>1 DEF HomeComing
    <3>2. ~Late(toClient[1])
      BY <1>3, <1>7, <3>1
    <3>3. CASE j \in DOMAIN idle /\ idle'[j] = idle[j]
      BY <2>1, <3>3 DEF LoginLast
    <3>4. CASE j - Len(idle) \in DOMAIN n /\ idle'[j] = n[j - Len(idle)]
      BY <1>5, <3>2, <3>4 DEF Late
    <3> QED BY <1>3, <3>3, <3>4 DEF Added
  <2>2. CASE i > Len(idle) /\ i - Len(idle) \in DOMAIN n /\ idle'[i] = n[i - Len(idle)]
    <3>1. toClient[1].kind = "login"
      BY <1>5, <2>2
    <3>2. j \notin DOMAIN idle
      BY <1>4, <2>2
    <3>3. j - Len(idle) \in DOMAIN n /\ idle'[j] = n[j - Len(idle)]
      BY <1>3, <3>2 DEF Added
    <3>4. toClient[1].kind \in HistoryKinds
      BY <1>5, <3>3
    <3> QED BY <3>1, <3>4, KindsExclude
  <2> QED BY <1>3, <2>1, <2>2 DEF Added
<1> HIDE DEF LoginAsked, HomeComing
<1>10. /\ \A i, j \in DOMAIN requests' : requests'[i].kind = "login" => j <= i
       /\ shown' \/ LoginAsked' \/ requests' = << >>
  BY <1>1, <1>2 DEF LoginLast
<1> QED BY <1>6, <1>8, <1>9, <1>10, LoginFrom DEF LoginParts

LEMMA LoginLastGtk ==
    ASSUME HomeTypes, OneLogin, LoginLast, GtkActs
    PROVE  LoginLast'
<1>0. requests \in Seq(Requests)
  BY DEF HomeTypes
<1>1. UNCHANGED toClient /\ Shifted(idle, idle') /\ 1 \in DOMAIN idle
  BY DEF GtkActs
<1>2. HomeComing' => HomeComing
  BY <1>1 DEF HomeComing, Shifted
<1>3. \A i, j \in DOMAIN toClient' : toClient'[i].kind = "login" /\ j > i => ~Late(toClient'[j])
  BY <1>1 DEF LoginLast
<1>4. \A i, j \in DOMAIN idle' : idle'[i].run = "home" /\ j > i => idle'[j].run # "load"
  <2> SUFFICES ASSUME NEW i \in DOMAIN idle', NEW j \in DOMAIN idle',
                      idle'[i].run = "home", j > i
               PROVE  idle'[j].run # "load"
    OBVIOUS
  <2>1. /\ i + 1 \in DOMAIN idle /\ idle'[i] = idle[i + 1] /\ i \in Nat
        /\ j + 1 \in DOMAIN idle /\ idle'[j] = idle[j + 1] /\ j \in Nat
    BY <1>1 DEF Shifted
  <2>2. j + 1 > i + 1
    BY <2>1
  <2> QED BY <2>1, <2>2 DEF LoginLast
<1>5. HomeComing' => \A j \in DOMAIN toClient' : ~Late(toClient'[j])
  <2> HIDE DEF HomeComing
  <2> QED BY <1>1, <1>2 DEF LoginLast
<1>6. CASE UNCHANGED <<shown, requests>>
  <2>1. LoginAsked' <=> LoginAsked
    BY <1>6 DEF LoginAsked
  <2> HIDE DEF LoginAsked, HomeComing
  <2>2. /\ \A i, j \in DOMAIN requests' : requests'[i].kind = "login" => j <= i
        /\ shown' \/ LoginAsked' \/ requests' = << >>
    BY <1>6, <2>1 DEF LoginLast
  <2> QED BY <1>3, <1>4, <1>5, <2>2, LoginFrom DEF LoginParts
<1>7. CASE idle[1].run = "home" /\ shown' /\ requests' = Append(requests, GetHistory)
  <2>1. HomeComing
    BY <1>1, <1>7 DEF HomeComing
  <2>2. \A i \in DOMAIN requests : requests[i].kind # "login"
    BY <2>1, NothingAsked DEF LoginAsked
  <2>3. GetHistory \in Requests /\ GetHistory.kind = "chats"
    BY RequestsTyped DEF GetHistory, Request
  <2>4. \A i \in DOMAIN requests' : requests'[i].kind # "login"
    BY <1>0, <1>7, <2>2, <2>3, AppendPlaces
  <2> QED BY <1>3, <1>4, <1>5, <1>7, <2>4, LoginFrom DEF LoginParts
<1> QED BY <1>6, <1>7 DEF GtkActs

LEMMA LoginLastStep ==
    ASSUME HomeTypes, BoxIsMap, Histories, OneLogin, Plain, LoginLast, [Next]_vars
    PROVE  LoginLast'
<1>1. CASE UserNext \/ EnableClick \/ UNCHANGED vars
  BY <1>1, UserActsSo, LoginLastUser
<1>2. CASE ServerNext
  BY <1>2, ServerActsSo, LoginLastServer
<1>3. CASE CollectorNext
  BY <1>3, CollectorActsSo, LoginLastCollector
<1>4. CASE GtkNext
  BY <1>4, GtkActsSo, LoginLastGtk
<1> QED BY <1>1, <1>2, <1>3, <1>4 DEF Next

(***************************************************************************)
(* The chats are asked for, and come, before any history.                  *)
(***************************************************************************)
ChatsParts ==
    /\ \A i, j \in DOMAIN requests' :
          requests'[i].kind = "history" /\ requests'[j].kind = "chats" => j < i
    /\ ChatsAskedNext => /\ loaded' = 0
                         /\ \A i \in DOMAIN toClient' : toClient'[i].kind \notin HistoryKinds
                         /\ \A i \in DOMAIN idle' : idle'[i].run # "load"
    /\ \A i \in DOMAIN toClient' : toClient'[i].kind = "chats" =>
          /\ loaded' = 0 /\ \A k \in DOMAIN idle' : idle'[k].run # "load"
          /\ \A j \in DOMAIN toClient' : j < i => toClient'[j].kind \notin HistoryKinds

LEMMA ChatsFrom == ASSUME shown' => ChatsParts PROVE ChatsFirst'
BY DEF ChatsParts, ChatsFirst, ChatsAsked, ChatsAskedNext, NoHistory, NoLoad

LEMMA ChatsNow ==
    ASSUME ChatsFirst, shown
    PROVE  /\ \A i, j \in DOMAIN requests :
                 requests[i].kind = "history" /\ requests[j].kind = "chats" => j < i
           /\ ChatsAsked => loaded = 0 /\ NoHistory /\ NoLoad
           /\ \A i \in DOMAIN toClient : toClient[i].kind = "chats" =>
                 /\ loaded = 0 /\ NoLoad
                 /\ \A j \in DOMAIN toClient : j < i => toClient[j].kind \notin HistoryKinds
BY Zenon DEF ChatsFirst

LEMMA ChatsFirstUser ==
    ASSUME HomeTypes, ChatsFirst, UserActs, requests' \in Seq(Requests)
    PROVE  ChatsFirst'
<1> SUFFICES ASSUME shown' PROVE ChatsParts
  BY ChatsFrom
<1>0. requests \in Seq(Requests)
  BY DEF HomeTypes
<1>1. UNCHANGED <<toClient, idle, loaded>>
  BY DEF UserActs
<1>2. shown
  BY DEF UserActs
<1>3. CASE UNCHANGED requests
  <2>1. ChatsAskedNext <=> ChatsAsked
    BY <1>3 DEF ChatsAskedNext, ChatsAsked
  <2> HIDE DEF ChatsAskedNext, ChatsAsked
  <2> QED BY <1>1, <1>2, <1>3, <2>1, ChatsNow DEF ChatsParts, NoHistory, NoLoad
<1>4. CASE AllSent /\ Kept(requests, requests')
  <2>1. \A j \in DOMAIN requests' : requests'[j].kind = "chats" =>
           j \in DOMAIN requests /\ requests'[j] = requests[j]
    <3> SUFFICES ASSUME NEW j \in DOMAIN requests', requests'[j].kind = "chats",
                        Sent(requests'[j])
                 PROVE  FALSE
      BY <1>4 DEF AllSent
    <3> QED BY SMT DEF Sent
  <2>2. ChatsAskedNext => ChatsAsked
    BY <2>1 DEF ChatsAskedNext, ChatsAsked
  <2>3. \A i, j \in DOMAIN requests' :
           requests'[i].kind = "history" /\ requests'[j].kind = "chats" => j < i
    <3> SUFFICES ASSUME NEW i \in DOMAIN requests', NEW j \in DOMAIN requests',
                        requests'[i].kind = "history", requests'[j].kind = "chats"
                 PROVE  j < i
      OBVIOUS
    <3>1. j \in DOMAIN requests /\ requests'[j] = requests[j]
      BY <2>1
    <3>2. CASE i \in DOMAIN requests
      BY <1>2, <1>4, <3>1, <3>2, ChatsNow DEF Kept
    <3>3. CASE i \notin DOMAIN requests
      <4>1. i \in Nat /\ i >= 1
        BY SMT
      <4> QED BY <1>0, <3>1, <3>3, <4>1, SMT
    <3> QED BY <3>2, <3>3
  <2> HIDE DEF ChatsAskedNext, ChatsAsked
  <2> QED BY <1>1, <1>2, <2>2, <2>3, ChatsNow DEF ChatsParts, NoHistory, NoLoad
<1>5. ~LoginAgain
  BY DEF LoginAgain
<1> QED BY <1>3, <1>4, <1>5 DEF UserActs

LEMMA ChatsFirstServer ==
    ASSUME HomeTypes, ChatsFirst, NEW as, ServerActs(as)
    PROVE  ChatsFirst'
<1> SUFFICES ASSUME shown' PROVE ChatsParts
  BY ChatsFrom
<1>0. requests \in Seq(Requests) /\ toClient \in Seq(Replies)
  BY DEF HomeTypes
<1>1. UNCHANGED <<idle, loaded, shown>>
  BY DEF ServerActs, Gives, uiVars
<1>2. shown
  BY <1>1
<1>3. /\ Len(toClient) \in Nat /\ \A i \in DOMAIN toClient : i \in Nat /\ i <= Len(toClient)
  BY <1>0, SMT
<1>4. \A i \in DOMAIN requests' : \E k \in DOMAIN requests : requests'[i] = requests[k]
  BY DEF ServerActs, Shifted
<1>5. ChatsAskedNext => ChatsAsked
  BY <1>4 DEF ChatsAskedNext, ChatsAsked
<1>6. \A i, j \in DOMAIN requests' :
           requests'[i].kind = "history" /\ requests'[j].kind = "chats" => j < i
  <2>1. CASE UNCHANGED requests
    BY <1>2, <2>1, ChatsNow
  <2>2. CASE Shifted(requests, requests')
    <3> SUFFICES ASSUME NEW i \in DOMAIN requests', NEW j \in DOMAIN requests',
                        requests'[i].kind = "history", requests'[j].kind = "chats"
                 PROVE  j < i
      OBVIOUS
    <3>1. j + 1 < i + 1 /\ i \in Nat /\ j \in Nat
      BY <1>2, <2>2, ChatsNow DEF Shifted
    <3> QED BY <3>1
  <2> QED BY <2>1, <2>2 DEF ServerActs
<1>7. \A i \in DOMAIN toClient' :
         \/ i \in DOMAIN toClient /\ toClient'[i] = toClient[i]
         \/ /\ i = Len(toClient) + 1
            /\ toClient'[i].kind = "chats" => Served("chats")
            /\ toClient'[i].kind \in HistoryKinds => Served("history")
  BY DEF ServerActs, GivesFit
<1>8. Served("chats") => ChatsAsked
  <2>1. Served("chats") => 1 \in DOMAIN requests /\ requests[1].kind = "chats"
    BY <1>0, TailPlaces DEF Served
  <2> QED BY <2>1 DEF ChatsAsked
<1>9. ChatsAskedNext => ~Served("history")
  <2> SUFFICES ASSUME ChatsAskedNext, Served("history") PROVE FALSE
    OBVIOUS
  <2>1. 1 \in DOMAIN requests /\ requests[1].kind = "history" /\ requests # << >> /\ requests' = Tail(requests)
    BY <1>0, TailPlaces DEF Served
  <2>2. PICK j \in DOMAIN requests' : requests'[j].kind = "chats"
    BY DEF ChatsAskedNext
  <2>3. j \in Nat /\ j >= 1 /\ j + 1 \in DOMAIN requests /\ requests[j + 1].kind = "chats"
    BY <1>0, <2>1, <2>2, TailPlaces
  <2>4. j + 1 < 1
    BY <1>2, <2>1, <2>3, ChatsNow
  <2> QED BY <2>3, <2>4
<1> HIDE DEF ChatsAskedNext, ChatsAsked
<1>10. ChatsAskedNext => /\ loaded' = 0
                         /\ \A i \in DOMAIN toClient' : toClient'[i].kind \notin HistoryKinds
                         /\ \A i \in DOMAIN idle' : idle'[i].run # "load"
  BY <1>1, <1>2, <1>5, <1>7, <1>9, ChatsNow DEF NoHistory, NoLoad
<1>11. ASSUME NEW i \in DOMAIN toClient', toClient'[i].kind = "chats"
       PROVE  /\ loaded' = 0 /\ \A k \in DOMAIN idle' : idle'[k].run # "load"
              /\ \A j \in DOMAIN toClient' : j < i => toClient'[j].kind \notin HistoryKinds
  <2>1. CASE i \in DOMAIN toClient /\ toClient'[i] = toClient[i]
    <3>1. /\ loaded = 0 /\ NoLoad
          /\ \A j \in DOMAIN toClient : j < i => toClient[j].kind \notin HistoryKinds
      BY <1>2, <1>11, <2>1, ChatsNow
    <3>2. \A j \in DOMAIN toClient' : j < i => j \in DOMAIN toClient /\ toClient'[j] = toClient[j]
      BY <1>3, <1>7, <2>1
    <3> QED BY <1>1, <3>1, <3>2 DEF NoLoad
  <2>2. CASE i = Len(toClient) + 1 /\ Served("chats")
    <3>1. loaded = 0 /\ NoLoad /\ NoHistory
      BY <1>2, <1>8, <2>2, ChatsNow
    <3>2. \A j \in DOMAIN toClient' : j < i => j \in DOMAIN toClient /\ toClient'[j] = toClient[j]
      BY <1>3, <1>7, <2>2
    <3> QED BY <1>1, <3>1, <3>2 DEF NoLoad, NoHistory
  <2> QED BY <1>7, <1>11, <2>1, <2>2
<1> QED BY <1>6, <1>10, <1>11 DEF ChatsParts

LEMMA ChatsFirstCollector ==
    ASSUME HomeTypes, ChatsFirst, NEW n, CollectorActs(n)
    PROVE  ChatsFirst'
<1> SUFFICES ASSUME shown' PROVE ChatsParts
  BY ChatsFrom
<1>1. UNCHANGED <<requests, loaded, shown>>
  BY DEF CollectorActs, uiVars
<1>2. shown
  BY <1>1
<1>3. /\ Shifted(toClient, toClient') /\ 1 \in DOMAIN toClient /\ toClient[1] \in Replies
      /\ MadeOf(n, toClient[1]) /\ Added(idle, n, idle')
  BY DEF CollectorActs
<1>4. ChatsAskedNext <=> ChatsAsked
  BY <1>1 DEF ChatsAskedNext, ChatsAsked
<1>5. \A i \in DOMAIN n : n[i].run = "load" => toClient[1].kind \in HistoryKinds
  BY <1>3, MadeRuns
<1>6. ASSUME toClient[1].kind \notin HistoryKinds, NoLoad
      PROVE  \A i \in DOMAIN idle' : idle'[i].run # "load"
  BY <1>3, <1>5, <1>6 DEF Added, NoLoad
<1>7. NoHistory => \A i \in DOMAIN toClient' : toClient'[i].kind \notin HistoryKinds
  BY <1>3 DEF NoHistory, Shifted
<1>8. NoHistory => toClient[1].kind \notin HistoryKinds
  BY <1>3 DEF NoHistory
<1>9. ASSUME NEW i \in DOMAIN toClient', toClient'[i].kind = "chats"
      PROVE  /\ loaded' = 0 /\ \A k \in DOMAIN idle' : idle'[k].run # "load"
             /\ \A j \in DOMAIN toClient' : j < i => toClient'[j].kind \notin HistoryKinds
  <2>1. i \in Nat /\ i >= 1 /\ i + 1 \in DOMAIN toClient /\ toClient'[i] = toClient[i + 1]
    BY <1>3 DEF Shifted
  <2>2. /\ loaded = 0 /\ NoLoad
        /\ \A j \in DOMAIN toClient : j < i + 1 => toClient[j].kind \notin HistoryKinds
    BY <1>2, <1>9, <2>1, ChatsNow
  <2>3. toClient[1].kind \notin HistoryKinds
    <3>1. 1 < i + 1
      BY <2>1
    <3> QED BY <1>3, <2>2, <3>1
  <2>4. \A j \in DOMAIN toClient' : j < i => toClient'[j].kind \notin HistoryKinds
    <3> SUFFICES ASSUME NEW j \in DOMAIN toClient', j < i
                 PROVE  toClient'[j].kind \notin HistoryKinds
      OBVIOUS
    <3>1. j \in Nat /\ j + 1 \in DOMAIN toClient /\ toClient'[j] = toClient[j + 1]
      BY <1>3 DEF Shifted
    <3>2. j + 1 < i + 1
      BY <2>1, <3>1
    <3> QED BY <2>2, <3>1, <3>2
  <2> QED BY <1>1, <1>6, <2>2, <2>3, <2>4
<1> HIDE DEF ChatsAskedNext, ChatsAsked, NoHistory, NoLoad
<1>10. ChatsAskedNext => /\ loaded' = 0
                         /\ \A i \in DOMAIN toClient' : toClient'[i].kind \notin HistoryKinds
                         /\ \A i \in DOMAIN idle' : idle'[i].run # "load"
  BY <1>1, <1>2, <1>4, <1>6, <1>7, <1>8, ChatsNow
<1>11. \A i, j \in DOMAIN requests' :
           requests'[i].kind = "history" /\ requests'[j].kind = "chats" => j < i
  BY <1>1, <1>2, ChatsNow
<1> QED BY <1>9, <1>10, <1>11 DEF ChatsParts

LEMMA ChatsFirstGtk ==
    ASSUME HomeTypes, OneLogin, LoginLast, ChatsFirst, GtkActs
    PROVE  ChatsFirst'
<1> SUFFICES ASSUME shown' PROVE ChatsParts
  BY ChatsFrom
<1>1. UNCHANGED toClient /\ Shifted(idle, idle') /\ 1 \in DOMAIN idle
  BY DEF GtkActs
<1>2. CASE /\ UNCHANGED <<shown, requests>>
           /\ loaded' = loaded \/ loaded' = 0 \/ idle[1].run = "load"
  <2>1. ChatsAskedNext <=> ChatsAsked
    BY <1>2 DEF ChatsAskedNext, ChatsAsked
  <2>2. ASSUME NoLoad, loaded = 0
        PROVE  loaded' = 0 /\ \A i \in DOMAIN idle' : idle'[i].run # "load"
    BY <1>1, <1>2, <2>2 DEF NoLoad, Shifted
  <2>3. shown
    BY <1>2
  <2> HIDE DEF ChatsAskedNext, ChatsAsked
  <2>4. ChatsAskedNext => /\ loaded' = 0
                          /\ \A i \in DOMAIN toClient' : toClient'[i].kind \notin HistoryKinds
                          /\ \A i \in DOMAIN idle' : idle'[i].run # "load"
    BY <1>1, <2>1, <2>2, <2>3, ChatsNow DEF NoHistory
  <2>5. \A i, j \in DOMAIN requests' :
           requests'[i].kind = "history" /\ requests'[j].kind = "chats" => j < i
    BY <1>2, <2>3, ChatsNow
  <2>6. \A i \in DOMAIN toClient' : toClient'[i].kind = "chats" =>
          /\ loaded' = 0 /\ \A k \in DOMAIN idle' : idle'[k].run # "load"
          /\ \A j \in DOMAIN toClient' : j < i => toClient'[j].kind \notin HistoryKinds
    BY <1>1, <2>2, <2>3, ChatsNow
  <2> QED BY <2>4, <2>5, <2>6 DEF ChatsParts
<1>3. CASE idle[1].run = "home" /\ loaded' = 0 /\ requests' = Append(requests, GetHistory)
  <2>1. HomeComing
    BY <1>1, <1>3 DEF HomeComing
  <2>2. requests = << >>
    BY <2>1, NothingAsked
  <2>3. GetHistory.kind = "chats"
    BY DEF GetHistory, Request
  <2>4. \A i \in DOMAIN requests' : requests'[i].kind # "history"
    BY <1>3, <2>2, <2>3, SMT
  <2>5. \A i \in DOMAIN toClient : ~Late(toClient[i])
    <3> HIDE DEF HomeComing
    <3> QED BY <2>1 DEF LoginLast
  <2>6. \A i \in DOMAIN toClient' : toClient'[i].kind \notin HistoryKinds /\ toClient'[i].kind # "chats"
    BY <1>1, <2>5 DEF Late
  <2>7. \A i \in DOMAIN idle' : idle'[i].run # "load"
    <3> SUFFICES ASSUME NEW i \in DOMAIN idle' PROVE idle'[i].run # "load"
      OBVIOUS
    <3>1. i + 1 \in DOMAIN idle /\ idle'[i] = idle[i + 1] /\ i \in Nat /\ i >= 1
      BY <1>1 DEF Shifted
    <3>2. i + 1 > 1
      BY <3>1
    <3> QED BY <1>1, <1>3, <3>1, <3>2 DEF LoginLast
  <2> QED BY <1>3, <2>4, <2>6, <2>7 DEF ChatsParts
<1> QED BY <1>2, <1>3 DEF GtkActs

LEMMA ChatsFirstStep ==
    ASSUME HomeTypes, BoxIsMap, Histories, OneLogin, Plain, LoginLast, ChatsFirst, [Next]_vars
    PROVE  ChatsFirst'
<1>1. CASE UserNext \/ EnableClick \/ UNCHANGED vars
  <2>1. requests' \in Seq(Requests)
    BY TypesStep DEF HomeTypes
  <2> QED BY <1>1, <2>1, UserActsSo, ChatsFirstUser
<1>2. CASE ServerNext
  BY <1>2, ServerActsSo, ChatsFirstServer
<1>3. CASE CollectorNext
  BY <1>3, CollectorActsSo, ChatsFirstCollector
<1>4. CASE GtkNext
  BY <1>4, GtkActsSo, ChatsFirstGtk
<1> QED BY <1>1, <1>2, <1>3, <1>4 DEF Next

(***************************************************************************)
(* What is pushed, before and after each kind of step.                     *)
(***************************************************************************)
\* The collector pushes no more and no less.
LEMMA CollectedSame ==
    ASSUME HomeTypes, Plain, NEW n, CollectorActs(n), NEW q \in Seq(Callbacks), NEW c
    PROVE  Pushed(q \o n, toClient', c) = Pushed(q, toClient, c)
<1> DEFINE a == toClient[1]
           r == Tail(toClient)
<1>1. /\ toClient # << >> /\ toClient' = r /\ Head(toClient) = a /\ a \in Replies
      /\ n \in Seq(Callbacks) /\ MadeOf(n, a) /\ toClient \in Seq(Replies)
      /\ 1 \in DOMAIN toClient
  BY DEF CollectorActs, HomeTypes
<1>2. r \in Seq(Replies) /\ toClient = <<a>> \o r
  BY <1>1, AfterFirst, TailPlaces
<1>3. a.kind \in {"login", "search"} => NoOthers(a.lines)
  <2>1. PlainReply(a)
    BY <1>1, PlainNow
  <2>2. a.kind \in {"login", "search"} => a.kind \notin HistoryKinds
    BY KindsOther
  <2> HIDE DEF a
  <2> QED BY <2>1, <2>2 DEF PlainReply
<1> HIDE DEF a, r
<1>4. RunsIn(n, c) = Theirs(PushedReply(a), c)
  BY <1>1, <1>3, MadeTells
<1>5. Pushed(q \o n, r, c) = Pushed(q, <<a>> \o r, c)
  BY <1>1, <1>2, <1>4, PushedMoved
<1> QED BY <1>1, <1>2, <1>5

\* What a callback shows is the first of what is pushed.
LEMMA RanFirst ==
    ASSUME HomeTypes, GtkActs, NEW c
    PROVE  Pushed(idle, toClient, c) = Theirs(PushedRun(idle[1]), c) \o Pushed(idle', toClient', c)
<1> DEFINE b == idle[1]
           q == Tail(idle)
<1>1. /\ idle # << >> /\ idle' = q /\ Head(idle) = b /\ b \in Callbacks
      /\ idle \in Seq(Callbacks) /\ toClient \in Seq(Replies) /\ toClient' = toClient
  BY DEF GtkActs, HomeTypes
<1>2. q \in Seq(Callbacks) /\ idle = <<b>> \o q
  BY <1>1, AfterFirst, TailPlaces
<1> HIDE DEF b, q
<1>3. Pushed(<<b>> \o q, toClient, c) = Theirs(PushedRun(b), c) \o Pushed(q, toClient, c)
  BY <1>1, <1>2, PushedRun1
<1> QED BY <1>1, <1>2, <1>3 DEF b

(***************************************************************************)
(* The last of what is pushed is the last that others wrote.               *)
(***************************************************************************)
AllEndNext(q, r) == \A c \in Convs : EndsAs(Pushed(q, r, c), Theirs(store'[c], c))
PendingParts ==
    /\ shown' => AllEndNext(idle', toClient')
    /\ \A i \in DOMAIN toClient' :
          toClient'[i].kind = "login" => AllEndNext(<< >>, After(toClient', i))
    /\ \A i \in DOMAIN idle' : idle'[i].run = "home" => AllEndNext(After(idle', i), toClient')

LEMMA PendingFrom == ASSUME PendingParts PROVE Pending'
BY DEF PendingParts, Pending, AllEnd, AllEndNext, EndsAs, Pushed, RunsIn, RepliesIn, RunLines,
       ReplyLines, PushedRun, PushedReply, After

LEMMA AllEndKept ==
    ASSUME UNCHANGED store, NEW q, NEW r, AllEnd(q, r)
    PROVE  AllEndNext(q, r)
BY DEF AllEnd, AllEndNext

LEMMA EndServed ==
    ASSUME HomeTypes, NEW as \in Seq(Replies), TellsAll(as) \/ TellsLast(as),
           NEW q \in Seq(Callbacks), NEW r \in Seq(Replies), AllEnd(q, r)
    PROVE  AllEndNext(q, r \o as)
<1> SUFFICES ASSUME NEW c \in Convs
             PROVE  EndsAs(Pushed(q, r \o as, c), Theirs(store'[c], c))
  BY DEF AllEndNext
<1> DEFINE p == Pushed(q, r, c)
           n == RepliesIn(as, c)
           s == Theirs(store[c], c)
<1>1. p \in Seq(ConvLine) /\ n \in Seq(ConvLine) /\ s \in Seq(ConvLine)
  <2>1. store[c] \in Seq(ConvLine)
    BY DEF HomeTypes
  <2> QED BY <2>1, PushedTyped, RepliesInTyped, TheirsTyped
<1>2. Pushed(q, r \o as, c) = p \o n
  BY PushedAdded
<1>3. EndsAs(p, s)
  BY DEF AllEnd
<1>4. CASE TellsAll(as)
  <2>1. Theirs(store'[c], c) = s \o n
    BY <1>4 DEF TellsAll
  <2> HIDE DEF p, n, s
  <2>2. EndsAs(p \o n, s \o n)
    BY <1>1, <1>3, EndsAsConcat
  <2> QED BY <1>2, <2>1, <2>2
<1>5. CASE TellsLast(as)
  <2>1. Theirs(store'[c], c) = s /\ EndsAs(n, s)
    BY <1>5 DEF TellsLast
  <2> HIDE DEF p, n, s
  <2>2. EndsAs(p \o n, s)
    BY <1>1, <1>3, <2>1, EndsAsConcat
  <2> QED BY <1>2, <2>1, <2>2
<1> QED BY <1>4, <1>5

LEMMA PendingUser ==
    ASSUME Pending, UserActs PROVE Pending'
<1>1. UNCHANGED <<toClient, idle, store>> /\ (shown' => shown)
  BY DEF UserActs
<1>2. PendingParts
  BY <1>1, AllEndKept DEF Pending, PendingParts
<1> QED BY <1>2, PendingFrom

LEMMA PendingServer ==
    ASSUME HomeTypes, OneLogin, Pending, NEW as, ServerActs(as)
    PROVE  Pending'
<1>0. /\ toClient \in Seq(Replies) /\ idle \in Seq(Callbacks) /\ as \in Seq(Replies)
      /\ << >> \in Seq(Callbacks)
  <2>1. << >> \in Seq(Callbacks)
    OBVIOUS
  <2>2. as \in Seq(Replies)
    BY DEF ServerActs, Gives
  <2> QED BY <2>1, <2>2 DEF HomeTypes
<1>1. toClient' = toClient \o as /\ UNCHANGED <<idle, shown>>
  BY DEF ServerActs, Gives, uiVars
<1>2. CASE TellsAll(as) \/ TellsLast(as)
  <2>1. \A q \in Seq(Callbacks), r \in Seq(Replies) : AllEnd(q, r) => AllEndNext(q, r \o as)
    BY <1>0, <1>2, EndServed
  <2>2. shown' => AllEndNext(idle', toClient')
    BY <1>0, <1>1, <2>1 DEF Pending
  <2>3. \A i \in DOMAIN idle' : idle'[i].run = "home" => AllEndNext(After(idle', i), toClient')
    <3> SUFFICES ASSUME NEW i \in DOMAIN idle, idle[i].run = "home"
                 PROVE  AllEndNext(After(idle, i), toClient')
      BY <1>1
    <3>1. i \in 0 .. Len(idle)
      BY <1>0, SMT
    <3>2. After(idle, i) \in Seq(Callbacks)
      BY <1>0, <3>1, AfterTyped
    <3> QED BY <1>0, <1>1, <2>1, <3>2 DEF Pending
  <2>4. ASSUME NEW i \in DOMAIN toClient', toClient'[i].kind = "login"
        PROVE  AllEndNext(<< >>, After(toClient', i))
    <3>1. CASE i \in DOMAIN toClient /\ toClient'[i] = toClient[i]
      <4>1. i \in 0 .. Len(toClient)
        BY <1>0, <3>1, SMT
      <4>2. After(toClient, i) \in Seq(Replies)
        BY <1>0, <4>1, AfterTyped
      <4>3. After(toClient', i) = After(toClient, i) \o as
        BY <1>0, <1>1, <4>1, AfterConcat
      <4>4. AllEnd(<< >>, After(toClient, i))
        BY <2>4, <3>1 DEF Pending
      <4> QED BY <1>0, <2>1, <4>2, <4>3, <4>4
    <3>2. CASE /\ i = Len(toClient) + 1 /\ toClient'[i] \in Replies
               /\ as = <<toClient'[i]>> /\ GivesFit(toClient'[i])
      <4> DEFINE a == toClient'[i]
      <4>1. a \in Replies /\ toClient' = toClient \o <<a>> /\ i = Len(toClient) + 1
            /\ a.kind = "login"
        BY <1>1, <2>4, <3>2
      <4>2. Served("login")
        BY <2>4, <3>2 DEF GivesFit
      <4>3. a.kind \notin HistoryKinds /\ PlainReply(a)
        BY <3>2, <4>1, KindsOther DEF GivesFit
      <4>4. NoOthers(a.lines)
        BY <4>1, <4>3 DEF PlainReply
      <4> HIDE DEF a
      <4>5. After(toClient', i) = << >>
        BY <1>0, <4>1, AfterConcatLast
      <4>6. \A c \in Convs : EndsAs(Pushed(<< >>, << >>, c), Theirs(store'[c], c))
        <5> TAKE c \in Convs
        <5>1. Pushed(<< >>, << >>, c) = << >>
          BY PushedNone
        <5> QED BY <5>1 DEF EndsAs
      <4> QED BY <4>5, <4>6 DEF AllEndNext
    <3> QED BY <3>1, <3>2 DEF ServerActs
  <2> QED BY <2>2, <2>3, <2>4, PendingFrom DEF PendingParts
<1>3. CASE ~online /\ as = << >>
  <2>1. toClient' = toClient
    BY <1>0, <1>1, <1>3, SMT
  <2>2. LoginAsked
    <3> HIDE DEF LoginAsked
    <3> QED BY <1>3 DEF OneLogin
  <2>3. ~shown /\ ~LoginAnswered /\ ~HomeComing
    <3> HIDE DEF LoginAsked, LoginAnswered, HomeComing
    <3> QED BY <2>2 DEF OneLogin
  <2> QED BY <1>1, <2>1, <2>3, PendingFrom DEF PendingParts, LoginAnswered, HomeComing
<1> QED BY <1>2, <1>3 DEF ServerActs, Gives

LEMMA PendingCollector ==
    ASSUME HomeTypes, Plain, Pending, NEW n, CollectorActs(n)
    PROVE  Pending'
<1>0. /\ toClient \in Seq(Replies) /\ idle \in Seq(Callbacks) /\ n \in Seq(Callbacks)
      /\ << >> \in Seq(Callbacks)
  BY DEF HomeTypes, CollectorActs
<1>1. /\ idle' = idle \o n /\ toClient' = Tail(toClient) /\ UNCHANGED <<shown, store>>
      /\ toClient # << >>
      /\ 1 \in DOMAIN toClient /\ toClient[1] \in Replies /\ MadeOf(n, toClient[1])
      /\ Added(idle, n, idle') /\ Shifted(toClient, toClient')
  BY DEF CollectorActs, uiVars
<1>2. ASSUME NEW q \in Seq(Callbacks), AllEnd(q, toClient)
      PROVE  AllEndNext(q \o n, toClient')
  BY <1>1, <1>2, CollectedSame DEF AllEnd, AllEndNext
<1>3. shown' => AllEndNext(idle', toClient')
  BY <1>0, <1>1, <1>2 DEF Pending
<1>4. ASSUME NEW i \in DOMAIN toClient', toClient'[i].kind = "login"
      PROVE  AllEndNext(<< >>, After(toClient', i))
  <2>1. i + 1 \in DOMAIN toClient /\ toClient'[i] = toClient[i + 1]
    BY <1>1 DEF Shifted
  <2>2. AllEnd(<< >>, After(toClient, i + 1))
    BY <1>4, <2>1 DEF Pending
  <2>3. After(toClient', i) = After(toClient, i + 1)
    BY <1>0, <1>1, AfterTail
  <2> QED BY <1>1, <2>2, <2>3, AllEndKept
<1>5. ASSUME NEW i \in DOMAIN idle', idle'[i].run = "home"
      PROVE  AllEndNext(After(idle', i), toClient')
  <2>1. CASE i \in DOMAIN idle /\ idle'[i] = idle[i]
    <3>1. i \in 0 .. Len(idle)
      BY <1>0, <2>1, SMT
    <3>2. After(idle, i) \in Seq(Callbacks)
      BY <1>0, <3>1, AfterTyped
    <3>3. After(idle', i) = After(idle, i) \o n
      BY <1>0, <1>1, <3>1, AfterConcat
    <3>4. AllEnd(After(idle, i), toClient)
      BY <1>5, <2>1 DEF Pending
    <3> QED BY <1>2, <3>2, <3>3, <3>4
  <2>2. CASE i > Len(idle) /\ i - Len(idle) \in DOMAIN n /\ idle'[i] = n[i - Len(idle)]
    <3>1. toClient[1].kind = "login" /\ i - Len(idle) = 1
      BY <1>1, <1>5, <2>2, MadeRuns
    <3>2. AllEnd(<< >>, After(toClient, 1))
      BY <1>1, <3>1 DEF Pending
    <3>3. After(toClient, 1) = toClient'
      BY <1>0, <1>1, AfterFirst
    <3>4. Callback("home", << >>) \in Callbacks
      <4>1. << >> \in Seq(ConvLine)
        OBVIOUS
      <4> QED BY <4>1, CallbacksTyped
    <3>5. n = <<Callback("home", << >>)>>
      BY <1>1, <3>1 DEF MadeOf
    <3>6. i = Len(idle) + 1
      <4>1. idle' \in Seq(Callbacks)
        BY <1>0, <1>1, ConcatTyped
      <4>2. i \in Nat /\ Len(idle) \in Nat
        BY <1>0, <4>1, SMT
      <4> QED BY <3>1, <4>2
    <3>7. After(idle', i) = << >>
      <4> DEFINE b == Callback("home", << >>)
      <4>1. b \in Callbacks /\ idle' = idle \o <<b>>
        BY <1>1, <3>4, <3>5
      <4> HIDE DEF b
      <4> QED BY <1>0, <3>6, <4>1, AfterConcatLast
    <3> QED BY <1>1, <3>2, <3>3, <3>7, AllEndKept
  <2> QED BY <1>1, <2>1, <2>2 DEF Added
<1> QED BY <1>3, <1>4, <1>5, PendingFrom DEF PendingParts

LEMMA PendingGtk ==
    ASSUME HomeTypes, Pending, GtkActs
    PROVE  Pending'
<1>0. toClient \in Seq(Replies) /\ idle \in Seq(Callbacks) /\ idle' \in Seq(Callbacks)
  BY TailPlaces DEF HomeTypes, GtkActs
<1>1. /\ idle # << >> /\ idle' = Tail(idle) /\ UNCHANGED <<toClient, store>>
      /\ Shifted(idle, idle') /\ 1 \in DOMAIN idle /\ idle[1] \in Callbacks
  BY DEF GtkActs
<1>2. \A i \in DOMAIN toClient' :
          toClient'[i].kind = "login" => AllEndNext(<< >>, After(toClient', i))
  BY <1>1, AllEndKept DEF Pending
<1>3. ASSUME NEW i \in DOMAIN idle', idle'[i].run = "home"
      PROVE  AllEndNext(After(idle', i), toClient')
  <2>1. i + 1 \in DOMAIN idle /\ idle'[i] = idle[i + 1]
    BY <1>1 DEF Shifted
  <2>2. AllEnd(After(idle, i + 1), toClient)
    BY <1>3, <2>1 DEF Pending
  <2>3. After(idle', i) = After(idle, i + 1)
    BY <1>0, <1>1, AfterTail
  <2> QED BY <1>1, <2>2, <2>3, AllEndKept
<1>4. CASE idle[1].run = "home"
  <2>1. AllEnd(After(idle, 1), toClient)
    BY <1>1, <1>4 DEF Pending
  <2>2. After(idle, 1) = idle'
    BY <1>0, <1>1, AfterFirst
  <2>3. AllEndNext(idle', toClient')
    BY <1>1, <2>1, <2>2, AllEndKept
  <2> QED BY <1>2, <1>3, <2>3, PendingFrom DEF PendingParts
<1>5. CASE shown' = shown
  <2>1. ASSUME shown PROVE AllEndNext(idle', toClient')
    <3> SUFFICES ASSUME NEW c \in Convs
                 PROVE  EndsAs(Pushed(idle', toClient', c), Theirs(store[c], c))
      BY <1>1 DEF AllEndNext
    <3> DEFINE x == Theirs(PushedRun(idle[1]), c)
               p == Pushed(idle', toClient', c)
               s == Theirs(store[c], c)
    <3>1. x \in Seq(ConvLine) /\ p \in Seq(ConvLine) /\ s \in Seq(ConvLine)
      <4>1. store[c] \in Seq(ConvLine) /\ PushedRun(idle[1]) \in Seq(ConvLine)
        BY <1>1, LinesPushed DEF HomeTypes
      <4>2. toClient' \in Seq(Replies)
        BY <1>0, <1>1
      <4> QED BY <1>0, <4>1, <4>2, PushedTyped, TheirsTyped
    <3>2. EndsAs(Pushed(idle, toClient, c), s)
      BY <2>1 DEF Pending, AllEnd
    <3>3. Pushed(idle, toClient, c) = x \o p
      BY RanFirst
    <3> HIDE DEF x, p, s
    <3>4. EndsAs(p, s)
      BY <3>1, <3>2, <3>3, EndsAsConcat
    <3> QED BY <3>4 DEF p, s
  <2> QED BY <1>2, <1>3, <1>5, <2>1, PendingFrom DEF PendingParts
<1> QED BY <1>4, <1>5 DEF GtkActs

LEMMA PendingStep ==
    ASSUME HomeTypes, BoxIsMap, Histories, OneLogin, Plain, Pending, [Next]_vars
    PROVE  Pending'
<1>1. CASE UserNext \/ EnableClick \/ UNCHANGED vars
  BY <1>1, UserActsSo, PendingUser
<1>2. CASE ServerNext
  BY <1>2, ServerActsSo, PendingServer
<1>3. CASE CollectorNext
  BY <1>3, CollectorActsSo, PendingCollector
<1>4. CASE GtkNext
  BY <1>4, GtkActsSo, PendingGtk
<1> QED BY <1>1, <1>2, <1>3, <1>4 DEF Next

(***************************************************************************)
(* A history under way and what is pushed behind it are all there is.      *)
(***************************************************************************)
FreshNext(lines, q, r) ==
    \A c \in Convs : lines[1].conv = c => Fresh(lines, q, r, store'[c], c)
HistoryParts ==
    /\ \A i \in DOMAIN idle' :
          idle'[i].run = "load" => FreshNext(idle'[i].lines, After(idle', i), toClient')
    /\ \A i \in DOMAIN toClient' :
          toClient'[i].kind \in HistoryKinds /\ toClient'[i].lines # << >>
             => FreshNext(toClient'[i].lines, << >>, After(toClient', i))

LEMMA HistoryFrom == ASSUME shown' => HistoryParts PROVE HistoryFresh'
BY DEF HistoryParts, HistoryFresh, FreshFrom, FreshNext, Fresh, Pushed, RunsIn, RepliesIn,
       RunLines, ReplyLines, PushedRun, PushedReply, After

LEMMA HistoryNow ==
    ASSUME HistoryFresh, shown
    PROVE  /\ \A i \in DOMAIN idle :
                 idle[i].run = "load" => FreshFrom(idle[i].lines, After(idle, i), toClient)
           /\ \A i \in DOMAIN toClient :
                 toClient[i].kind \in HistoryKinds /\ toClient[i].lines # << >>
                    => FreshFrom(toClient[i].lines, << >>, After(toClient, i))
BY Zenon DEF HistoryFresh

LEMMA FreshKept ==
    ASSUME UNCHANGED store, NEW lines, NEW q, NEW r, FreshFrom(lines, q, r)
    PROVE  FreshNext(lines, q, r)
BY DEF FreshFrom, FreshNext

\* What the server stores, it pushes, and so a history that has all keeps it.
LEMMA FreshServed ==
    ASSUME HomeTypes, NEW as \in Seq(Replies), TellsAll(as), NEW lines \in Seq(ConvLine),
           NEW q \in Seq(Callbacks), NEW r \in Seq(Replies), NEW c \in Convs,
           Fresh(lines, q, r, store[c], c)
    PROVE  Fresh(lines, q, r \o as, store'[c], c)
<1> DEFINE p == Pushed(q, r, c)
           n == RepliesIn(as, c)
           t == Theirs(lines, c)
           s == Theirs(store[c], c)
<1>1. p \in Seq(ConvLine) /\ n \in Seq(ConvLine) /\ t \in Seq(ConvLine)
  BY PushedTyped, RepliesInTyped, TheirsTyped
<1>2. Pushed(q, r \o as, c) = p \o n
  BY PushedAdded
<1>3. t \o p = s
  BY DEF Fresh
<1>4. Theirs(store'[c], c) = s \o n
  BY DEF TellsAll
<1> HIDE DEF p, n, t, s
<1>5. (t \o p) \o n = t \o (p \o n)
  BY <1>1, LinesAssociative
<1>6. t \o (p \o n) = Theirs(store'[c], c)
  BY <1>3, <1>4, <1>5
<1> QED BY <1>2, <1>6 DEF Fresh, t

LEMMA FreshCollected ==
    ASSUME HomeTypes, Plain, NEW n, CollectorActs(n), NEW lines, NEW q \in Seq(Callbacks),
           NEW c \in Convs, Fresh(lines, q, toClient, store[c], c)
    PROVE  Fresh(lines, q \o n, toClient', store'[c], c)
<1>1. Pushed(q \o n, toClient', c) = Pushed(q, toClient, c)
  BY CollectedSame
<1>2. store' = store
  BY DEF CollectorActs
<1> QED BY <1>1, <1>2 DEF Fresh

\* A history just answered is all there is.
LEMMA HistoryItself ==
    ASSUME HomeTypes, Histories, UNCHANGED store, NEW c \in Convs, store[c] # << >>
    PROVE  FreshNext(store[c], << >>, << >>)
<1>1. store[c] \in Seq(ConvLine) /\ 1 \in DOMAIN store[c]
  BY NonEmptyHasFirst DEF HomeTypes
<1>2. store[c][1].conv = c
  BY <1>1 DEF Histories, AllOf
<1>3. Theirs(store[c], c) \o << >> = Theirs(store[c], c)
  BY ConcatNothing
<1>4. Fresh(store[c], << >>, << >>, store[c], c)
  BY <1>3, PushedNone DEF Fresh
<1> QED BY <1>2, <1>4 DEF FreshNext

LEMMA HistoryFreshUser ==
    ASSUME HistoryFresh, UserActs PROVE HistoryFresh'
<1>1. UNCHANGED <<toClient, idle, store>> /\ (shown' => shown)
  BY DEF UserActs
<1>2. shown' => HistoryParts
  BY <1>1, HistoryNow, FreshKept DEF HistoryParts
<1> QED BY <1>2, HistoryFrom

LEMMA HistoryFreshServer ==
    ASSUME HomeTypes, Histories, OneLogin, ChatsFirst, HistoryFresh, NEW as, ServerActs(as)
    PROVE  HistoryFresh'
<1> SUFFICES ASSUME shown' PROVE HistoryParts
  BY HistoryFrom
<1>0. toClient \in Seq(Replies) /\ idle \in Seq(Callbacks) /\ as \in Seq(Replies)
  <2>1. as \in Seq(Replies)
    BY DEF ServerActs, Gives
  <2> QED BY <2>1 DEF HomeTypes
<1>1. toClient' = toClient \o as /\ UNCHANGED <<idle, shown>>
  BY DEF ServerActs, Gives, uiVars
<1>2. shown /\ online
  <2>1. shown
    BY <1>1
  <2> HIDE DEF LoginAsked, LoginAnswered, HomeComing
  <2> QED BY <2>1 DEF OneLogin
<1>3. /\ TellsAll(as) \/ TellsLast(as)
      /\ \A i \in DOMAIN toClient' :
             \/ i \in DOMAIN toClient /\ toClient'[i] = toClient[i]
             \/ /\ i = Len(toClient) + 1
                /\ toClient'[i] \in Replies /\ as = <<toClient'[i]>> /\ GivesFit(toClient'[i])
  BY <1>2 DEF ServerActs, Gives
<1>4. << >> \in Seq(Callbacks)
  OBVIOUS
<1>5. \A i \in DOMAIN toClient : i \in 0 .. Len(toClient) /\ After(toClient, i) \in Seq(Replies)
  <2> TAKE i \in DOMAIN toClient
  <2>1. i \in 0 .. Len(toClient)
    BY <1>0, SMT
  <2> QED BY <1>0, <2>1, AfterTyped
<1>6. \A i \in DOMAIN idle : After(idle, i) \in Seq(Callbacks)
  <2> TAKE i \in DOMAIN idle
  <2>1. i \in 0 .. Len(idle)
    BY <1>0, SMT
  <2> QED BY <1>0, <2>1, AfterTyped
<1>7. ASSUME NEW i \in DOMAIN toClient', i = Len(toClient) + 1, toClient'[i] \in Replies,
             as = <<toClient'[i]>>, GivesFit(toClient'[i]),
             toClient'[i].kind \in HistoryKinds, toClient'[i].lines # << >>
      PROVE  FreshNext(toClient'[i].lines, << >>, After(toClient', i))
  <2>1. PICK c \in Convs : UNCHANGED store /\ toClient'[i].lines = store[c]
    BY <1>7 DEF GivesFit
  <2>2. FreshNext(store[c], << >>, << >>)
    BY <1>7, <2>1, HistoryItself
  <2>3. After(toClient', i) = << >>
    <3> DEFINE a == toClient'[i]
    <3>1. a \in Replies /\ toClient' = toClient \o <<a>> /\ i = Len(toClient) + 1
      BY <1>1, <1>7
    <3> HIDE DEF a
    <3> QED BY <1>0, <3>1, AfterConcatLast
  <2> QED BY <2>1, <2>2, <2>3
<1>8. CASE TellsAll(as)
  <2>1. ASSUME NEW lines \in Seq(ConvLine), NEW q \in Seq(Callbacks), NEW r \in Seq(Replies),
               FreshFrom(lines, q, r)
        PROVE  FreshNext(lines, q, r \o as)
    BY <1>0, <1>8, <2>1, FreshServed DEF FreshFrom, FreshNext
  <2>2. ASSUME NEW i \in DOMAIN idle', idle'[i].run = "load"
        PROVE  FreshNext(idle'[i].lines, After(idle', i), toClient')
    <3>1. idle[i].lines \in Seq(ConvLine)
      BY <1>0, <1>1, <2>2 DEF Callbacks
    <3>2. FreshFrom(idle[i].lines, After(idle, i), toClient)
      BY <1>1, <1>2, <2>2, HistoryNow
    <3> QED BY <1>0, <1>1, <1>6, <2>1, <2>2, <3>1, <3>2
  <2>3. ASSUME NEW i \in DOMAIN toClient', toClient'[i].kind \in HistoryKinds,
               toClient'[i].lines # << >>
        PROVE  FreshNext(toClient'[i].lines, << >>, After(toClient', i))
    <3>1. CASE i \in DOMAIN toClient /\ toClient'[i] = toClient[i]
      <4>1. toClient[i].lines \in Seq(ConvLine)
        BY <1>0, <3>1 DEF Replies
      <4>2. FreshFrom(toClient[i].lines, << >>, After(toClient, i))
        BY <1>2, <2>3, <3>1, HistoryNow
      <4>3. After(toClient', i) = After(toClient, i) \o as
        BY <1>0, <1>1, <1>5, <3>1, AfterConcat
      <4> QED BY <1>4, <1>5, <2>1, <3>1, <4>1, <4>2, <4>3
    <3> QED BY <1>3, <1>7, <2>3, <3>1
  <2> QED BY <2>2, <2>3 DEF HistoryParts
<1>9. CASE TellsLast(as)
  <2>1. ChatsAsked /\ ~Served("history")
    <3>1. 1 \in DOMAIN requests /\ requests[1].kind = "chats" /\ Head(requests).kind = "chats"
      BY <1>9, TailPlaces DEF TellsLast, Served, HomeTypes
    <3> QED BY <3>1 DEF ChatsAsked, Served
  <2>2. NoHistory /\ NoLoad
    <3> HIDE DEF ChatsAsked, NoHistory, NoLoad
    <3> QED BY <1>2, <2>1, ChatsNow
  <2>3. \A i \in DOMAIN idle' : idle'[i].run # "load"
    BY <1>1, <2>2 DEF NoLoad
  <2>4. \A i \in DOMAIN toClient' : toClient'[i].kind \notin HistoryKinds
    BY <1>3, <2>1, <2>2 DEF NoHistory, GivesFit
  <2> QED BY <2>3, <2>4 DEF HistoryParts
<1> QED BY <1>3, <1>8, <1>9

LEMMA HistoryFreshCollector ==
    ASSUME HomeTypes, Plain, HistoryFresh, NEW n, CollectorActs(n)
    PROVE  HistoryFresh'
<1> SUFFICES ASSUME shown' PROVE HistoryParts
  BY HistoryFrom
<1>0. /\ toClient \in Seq(Replies) /\ idle \in Seq(Callbacks) /\ n \in Seq(Callbacks)
  BY DEF HomeTypes, CollectorActs
<1>1. /\ idle' = idle \o n /\ toClient' = Tail(toClient) /\ UNCHANGED <<shown, store>>
      /\ toClient # << >>
      /\ 1 \in DOMAIN toClient /\ toClient[1] \in Replies /\ MadeOf(n, toClient[1])
      /\ Added(idle, n, idle') /\ Shifted(toClient, toClient')
  BY DEF CollectorActs, uiVars
<1>2. shown
  BY <1>1
<1>3. ASSUME NEW i \in DOMAIN toClient', toClient'[i].kind \in HistoryKinds,
             toClient'[i].lines # << >>
      PROVE  FreshNext(toClient'[i].lines, << >>, After(toClient', i))
  <2>1. i + 1 \in DOMAIN toClient /\ toClient'[i] = toClient[i + 1]
    BY <1>1 DEF Shifted
  <2>2. FreshFrom(toClient[i + 1].lines, << >>, After(toClient, i + 1))
    BY <1>2, <1>3, <2>1, HistoryNow
  <2>3. After(toClient', i) = After(toClient, i + 1)
    BY <1>0, <1>1, AfterTail
  <2> QED BY <1>1, <2>1, <2>2, <2>3, FreshKept
<1>4. ASSUME NEW i \in DOMAIN idle', idle'[i].run = "load"
      PROVE  FreshNext(idle'[i].lines, After(idle', i), toClient')
  <2>1. CASE i \in DOMAIN idle /\ idle'[i] = idle[i]
    <3>1. i \in 0 .. Len(idle)
      BY <1>0, <2>1, SMT
    <3>2. After(idle, i) \in Seq(Callbacks)
      BY <1>0, <3>1, AfterTyped
    <3>3. After(idle', i) = After(idle, i) \o n
      BY <1>0, <1>1, <3>1, AfterConcat
    <3>4. FreshFrom(idle[i].lines, After(idle, i), toClient)
      BY <1>2, <1>4, <2>1, HistoryNow
    <3>5. FreshNext(idle[i].lines, After(idle, i) \o n, toClient')
      BY <3>2, <3>4, FreshCollected DEF FreshFrom, FreshNext
    <3> QED BY <2>1, <3>3, <3>5
  <2>2. CASE i > Len(idle) /\ i - Len(idle) \in DOMAIN n /\ idle'[i] = n[i - Len(idle)]
    <3> DEFINE a == toClient[1]
               b == Callback("load", a.lines)
    <3>1. a.kind \in HistoryKinds /\ a.lines # << >> /\ idle'[i].lines = a.lines
      BY <1>1, <1>4, <2>2, MadeRuns
    <3>2. FreshFrom(a.lines, << >>, After(toClient, 1))
      BY <1>1, <1>2, <3>1, HistoryNow
    <3>3. After(toClient, 1) = toClient'
      BY <1>0, <1>1, AfterFirst
    <3>4. b \in Callbacks /\ n = <<b>>
      <4>1. a.lines \in Seq(ConvLine)
        BY <1>1 DEF Replies
      <4>2. n = LoadOf(a.lines)
        BY <1>1, <3>1 DEF MadeOf
      <4> QED BY <3>1, <4>1, <4>2, CallbacksTyped DEF LoadOf
    <3> HIDE DEF a, b
    <3>5. i = Len(idle) + 1
      <4>1. idle' \in Seq(Callbacks)
        BY <1>0, <1>1, ConcatTyped
      <4>2. i \in Nat /\ Len(idle) \in Nat
        BY <1>0, <4>1, SMT
      <4>3. DOMAIN n = {1}
        BY <3>4, SMT
      <4> QED BY <2>2, <4>2, <4>3
    <3>6. After(idle', i) = << >>
      BY <1>0, <1>1, <3>4, <3>5, AfterConcatLast
    <3> QED BY <1>1, <3>1, <3>2, <3>3, <3>6, FreshKept
  <2> QED BY <1>1, <2>1, <2>2 DEF Added
<1> QED BY <1>3, <1>4 DEF HistoryParts

LEMMA HistoryFreshGtk ==
    ASSUME HomeTypes, LoginLast, HistoryFresh, GtkActs
    PROVE  HistoryFresh'
<1> SUFFICES ASSUME shown' PROVE HistoryParts
  BY HistoryFrom
<1>0. idle \in Seq(Callbacks)
  BY DEF HomeTypes
<1>1. /\ idle # << >> /\ idle' = Tail(idle) /\ UNCHANGED <<toClient, store>>
      /\ Shifted(idle, idle') /\ 1 \in DOMAIN idle
  BY DEF GtkActs
<1>2. CASE idle[1].run = "home"
  <2>1. HomeComing
    BY <1>1, <1>2 DEF HomeComing
  <2>2. \A i \in DOMAIN toClient : ~Late(toClient[i])
    <3> HIDE DEF HomeComing
    <3> QED BY <2>1 DEF LoginLast
  <2>3. \A i \in DOMAIN toClient' : toClient'[i].kind \notin HistoryKinds
    BY <1>1, <2>2 DEF Late
  <2>4. \A i \in DOMAIN idle' : idle'[i].run # "load"
    <3> SUFFICES ASSUME NEW i \in DOMAIN idle' PROVE idle'[i].run # "load"
      OBVIOUS
    <3>1. i + 1 \in DOMAIN idle /\ idle'[i] = idle[i + 1] /\ i \in Nat /\ i >= 1
      BY <1>1 DEF Shifted
    <3>2. i + 1 > 1
      BY <3>1
    <3> QED BY <1>1, <1>2, <3>1, <3>2 DEF LoginLast
  <2> QED BY <2>3, <2>4 DEF HistoryParts
<1>3. CASE UNCHANGED shown
  <2>1. shown
    BY <1>3
  <2>2. \A i \in DOMAIN toClient' :
             toClient'[i].kind \in HistoryKinds /\ toClient'[i].lines # << >>
                => FreshNext(toClient'[i].lines, << >>, After(toClient', i))
    BY <1>1, <2>1, HistoryNow, FreshKept
  <2>3. ASSUME NEW i \in DOMAIN idle', idle'[i].run = "load"
        PROVE  FreshNext(idle'[i].lines, After(idle', i), toClient')
    <3>1. i + 1 \in DOMAIN idle /\ idle'[i] = idle[i + 1]
      BY <1>1 DEF Shifted
    <3>2. FreshFrom(idle[i + 1].lines, After(idle, i + 1), toClient)
      BY <2>1, <2>3, <3>1, HistoryNow
    <3>3. After(idle', i) = After(idle, i + 1)
      BY <1>0, <1>1, AfterTail
    <3> QED BY <1>1, <3>1, <3>2, <3>3, FreshKept
  <2> QED BY <2>2, <2>3 DEF HistoryParts
<1> QED BY <1>2, <1>3 DEF GtkActs

LEMMA HistoryFreshStep ==
    ASSUME HomeTypes, BoxIsMap, Histories, OneLogin, Plain, LoginLast, ChatsFirst,
           HistoryFresh, [Next]_vars
    PROVE  HistoryFresh'
<1>1. CASE UserNext \/ EnableClick \/ UNCHANGED vars
  BY <1>1, UserActsSo, HistoryFreshUser
<1>2. CASE ServerNext
  BY <1>2, ServerActsSo, HistoryFreshServer
<1>3. CASE CollectorNext
  BY <1>3, CollectorActsSo, HistoryFreshCollector
<1>4. CASE GtkNext
  BY <1>4, GtkActsSo, HistoryFreshGtk
<1> QED BY <1>1, <1>2, <1>3, <1>4 DEF Next

(***************************************************************************)
(* The view and what is pushed are all there is.                           *)
(***************************************************************************)
LEMMA ViewFrom ==
    ASSUME shown' /\ selected' # 0 /\ loaded' = selected' =>
              ComingNext(selected') \/ Fresh(view', idle', toClient', store'[selected'], selected')
    PROVE  ViewFresh'
BY DEF ViewFresh, Coming, ComingNext, Asked, AskedNext, Answered, AnsweredNext, ToLoad,
       ToLoadNext, Fresh, Pushed, RunsIn, RepliesIn, RunLines, ReplyLines, PushedRun, PushedReply

\* A line of another at the end of the view, or not.
LEMMA ViewAppended ==
    ASSUME NEW lines \in Seq(ConvLine), NEW x \in ConvLine, NEW c
    PROVE  /\ Theirs(Append(lines, x), c) = Theirs(lines, c) \o Theirs(<<x>>, c)
           /\ ~Wanted(x, c) => Theirs(Append(lines, x), c) = Theirs(lines, c)
<1>1. <<x>> \in Seq(ConvLine) /\ Append(lines, x) = lines \o <<x>>
  BY SMT
<1>2. Theirs(lines \o <<x>>, c) = Theirs(lines, c) \o Theirs(<<x>>, c)
  <2> DEFINE y == <<x>>
  <2>1. y \in Seq(ConvLine)
    BY <1>1
  <2> HIDE DEF y
  <2>2. Theirs(lines \o y, c) = Theirs(lines, c) \o Theirs(y, c)
    BY <2>1, TheirsConcat
  <2> QED BY <2>2 DEF y
<1>3. ~Wanted(x, c) => Theirs(Append(lines, x), c) = Theirs(lines, c)
  BY TheirsAppend
<1> QED BY <1>1, <1>2, <1>3

LEMMA ViewFreshUser ==
    ASSUME HomeTypes, BoxIsMap, ViewFresh, UserNext \/ EnableClick \/ UNCHANGED vars
    PROVE  ViewFresh'
<1>0. /\ view \in Seq(ConvLine) /\ toClient \in Seq(Replies) /\ idle \in Seq(Callbacks)
      /\ selected \in Convs \cup {0}
  BY DEF HomeTypes
<1>1. UNCHANGED <<toClient, idle, store, loaded>> /\ (shown' => shown)
  BY UserActsSo DEF UserActs
<1>2. CASE EnableClick \/ UNCHANGED vars
  <2>1. UNCHANGED <<view, selected, requests>>
    BY <1>2 DEF EnableClick, vars, uiVars
  <2>2. ComingNext(selected) <=> Coming(selected)
    BY <1>1, <2>1 DEF ComingNext, Coming, Asked, AskedNext, Answered, AnsweredNext, ToLoad, ToLoadNext
  <2> HIDE DEF Coming, ComingNext
  <2> QED BY <1>1, <2>1, <2>2, ViewFrom DEF ViewFresh
<1>3. CASE UserNext
  <2>1. /\ Kept(requests, requests')
        /\ \/ selected' = selected
           \/ selected' \in Convs /\ AskedNext(selected') /\ view' = view
        /\ \/ view' = view
           \/ /\ selected \in Convs /\ selected' = selected
              /\ view' = Append(view, Line(selected, gestures', "me")) /\ gestures' \in Nat
    BY <1>3, UserAdds
  <2>2. CASE AskedNext(selected')
    BY <2>2, ViewFrom DEF ComingNext
  <2>3. CASE selected' = selected
    <3> SUFFICES ASSUME shown, selected # 0, loaded = selected
                 PROVE  ComingNext(selected) \/ Fresh(view', idle, toClient, store[selected], selected)
      BY <1>1, <2>3, ViewFrom
    <3>1. CASE Coming(selected)
      <4>1. Kept(toClient, toClient') /\ Kept(idle, idle')
        BY <1>0, <1>1, KeptWhenAdded
      <4> QED BY <2>1, <3>1, <4>1, ComingStays
    <3>2. CASE Fresh(view, idle, toClient, store[selected], selected)
      <4>1. CASE view' = view
        BY <3>2, <4>1
      <4>2. CASE /\ selected \in Convs /\ gestures' \in Nat
                 /\ view' = Append(view, Line(selected, gestures', "me"))
        <5> DEFINE l == Line(selected, gestures', "me")
        <5>1. l \in ConvLine /\ ~Wanted(l, selected)
          BY <4>2, LinesTyped DEF Wanted
        <5> HIDE DEF l
        <5>2. Theirs(Append(view, l), selected) = Theirs(view, selected)
          BY <1>0, <5>1, ViewAppended
        <5> QED BY <3>2, <4>2, <5>2 DEF Fresh, l
      <4> QED BY <2>1, <4>1, <4>2
    <3> QED BY <3>1, <3>2 DEF ViewFresh
  <2> QED BY <2>1, <2>2, <2>3
<1> QED BY <1>2, <1>3

LEMMA ViewFreshServer ==
    ASSUME HomeTypes, Histories, OneLogin, ChatsFirst, ViewFresh, ServerNext, NEW as, ServerActs(as)
    PROVE  ViewFresh'
<1>0. /\ view \in Seq(ConvLine) /\ toClient \in Seq(Replies) /\ idle \in Seq(Callbacks)
      /\ selected \in Convs \cup {0} /\ as \in Seq(Replies)
  <2>1. as \in Seq(Replies)
    BY DEF ServerActs, Gives
  <2> QED BY <2>1 DEF HomeTypes
<1>1. toClient' = toClient \o as /\ UNCHANGED <<idle, shown, view, selected, loaded>>
  BY DEF ServerActs, Gives, uiVars
<1> SUFFICES ASSUME shown, selected # 0, loaded = selected
             PROVE  ComingNext(selected) \/ Fresh(view, idle, toClient', store'[selected], selected)
  BY <1>1, ViewFrom
<1>2. selected \in Convs /\ store[selected] # << >>
  BY <1>0 DEF Histories
<1>3. online
  <2> HIDE DEF LoginAsked, LoginAnswered, HomeComing
  <2> QED BY DEF OneLogin
<1>4. CASE Coming(selected)
  BY <1>2, <1>4, ServerComing
<1>5. CASE Fresh(view, idle, toClient, store[selected], selected)
  <2>1. CASE TellsAll(as)
    BY <1>0, <1>1, <1>2, <1>5, <2>1, FreshServed
  <2>2. CASE TellsLast(as)
    <3>1. 1 \in DOMAIN requests /\ requests[1].kind = "chats"
      BY <2>2, TailPlaces DEF TellsLast, Served, HomeTypes
    <3>2. ChatsAsked
      BY <3>1 DEF ChatsAsked
    <3>3. loaded = 0
      <4> HIDE DEF ChatsAsked
      <4> QED BY <3>2, ChatsNow
    <3> QED BY <3>3
  <2> QED BY <1>3, <2>1, <2>2 DEF ServerActs, Gives
<1> QED BY <1>4, <1>5 DEF ViewFresh

LEMMA ViewFreshCollector ==
    ASSUME HomeTypes, Histories, Plain, ViewFresh, CollectorNext, NEW n, CollectorActs(n)
    PROVE  ViewFresh'
<1>0. idle \in Seq(Callbacks) /\ selected \in Convs \cup {0}
  BY DEF HomeTypes
<1>1. idle' = idle \o n /\ UNCHANGED <<shown, view, selected, loaded>>
  BY DEF CollectorActs, uiVars
<1> SUFFICES ASSUME shown, selected # 0, loaded = selected
             PROVE  ComingNext(selected) \/ Fresh(view, idle \o n, toClient', store'[selected], selected)
  BY <1>1, ViewFrom
<1>2. selected \in Convs
  BY <1>0
<1>3. CASE Coming(selected)
  BY <1>2, <1>3, CollectorComing
<1>4. CASE Fresh(view, idle, toClient, store[selected], selected)
  BY <1>0, <1>2, <1>4, FreshCollected
<1> QED BY <1>3, <1>4 DEF ViewFresh

LEMMA ViewFreshGtk ==
    ASSUME HomeTypes, Histories, Plain, HistoryFresh, ViewFresh, GtkNext
    PROVE  ViewFresh'
<1>0. /\ view \in Seq(ConvLine) /\ idle \in Seq(Callbacks) /\ toClient \in Seq(Replies)
      /\ selected \in Convs \cup {0} /\ idle' \in Seq(Callbacks)
  <2>1. GtkActs
    BY GtkActsSo
  <2> QED BY <2>1, TailPlaces DEF HomeTypes, GtkActs
<1>1. GtkActs
  BY GtkActsSo
<1> DEFINE b == idle[1]
<1>2. /\ idle # << >> /\ idle' = Tail(idle) /\ Head(idle) = b /\ b \in Callbacks /\ 1 \in DOMAIN idle
      /\ UNCHANGED <<toClient, store>> /\ After(idle, 1) = idle'
  BY <1>0, <1>1, AfterFirst DEF GtkActs
<1>3. UNCHANGED selected
  BY DEF GtkNext, RunHome, RunUpdate, RunLoad, RunRemove, RunResults
<1> HIDE DEF b
<1>4. CASE RunHome \/ RunRemove
  <2>1. loaded' = 0
    BY <1>4 DEF RunHome, RunRemove
  <2> QED BY <1>3, <2>1, ViewFrom
<1>5. CASE RunLoad
  <2>1. /\ b.run = "load" /\ view' = b.lines /\ loaded' = b.lines[1].conv /\ UNCHANGED shown
    BY <1>2, <1>5 DEF RunLoad, Run
  <2> SUFFICES ASSUME shown, selected # 0, b.lines[1].conv = selected
               PROVE  Fresh(b.lines, idle', toClient, store[selected], selected)
    BY <1>2, <1>3, <2>1, ViewFrom
  <2>2. FreshFrom(b.lines, After(idle, 1), toClient)
    BY <1>2, <2>1, HistoryNow DEF b
  <2> QED BY <1>0, <1>2, <2>2 DEF FreshFrom
<1>6. CASE RunUpdate \/ RunResults
  <2>1. UNCHANGED <<shown, loaded>> /\ ~RunLoad
    BY <1>6 DEF RunUpdate, RunResults, RunLoad, Run
  <2> SUFFICES ASSUME shown, selected # 0, loaded = selected
               PROVE  ComingNext(selected) \/ Fresh(view', idle', toClient, store[selected], selected)
    BY <1>2, <1>3, <2>1, ViewFrom
  <2>2. selected \in Convs
    BY <1>0
  <2>3. CASE Coming(selected)
    BY <2>1, <2>2, <2>3, GtkComing
  <2>4. CASE Fresh(view, idle, toClient, store[selected], selected)
    <3> DEFINE p == Pushed(idle', toClient, selected)
               x == Theirs(b.lines, selected)
               t == Theirs(view, selected)
    <3>1. b.run # "load" /\ b.lines \in Seq(ConvLine)
      BY <1>2, <1>6 DEF RunUpdate, RunResults, Run, Callbacks
    <3>2. PushedRun(b) = b.lines
      BY <3>1 DEF PushedRun
    <3>3. Pushed(idle, toClient, selected) = x \o p
      <4>1. Pushed(idle, toClient, selected) =
               Theirs(PushedRun(idle[1]), selected) \o Pushed(idle', toClient', selected)
        BY <1>1, RanFirst
      <4> QED BY <1>2, <3>2, <4>1 DEF b
    <3>4. t \o (x \o p) = Theirs(store[selected], selected)
      BY <2>4, <3>3 DEF Fresh
    <3>5. t \in Seq(ConvLine) /\ x \in Seq(ConvLine) /\ p \in Seq(ConvLine)
      BY <1>0, <3>1, TheirsTyped, PushedTyped
    <3>6. (t \o x) \o p = Theirs(store[selected], selected)
      <4> HIDE DEF t, x, p
      <4>1. (t \o x) \o p = t \o (x \o p)
        BY <3>5, LinesAssociative
      <4> QED BY <3>4, <4>1
    <3>7. Theirs(view', selected) = t \o x
      <4>1. CASE RunResults
        <5>1. view' = view /\ b.run = "results"
          BY <1>2, <4>1 DEF RunResults, Run
        <5>2. NoOthers(b.lines)
          BY <1>2, <5>1 DEF Plain, b
        <5>3. x = << >>
          BY <3>1, <5>2, NoOthersNone
        <5> HIDE DEF x, t
        <5>4. t \o << >> = t
          BY <3>5, ConcatEmptySeq
        <5> QED BY <5>1, <5>3, <5>4 DEF t
      <4>2. CASE RunUpdate
        <5> DEFINE l == b.lines[1]
        <5>1. b.run = "update" /\ view' = IF l.conv = selected THEN Append(view, l) ELSE view
          BY <1>2, <4>2 DEF RunUpdate, Run
        <5>2. Len(b.lines) = 1
          BY <1>2, <5>1 DEF Plain, b
        <5>3. b.lines = <<l>> /\ l \in ConvLine
          BY <3>1, <5>2, SMT
        <5> HIDE DEF l
        <5>4. CASE l.conv = selected
          <6>1. Theirs(Append(view, l), selected) = Theirs(view, selected) \o Theirs(<<l>>, selected)
            BY <1>0, <5>3, ViewAppended
          <6> QED BY <5>1, <5>3, <5>4, <6>1
        <5>5. CASE l.conv # selected
          <6>1. Theirs(<<l>>, selected) = << >>
            BY <5>3, <5>5, TheirsOne DEF Wanted
          <6>2. x = << >>
            BY <5>3, <6>1
          <6> HIDE DEF x, t
          <6>3. t \o << >> = t
            BY <3>5, ConcatEmptySeq
          <6> QED BY <5>1, <5>5, <6>2, <6>3 DEF t
        <5> QED BY <5>4, <5>5
      <4> QED BY <1>6, <4>1, <4>2
    <3> QED BY <3>6, <3>7 DEF Fresh
  <2> QED BY <2>3, <2>4 DEF ViewFresh
<1> QED BY <1>4, <1>5, <1>6 DEF GtkNext

LEMMA ViewFreshStep ==
    ASSUME HomeTypes, BoxIsMap, Histories, OneLogin, Plain, ChatsFirst, HistoryFresh, ViewFresh,
           [Next]_vars
    PROVE  ViewFresh'
<1>1. CASE UserNext \/ EnableClick \/ UNCHANGED vars
  BY <1>1, ViewFreshUser
<1>2. CASE ServerNext
  BY <1>2, ServerActsSo, ViewFreshServer
<1>3. CASE CollectorNext
  BY <1>3, CollectorActsSo, ViewFreshCollector
<1>4. CASE GtkNext
  BY <1>4, ViewFreshGtk
<1> QED BY <1>1, <1>2, <1>3, <1>4 DEF Next

(***************************************************************************)
(* The message a contact shows, once nothing is pushed.                    *)
(***************************************************************************)
IsLastOf(p, s) == s # << >> /\ p = s[Len(s)]
PreviewNow(c) ==
    preview[c].from = "other" /\ Pushed(idle, toClient, c) = << >> =>
       IsLastOf(preview[c], Theirs(store[c], c))
PreviewNext(c) ==
    preview'[c].from = "other" /\ Pushed(idle', toClient', c) = << >> =>
       IsLastOf(preview'[c], Theirs(store'[c], c))

LEMMA PreviewFrom == ASSUME shown' => \A c \in Convs : PreviewNext(c) PROVE PreviewFresh'
BY DEF PreviewFresh, PreviewNext, IsLastOf, Pushed, RunsIn, RepliesIn, RunLines, ReplyLines,
       PushedRun, PushedReply

LEMMA PreviewIs == ASSUME PreviewFresh, shown, NEW c \in Convs PROVE PreviewNow(c)
BY Zenon DEF PreviewFresh, PreviewNow, IsLastOf

LEMMA PreviewUser ==
    ASSUME HomeTypes, UserNext, NEW c \in Convs
    PROVE  preview'[c] = preview[c] \/ preview'[c].from # "other"
<1>1. CASE Send
  <2> DEFINE line == Line(selected, gestures', "me")
  <2>1. selected \in Convs /\ gestures' \in Nat
    BY <1>1, SMT DEF Send, Gesture, HomeTypes
  <2>2. line.conv = selected /\ line.from = "me"
    BY <2>1, LinesTyped
  <2>3. UpdateContact(line)
    BY <1>1, Zenon DEF Send
  <2> HIDE DEF line
  <2>4. preview' = [preview EXCEPT ![selected] = line] /\ preview \in [Convs -> LineType]
    BY <2>2, <2>3 DEF UpdateContact, HomeTypes
  <2> QED BY <2>1, <2>2, <2>4
<1>2. CASE ~Send
  <2>1. UNCHANGED preview
    BY <1>2 DEF UserNext, ClickContact, ClickSearchItem, TypeSearch, LeaveGroup, EnterGroup,
                LoginAgain, uiVars
  <2> QED BY <2>1
<1> QED BY <1>1, <1>2

LEMMA PreviewFreshUser ==
    ASSUME HomeTypes, BoxIsMap, PreviewFresh, UserNext \/ EnableClick \/ UNCHANGED vars
    PROVE  PreviewFresh'
<1>1. UNCHANGED <<toClient, idle, store>> /\ (shown' => shown)
  BY UserActsSo DEF UserActs
<1>2. ASSUME NEW c \in Convs PROVE preview'[c] = preview[c] \/ preview'[c].from # "other"
  <2>1. CASE EnableClick \/ UNCHANGED vars
    BY <2>1 DEF EnableClick, vars, uiVars
  <2> QED BY <2>1, PreviewUser
<1>3. ASSUME shown', NEW c \in Convs PROVE PreviewNext(c)
  <2>1. PreviewNow(c)
    BY <1>1, <1>3, PreviewIs
  <2>2. preview'[c] = preview[c] \/ preview'[c].from # "other"
    BY <1>2
  <2> QED BY <1>1, <2>1, <2>2 DEF PreviewNow, PreviewNext
<1> QED BY <1>3, PreviewFrom

LEMMA PreviewFreshServer ==
    ASSUME HomeTypes, OneLogin, PreviewFresh, NEW as, ServerActs(as)
    PROVE  PreviewFresh'
<1>1. /\ toClient' = toClient \o as /\ UNCHANGED <<idle, shown, preview>>
      /\ as \in Seq(Replies)
  BY DEF ServerActs, Gives, uiVars
<1> SUFFICES ASSUME shown, NEW c \in Convs, preview[c].from = "other",
                    Pushed(idle, toClient', c) = << >>
             PROVE  IsLastOf(preview[c], Theirs(store'[c], c))
  BY <1>1, PreviewFrom DEF PreviewNext
<1>2. online
  <2> HIDE DEF LoginAsked, LoginAnswered, HomeComing
  <2> QED BY DEF OneLogin
<1>3. TellsAll(as) \/ TellsLast(as)
  BY <1>2 DEF ServerActs, Gives
<1> DEFINE p == Pushed(idle, toClient, c)
           n == RepliesIn(as, c)
<1>4. p \in Seq(ConvLine) /\ n \in Seq(ConvLine)
  BY <1>1, PushedTyped, RepliesInTyped DEF HomeTypes
<1>5. p \o n = << >>
  BY <1>1, PushedAdded DEF HomeTypes
<1>6. p = << >> /\ n = << >>
  <2> HIDE DEF p, n
  <2> QED BY <1>4, <1>5, SMT
<1>7. IsLastOf(preview[c], Theirs(store[c], c))
  BY <1>6, PreviewIs DEF PreviewNow
<1>8. Theirs(store'[c], c) = Theirs(store[c], c)
  <2>1. CASE TellsAll(as)
    BY <1>6, <2>1, ConcatNothing DEF TellsAll
  <2>2. CASE TellsLast(as)
    BY <2>2 DEF TellsLast
  <2> QED BY <1>3, <2>1, <2>2
<1> QED BY <1>7, <1>8

LEMMA PreviewFreshCollector ==
    ASSUME HomeTypes, Plain, PreviewFresh, NEW n, CollectorActs(n)
    PROVE  PreviewFresh'
<1>1. idle' = idle \o n /\ UNCHANGED <<shown, preview, store>>
  BY DEF CollectorActs, uiVars
<1>2. ASSUME shown', NEW c \in Convs PROVE PreviewNext(c)
  <2>1. PreviewNow(c)
    BY <1>1, <1>2, PreviewIs
  <2>2. Pushed(idle', toClient', c) = Pushed(idle, toClient, c)
    BY <1>1, CollectedSame DEF HomeTypes
  <2> QED BY <1>1, <2>1, <2>2 DEF PreviewNow, PreviewNext
<1> QED BY <1>2, PreviewFrom

\* A callback leaves a contact's message, or shows another line.
LEMMA PreviewRun ==
    ASSUME HomeTypes, Plain, GtkNext, NEW c \in Convs
    PROVE  \/ preview'[c].from # "other"
           \/ preview'[c] = preview[c] /\ Theirs(PushedRun(idle[1]), c) = << >>
           \/ Wanted(preview'[c], c) /\ Theirs(PushedRun(idle[1]), c) = <<preview'[c]>>
<1> DEFINE b == idle[1]
<1>1. GtkActs
  BY GtkActsSo
<1>2. Head(idle) = b /\ b \in Callbacks /\ 1 \in DOMAIN idle /\ b.lines \in Seq(ConvLine)
      /\ preview \in [Convs -> LineType]
  BY <1>1 DEF GtkActs, Callbacks, HomeTypes
<1>3. PlainRun(b)
  BY <1>2, PlainNow
<1>4. PushedRun(b) = IF b.run = "load" THEN << >> ELSE b.lines
  BY DEF PushedRun
<1> HIDE DEF b
<1>5. CASE RunHome
  <2>1. preview'[c] = NoLine /\ NoLine.from = "notice"
    BY <1>5 DEF RunHome, NoLine, Line
  <2> QED BY <2>1
<1>6. CASE RunLoad
  <2>1. UNCHANGED preview /\ b.run = "load"
    BY <1>2, <1>6 DEF RunLoad, Run
  <2>2. Theirs(PushedRun(b), c) = << >>
    BY <1>4, <2>1, TheirsEmpty
  <2> QED BY <2>1, <2>2 DEF b
<1>7. CASE RunResults
  <2>1. UNCHANGED preview /\ b.run = "results"
    BY <1>2, <1>7 DEF RunResults, Run
  <2>2. Theirs(PushedRun(b), c) = << >>
    BY <1>2, <1>3, <1>4, <2>1, NoOthersNone DEF PlainRun
  <2> QED BY <2>1, <2>2 DEF b
<1>8. CASE RunRemove
  <2>1. /\ preview' = [preview EXCEPT ![b.lines[1].conv] = NoLine]
        /\ b.run = "remove"
    BY <1>2, <1>8 DEF RunRemove, Run
  <2>2. Theirs(PushedRun(b), c) = << >>
    BY <1>2, <1>3, <1>4, <2>1, NoOthersNone DEF PlainRun
  <2>3. CASE c = b.lines[1].conv
    <3>1. preview'[c] = NoLine /\ NoLine.from = "notice"
      BY <1>2, <2>1, <2>3 DEF NoLine, Line
    <3> QED BY <3>1
  <2>4. CASE c # b.lines[1].conv
    <3>1. preview'[c] = preview[c]
      BY <1>2, <2>1, <2>4
    <3> QED BY <2>2, <3>1 DEF b
  <2> QED BY <2>3, <2>4
<1>9. CASE RunUpdate
  <2> DEFINE l == b.lines[1]
  <2>1. b.run = "update" /\ preview' = [preview EXCEPT ![l.conv] = l]
    BY <1>2, <1>9 DEF RunUpdate, Run, UpdateContact
  <2>2. Len(b.lines) = 1
    BY <1>3, <2>1 DEF PlainRun
  <2>3. b.lines = <<l>> /\ l \in ConvLine
    BY <1>2, <2>2, SMT
  <2>4. PushedRun(b) = <<l>>
    BY <1>4, <2>1, <2>3
  <2> HIDE DEF l
  <2>5. CASE Wanted(l, c)
    <3>1. Theirs(<<l>>, c) = <<l>>
      BY <2>3, <2>5, TheirsOne
    <3>2. preview'[c] = l
      BY <1>2, <2>1, <2>5 DEF Wanted
    <3> QED BY <2>4, <2>5, <3>1, <3>2 DEF b
  <2>6. CASE ~Wanted(l, c)
    <3>1. Theirs(<<l>>, c) = << >>
      BY <2>3, <2>6, TheirsOne
    <3>2. CASE l.conv = c
      <4>1. preview'[c] = l /\ l.from # "other"
        BY <1>2, <2>1, <2>6, <3>2 DEF Wanted
      <4> QED BY <4>1
    <3>3. CASE l.conv # c
      <4>1. preview'[c] = preview[c]
        BY <1>2, <2>1, <3>3
      <4> QED BY <2>4, <3>1, <4>1 DEF b
    <3> QED BY <3>2, <3>3
  <2> QED BY <2>5, <2>6
<1> QED BY <1>5, <1>6, <1>7, <1>8, <1>9 DEF GtkNext

LEMMA PreviewFreshGtk ==
    ASSUME HomeTypes, Plain, Pending, PreviewFresh, GtkNext
    PROVE  PreviewFresh'
<1>1. GtkActs
  BY GtkActsSo
<1>2. UNCHANGED <<toClient, store>> /\ (idle[1].run = "home" \/ shown' = shown)
      /\ 1 \in DOMAIN idle /\ Head(idle) = idle[1]
  BY <1>1 DEF GtkActs
<1> SUFFICES ASSUME shown', NEW c \in Convs, preview'[c].from = "other",
                    Pushed(idle', toClient', c) = << >>
             PROVE  IsLastOf(preview'[c], Theirs(store[c], c))
  BY <1>2, PreviewFrom DEF PreviewNext
<1>3. CASE idle[1].run = "home"
  <2>1. RunHome
    BY <1>2, <1>3 DEF GtkNext, RunHome, RunUpdate, RunLoad, RunRemove, RunResults, Run
  <2>2. preview'[c].from = "notice"
    BY <2>1 DEF RunHome, NoLine, Line
  <2> QED BY <2>2
<1>4. CASE shown
  <2> DEFINE x == Theirs(PushedRun(idle[1]), c)
  <2>1. Pushed(idle, toClient, c) = x \o << >>
    BY <1>1, RanFirst
  <2>2. x \in Seq(ConvLine)
    <3>1. PushedRun(idle[1]) \in Seq(ConvLine)
      BY <1>1, LinesPushed DEF GtkActs
    <3> QED BY <3>1, TheirsTyped
  <2>3. Pushed(idle, toClient, c) = x
    <3> HIDE DEF x
    <3> QED BY <2>1, <2>2, ConcatEmptySeq
  <2>4. CASE preview'[c] = preview[c] /\ x = << >>
    BY <1>4, <2>3, <2>4, PreviewIs DEF PreviewNow
  <2>5. CASE Wanted(preview'[c], c) /\ x = <<preview'[c]>>
    <3>1. EndsAs(x, Theirs(store[c], c))
      BY <1>4, <2>3 DEF Pending, AllEnd
    <3>2. x # << >> /\ x[Len(x)] = preview'[c]
      BY <2>5, SMT
    <3> QED BY <3>1, <3>2 DEF EndsAs, IsLastOf
  <2> QED BY <2>4, <2>5, PreviewRun
<1> QED BY <1>2, <1>3, <1>4

LEMMA PreviewFreshStep ==
    ASSUME HomeTypes, BoxIsMap, Histories, OneLogin, Plain, Pending, PreviewFresh, [Next]_vars
    PROVE  PreviewFresh'
<1>1. CASE UserNext \/ EnableClick \/ UNCHANGED vars
  BY <1>1, PreviewFreshUser
<1>2. CASE ServerNext
  BY <1>2, ServerActsSo, PreviewFreshServer
<1>3. CASE CollectorNext
  BY <1>3, CollectorActsSo, PreviewFreshCollector
<1>4. CASE GtkNext
  BY <1>4, PreviewFreshGtk
<1> QED BY <1>1, <1>2, <1>3, <1>4 DEF Next

(***************************************************************************)
(* All of it together.                                                     *)
(***************************************************************************)
LEMMA FreshInit == ASSUME Init PROVE FInv
<1>1. HInv
  BY HomeInit
<1>2. /\ requests = <<Request("login", 0)>> /\ DOMAIN toClient = {} /\ DOMAIN idle = {} /\ ~shown
  BY SMT DEF Init
<1>3. /\ DOMAIN requests = {1} /\ requests[1].kind = "login"
  BY <1>2, SMT DEF Request
<1>4. Plain
  BY <1>2, <1>3 DEF Plain
<1>5. LoginLast
  <2>1. LoginAsked /\ ~HomeComing
    BY <1>2, <1>3 DEF LoginAsked, HomeComing
  <2>2. \A i, j \in DOMAIN requests : j <= i
    BY <1>3
  <2> HIDE DEF LoginAsked, HomeComing
  <2> QED BY <1>2, <2>1, <2>2 DEF LoginLast
<1>6. ChatsFirst /\ HistoryFresh /\ ViewFresh /\ PreviewFresh
  BY <1>2, Zenon DEF ChatsFirst, HistoryFresh, ViewFresh, PreviewFresh
<1>7. Pending
  BY <1>2, Zenon DEF Pending
<1> QED BY <1>1, <1>4, <1>5, <1>6, <1>7 DEF FInv

LEMMA FreshStep == FInv /\ [Next]_vars => FInv'
<1> SUFFICES ASSUME FInv, [Next]_vars PROVE FInv'
  OBVIOUS
<1>1. /\ HInv /\ Plain /\ LoginLast /\ ChatsFirst
      /\ Pending /\ HistoryFresh /\ ViewFresh /\ PreviewFresh
  BY DEF FInv
<1>2. HomeTypes /\ BoxIsMap /\ Histories /\ OneLogin
  BY <1>1 DEF HInv
<1>3. HInv'
  BY <1>1, HomeStep
<1>4. Plain' /\ LoginLast' /\ ChatsFirst'
  BY <1>1, <1>2, PlainStep, LoginLastStep, ChatsFirstStep
<1>5. Pending' /\ HistoryFresh'
  BY <1>1, <1>2, PendingStep, HistoryFreshStep
<1>6. ViewFresh' /\ PreviewFresh'
  BY <1>1, <1>2, ViewFreshStep, PreviewFreshStep
<1> QED BY <1>3, <1>4, <1>5, <1>6 DEF FInv

\* Once the history of the selected conversation is here, what others wrote in
\* it is in the view, or pushed and on its way there, each message once and in
\* order (controller.c:502-571, 1015-1168, ui_home.c:113-142, 659-676),
\* whatever was clicked, pushed, loaded and logged in to before.
THEOREM IncomingOnce == Spec => []IncomingExactlyOnce
<1>1. FInv => IncomingExactlyOnce
  <2> DEFINE runs == [i \in DOMAIN idle |-> idle[i].lines]
             replies == [i \in DOMAIN toClient |-> toClient[i].lines]
             t == Theirs(view, selected)
             x == Theirs(FlattenSeq(runs), selected)
             y == Theirs(FlattenSeq(replies), selected)
  <2> SUFFICES ASSUME HomeTypes, ViewFresh, HistoryHere
               PROVE  t \o x \o y = Theirs(store[selected], selected)
    BY DEF FInv, HInv, IncomingExactlyOnce
  <2>1. ~Coming(selected)
    <3>1. GetHistoryMessage(selected).kind = "history"
      BY DEF GetHistoryMessage, Request
    <3>2. ~Asked(selected)
      BY <3>1, Zenon DEF HistoryHere, Asked
    <3>3. ~Answered(selected) /\ ~ToLoad(selected)
      BY DEF HistoryHere, Answered, HistoryKinds, ToLoad
    <3> QED BY <3>2, <3>3 DEF Coming
  <2>2. Fresh(view, idle, toClient, store[selected], selected)
    BY <2>1 DEF HistoryHere, ViewFresh
  <2>3. runs = RunLines(idle)
    <3>1. \A i \in DOMAIN idle : PushedRun(idle[i]) = idle[i].lines
      BY DEF HistoryHere, PushedRun
    <3> QED BY <3>1 DEF RunLines
  <2>4. replies = ReplyLines(toClient)
    <3>1. \A i \in DOMAIN toClient : PushedReply(toClient[i]) = toClient[i].lines
      BY DEF HistoryHere, PushedReply, HistoryKinds
    <3> QED BY <3>1 DEF ReplyLines
  <2>5. x = RunsIn(idle, selected) /\ y = RepliesIn(toClient, selected)
    BY <2>3, <2>4 DEF RunsIn, RepliesIn
  <2>6. t \in Seq(ConvLine) /\ x \in Seq(ConvLine) /\ y \in Seq(ConvLine)
    <3>1. t \in Seq(ConvLine)
      BY TheirsTyped DEF HomeTypes
    <3>2. RunsIn(idle, selected) \in Seq(ConvLine) /\ RepliesIn(toClient, selected) \in Seq(ConvLine)
      BY RunsInTyped, RepliesInTyped DEF HomeTypes
    <3> QED BY <2>5, <3>1, <3>2
  <2>7. t \o (x \o y) = Theirs(store[selected], selected)
    BY <2>2, <2>5 DEF Fresh, Pushed
  <2> HIDE DEF t, x, y
  <2> QED BY <2>6, <2>7, LinesAssociative
<1> QED BY <1>1, FreshInit, FreshStep, PTL DEF Spec

\* When everything asked for has arrived, the message of another that a contact
\* shows is the last that others wrote in its conversation
\* (controller.c:502-571, 924-1013, ui_home.c:315-376): the chat list asked for
\* at login and the pushes around it leave no older one.
THEOREM PreviewsLatest == Spec => []PreviewLatest
<1>1. FInv => PreviewLatest
  <2> SUFFICES ASSUME HomeTypes, PreviewFresh, Settled, NEW c \in map,
                      preview[c].from = "other"
               PROVE  preview[c] = Last(Theirs(store[c], c))
    BY DEF FInv, HInv, PreviewLatest
  <2>1. c \in Convs
    BY DEF HomeTypes
  <2>2. Pushed(idle, toClient, c) = << >>
    BY PushedNone DEF Settled
  <2>3. IsLastOf(preview[c], Theirs(store[c], c))
    BY <2>1, <2>2, PreviewIs DEF PreviewNow, Settled
  <2> QED BY <2>3 DEF IsLastOf, Last
<1> QED BY <1>1, FreshInit, FreshStep, PTL DEF Spec
=============================================================================
