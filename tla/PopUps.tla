------------------------------- MODULE PopUps -------------------------------
(***************************************************************************)
(* The windows in which a group is joined or created                       *)
(* (src/ui/pop_up_join_group.c, pop_up_create_group.c).  The buttons of    *)
(* the home window post an idle callback that opens one; a global pointer  *)
(* remembers the last window opened, each window's button has a form of    *)
(* its own, on the heap, which its action frees.  Cancel (join only) and   *)
(* the window manager close a window without a word to either.             *)
(* Windows composes these windows with those of Login.                     *)
(* An operator whose comment begins "Variant" is the next definition with  *)
(* a plausible defect, used only to show which property notices it.        *)
(***************************************************************************)
EXTENDS Integers, Sequences

CONSTANTS
    OneOfAKind,   \* does the user wait for a window to go before he opens another?
    MaxWindows    \* bound: windows opened

Kinds == {"join", "create"}
WindowIds == 1 .. MaxWindows

VARIABLES
    pending,   \* idle callbacks not yet run
    opened,    \* the kind of each window opened so far
    screen,    \* the windows on the screen
    pointer,   \* join_group_window and create_group_window; 0 is NULL
    live,      \* the windows whose form is not freed
    sent       \* the windows whose request was queued, in order

vars == <<pending, opened, screen, pointer, live, sent>>

Init ==
    /\ pending = << >> /\ opened = << >> /\ screen = {}
    /\ pointer = [k \in Kinds |-> 0]
    /\ live = {} /\ sent = << >>

\* on_join_group_clicked, on_create_group_clicked.
ClickOpen(k) ==
    /\ Len(opened) + Len(pending) < MaxWindows
    /\ OneOfAKind => /\ \A w \in screen : opened[w] # k
                     /\ \A i \in DOMAIN pending : pending[i] # k
    /\ pending' = Append(pending, k)
    /\ UNCHANGED <<opened, screen, pointer, live, sent>>

\* Variant: the pointer is set only if it is NULL.
ShowKeepsPointer ==
    /\ pending # << >>
    /\ pending' = Tail(pending)
    /\ LET k == Head(pending)
           w == Len(opened) + 1
       IN  /\ opened' = Append(opened, k)
           /\ screen' = screen \cup {w} /\ live' = live \cup {w}
           /\ pointer' = [pointer EXCEPT ![k] = IF @ = 0 THEN w ELSE @]
    /\ UNCHANGED sent

\* create_join_group_ui, create_group_ui, in the idle callback.
Show ==
    /\ pending # << >>
    /\ pending' = Tail(pending)
    /\ LET k == Head(pending)
           w == Len(opened) + 1
       IN  /\ opened' = Append(opened, k)
           /\ screen' = screen \cup {w} /\ live' = live \cup {w}
           /\ pointer' = [pointer EXCEPT ![k] = w]
    /\ UNCHANGED sent

\* Variant: the window stays.
SubmitKeepsWindow(w) ==
    /\ w \in screen
    /\ sent' = Append(sent, w)
    /\ live' = live \ {w}
    /\ UNCHANGED <<pending, opened, screen, pointer>>

\* join_group_action, create_group_action, with both entries filled in.
Submit(w) ==
    /\ w \in screen
    /\ sent' = Append(sent, w)
    /\ screen' = screen \ {pointer[opened[w]]}
    /\ pointer' = [pointer EXCEPT ![opened[w]] = 0]
    /\ live' = live \ {w}
    /\ UNCHANGED <<pending, opened>>

\* Cancel, or the window manager: the pointer and the form stay.
Close(w) ==
    /\ w \in screen
    /\ screen' = screen \ {w}
    /\ UNCHANGED <<pending, opened, pointer, live, sent>>

Next ==
    \/ \E k \in Kinds : ClickOpen(k)
    \/ Show
    \/ \E w \in WindowIds : Submit(w) \/ Close(w)

Spec == Init /\ [][Next]_vars
-----------------------------------------------------------------------------
\* Every variable holds a value of its type.
TypeOK ==
    /\ pending \in Seq(Kinds) /\ opened \in Seq(Kinds)
    /\ screen \subseteq DOMAIN opened /\ live \subseteq DOMAIN opened
    /\ pointer \in [Kinds -> Nat]
    /\ sent \in Seq(Nat)

\* A window that can still be clicked has its form, and the pointer through
\* which its action will destroy a window is its own, whatever windows were
\* cancelled before and left theirs behind (pop_up_join_group.c:28-33).
FormAndPointerMatch ==
    \A w \in screen : w \in live /\ pointer[opened[w]] = w

\* A window sends at most one request, and is gone when it has.
SentOnce ==
    \A i, j \in DOMAIN sent :
        sent[i] \notin screen /\ (sent[i] = sent[j] => i = j)
=============================================================================
