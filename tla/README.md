# Linux Chat: specification and proofs

TLA+ specifications of the chat client in `src/`: its connection to the server, its
queue of outgoing requests, its messages and frames, its key arithmetic, its windows and
its login. TLC checks them on small instances; TLAPS proves, for every value of the
bounds, the safety of the connection and that it implements a secure channel, that the
queue implements a first-in first-out one, that both sides compute one key, that messages
are read as they were written unless a read is reported as failed, and the safety of the frames, the login, the pop-up windows
and the home window.
`PROJECT.json` maps every definition to the lines it stands for.

## The system

The repository is the client only. The server it talks to is modelled by what the
client's handlers expect of it; those definitions are marked external in the map.

```
  GTK (main) thread                      sender thread          server
  windows, gestures, idle callbacks         |                     ^
     | requests (service.c, user.c)         | frames              | socket
     v                                      v                     v
  session_send_message -> MessageQueue -> do_send_message ...  collector thread
     ^                                                            |
     +--- idle callbacks (g_idle_add) <- controller.c handlers <--+
```

| Component | State | Operations | Hard parts |
|---|---|---|---|
| Session (`session.c`, `main.c`) | `connected`, `socket`, `isClosed`, `sendKeyComplete`, `key`, the threads' `running` flags | connect, send id, trade key, send, receive, close, destroy | three threads, two kinds of writers without a lock, plain flags, teardown by the collector, loss of the connection at any stage |
| Queue of requests (`session.c`) | `messages`, `size`, `capacity`, `mutex` | add, remove | `size` read without the lock, growth, failing `realloc` |
| Controller (`controller.c`) | none of its own; replaces `session->user` | one handler per command, on the collector thread | handlers post callbacks that run later |
| Service (`service.c`) | none | one request per operation | reads `session->user` when called |
| Home window (`ui_home.c`) | contacts, their map and previews, selection, view, click timer | clicks, search, send, leave/delete, callbacks | every callback meets a window that has moved on since its request |
| Pop-up windows (`pop_up_join_group.c`, `pop_up_create_group.c`) | a global pointer per kind, a form per window | open, fill in, submit, cancel | Cancel tells neither the pointer nor the form |
| Login (`ui_login.c`, `ui_register.c`, `user.c`, `ui_controller.c`) | `session->user`, `current_ui` | login, register, logout, change of window | a fresh user object per click, the server's answer on another thread |
| Message buffer (`message.c`, `aes_utils.c`) | `buffer`, `size`, `position` | typed writes, growth, encryption, decryption, typed reads | growth in the middle of a field, boundaries of lengths, what lies behind the plain text |
| Key arithmetic (`utils.c`, `session.c`) | `p`, `g`, `bb`, `A`, `B`, `K` | `utils_mod_exp`, `send_private_key`, `compute_shared_key` | width of `int`, parameters the server chooses |
| Frames (`session.c`) | bytes on the connection, the reader's place in a frame | `do_send_message`, `session_read_message` | `recv()` returns what has arrived, the connection breaks anywhere |

What makes each correct: the **session** never interleaves frames, sends requests once at
most, in order and only under the agreed key, loses none while the connection works and there
is memory, agrees on a key if it can, notices a loss and
stops; the **queue** is first-in first-out and does not block; the **home window** shows
the selected conversation, with every message of others exactly once, and lists every
conversation once; a **pop-up** acts once, on its own form and its own window; the **login** lets the home
window act only for the account the server has logged in; a **message** is read as it was
written, or the read reports that it failed, and no write leaves the message's buffer; the **key arithmetic** gives both sides one key
without an overflow; **frames** reach a handler whole, in order, and each once.

## Modules

**`Session`** has one variable per shared field of `Session` and `SessionPrivate`, a
program counter per thread (`mainPc`, `colPc`, `sndPc`), the socket as the sequence of
pieces written to it (`wire`), and the server (`srv`, `toClient`). Steps are as coarse as
the sharing allows: a `send()` is a step, a frame two of them (its head, its tail: more
would only repeat the same interleavings), the test and the `message_queue_add` of
`session_send_message` are two steps, and so is each shared store of `clean_network` and
`compute_shared_key`. `StoreOrder = "program"` lets the sender see the stores of
`compute_shared_key` in program order: so on x64, where `generate_aes_key_from_K` is a
call into another translation unit and the processor keeps stores in order; `"any"` lets
it see them in any order, as ARM64 may without a barrier. The server answers a
whole `GET_SESSION_ID` and a whole `B`, may offer parameters again, and may leave at any
time. A key is the pair of rounds its two secrets come from, so two keys are equal just
when both sides used the secrets of one round. A request may be dropped without a word:
by `message_queue_add` when the array is full and cannot grow, by `do_send_message` when
there are no random bytes or no memory to encrypt it, on a connection that works
(`starved` records that one was), and when a send fails. Assumed not to fail are the few
allocations of the key exchange itself and OpenSSL's cipher, and no caller sends an empty
message. Joining a thread that was never created may return, end the process or never
return.

**`SecureChannel`** is what the session promises its user; `ImplementsChannel` states that
`Session` implements it, with `phase` read off the threads and flags and `transmitted` the
requests whose whole frame went out under the agreed key; the channel may give a request up
once it is `lossy`, which is what `starved` is mapped to. **`SessionProperties`** states
the properties, **`SessionInvariant`** the inductive invariants, **`SessionProofs`** the
theorems.

**`MessageQueue`** is the queue at the grain of lock, loads and stores; **`FifoQueue`** is
its promise, with the contents seen by a mapping that accounts for a shift half done.
`Session` uses the queue as a sequence that may refuse a message when it is as long as
`QueueCapacity`; that `MessageQueue` implements `FifoQueue` is the reason it may, and **`MessageQueueProofs`** proves it.

**`HomeWindow`** has a variable per widget or global of `ui_home.c` that later steps
depend on, and the way of a request: `requests`, `toClient`, `idle`. Gestures, the
controller's handlers (one action each) and the idle callbacks are the actions. A line of
a conversation is its conversation, a number and who wrote it; `preview` is the line a
contact shows. **`HomeWindowProperties`** states its properties, **`HomeWindowProofs`** has
its theorems.

**`PopUps`** has the two windows of `pop_up_join_group.c` and `pop_up_create_group.c`. A
window is known by its number; its form is in `live` until `g_free`. With
`OneOfAKind = TRUE` the user opens no second window of a kind while one is there.

**`Login`** has `session->user`, `current_ui` and the same three legs. A patient user
(`Impatient = FALSE`) waits for the answer to a login and for the next window.

**`Windows`** composes `Login` and `PopUps`: the pop-ups are opened from the home window,
stay when it is hidden, and put their requests behind those of `Login`, in the name of
`session->user` as it is at the click. GTK has one queue of idle callbacks; here each of
the two modules keeps its own, which allows every order of the one queue and more. A
patient user also has one pop-up of a kind at a time and is done with them before he logs
out. **`WindowsProofs`** has the theorems about the pop-ups and about the login.

**`MessageBuffer`** follows one message through the writer, the connection and the reader.
`message_write` is three steps (room, growth, copy), and a typed write several calls of it
(`Parts`), between which an allocation may fail. Memory is a sequence of bytes of base
`Base`; new memory holds any byte of `Junk`. Cipher text is its plain text and a length.
`ReadString` to `ReadUtf` give the result of a read; `ReadUtfFails` is `message_read_utf`
without memory for its string (no handler calls it, but it is `message.c`'s); a `handler` reads the types that were
written, perhaps one more (as `read_error_message` does when the server sent none), and
goes on after a failed read or not. **`MessageBufferProperties`** states its properties,
**`MessageBufferProofs`** has its theorems. That the values and lengths of the fields are of
their C types is an assumption on the constant (`FieldAssumption`).

**`KeyExchange`** runs `utils_mod_exp` a turn a step over the `uint8_t`, `uint16_t` and
`int` the code uses, against the server's power, taken from its definition (`PowerMod`).
`Session` takes from it that sound parameters work and weak ones may not.
**`KeyExchangeProofs`** has its theorems. **`NumberTheorems`** has what the proofs about
messages, keys and the home window need of the natural numbers, by itself: induction,
recursion, quotients, remainders, powers and primes.

**`Frames`** writes frames piece by piece and takes them off with `recv()`s of any length.
A byte is known by the frame, field and place it was sent in. A header field received in
parts leaves the reader out of step (`derailed`): after it any command, size or body may
be read, and only the end of the connection is still sure to be noticed.
**`FramesProofs`** has its theorems.

An operator whose comment begins "Variant" is a defective form of the definition after
it; no specification uses it. It shows that the property named in `PROJECT.json` would
notice that defect.

## Runs

| Run | Bounds | Shows |
|---|---|---|
| `session_safety` | 3 requests, queue capacity 1, 2 pushes, 2 rounds, sound and weak parameters | the safety properties and `ImplementsChannel` on x64 |
| `session_liveness` | 2 requests, queue capacity 1, 1 push, 2 rounds, sound parameters, stores in any order | exchange ends, queue drains, loss is noticed, `destroySession` ends; `IInv` |
| `session_arm64_key` | the same, 1 round | **violated**: a request goes out under unfilled key bytes |
| `session_hostname` | server given by name | **violated**: a listening server is not reached |
| `queue` | 2 producers, 4 messages, capacity 1 growing to 2 | FIFO, nothing taken twice or unadded, every message queued is taken out |
| `home` | 1 user, 1 group, 2 messages, 3 gestures, 2 logins | view, contacts and previews under all interleavings; loads arrive |
| `home_sent` | the same, 1 login | **violated**: one's own message vanishes from the view |
| `message` | 2 fields of 6 types, `Base` 3, buffer 4, strings to 3, 1 failing allocation | writes stay in the buffer, fields are read as written or the failure is told |
| `key` | 64 pairs of parameters, 12 secrets, 6 of the server | no overflow, one key, sound parameters work |
| `frames` | 2 frames, bodies to 2 bytes, portions of any size | messages whole, in order and all handed on; loss is noticed |
| `login` | 2 accounts, 10 gestures, 4 pop-ups, patient | window, pop-ups, account and user agree |
| `login_online` | 1 account, 4 gestures, impatient | **violated**: the guard against a second login never holds |

Why the bounds are enough. Three requests are one on the wire, one in the sender's hands
and one queued, and capacity 1 lets the second one queued be refused; two pushes are one handled and one under way; two rounds let a key mix
rounds if the code could. In the queue, capacity 1 and at most 2 makes both growth and
the failing `realloc` happen, with two messages in the array while a shift is under way.
In the home window one user and one group are the two signs of an id, and two
conversations are enough for a view to show the wrong one; three gestures are select,
select another, and send or leave, or a second login among them; two messages put one into
a history and one after it. Ten gestures of a patient user are two sessions with different
accounts, with pop-ups opened, left and submitted in each; four pop-ups are two of each
kind, one after a cancelled one. A message's buffer of 4 is too small for a long and a
string, so that it doubles, and doubles twice, inside a typed write; base 3 keeps the bytes
of `80`, `7` and `5` apart, and strings are empty, shorter than the handler's buffer of 2,
as long (which the properties leave out), and longer; one `message_write_utf` refuses. `message.c` has the same code for every width, so the widths stay the
program's and only base and buffer are small. The key's parameters include the bytes 0, 1
and 255, primes, composites and a base larger than its modulus; secrets up to 42 make six
turns of the loop with every pattern of bits (`PowerMod` is the definition, evaluated step
by step, so 65534 would be out of its reach; the properties are proved for all).
Header fields of one and two bytes instead of 1, 4 and 16 are enough to be split once; two
frames show what the second suffers from the first.
Deadlock is checked for the session and the queue; the other modules stop when their
bounds are used up or their one message is read, so there it is not
(`CHECK_DEADLOCK FALSE`).

## Fairness

`session_liveness` assumes weak fairness of the main thread's own steps, of the sender, of
the collector and of the server's part in the key exchange: threads are scheduled, and a
server that is up answers. The user and the loss of the connection are not fair: either
may happen or not. `queue` assumes that a thread that called `message_queue_add` and the
sender go on; weak fairness of a thread suffices for the lock, since the sender's loop
gives it up between messages and adds are bounded, which is a bound of the instance and
not of the code. `home` assumes that the server answers and that the collector and GTK's main loop
run. `frames` assumes that a writer finishes its frame and that the collector receives;
losing the connection is never fair. The other runs need no fairness.

## What the violated runs show

* `session_hostname`: `inet_addr()` (`session.c:281`) reads dotted addresses only, while the
  README's default server is `localhost` and `main.c:27` passes just that.
* `session_arm64_key`: the README names ARM64; the key flag is published without a barrier.
* `home_sent`: `load_chat_history` clears what the user wrote after the click.
* `login_online`: "User is already online" cannot be reached from the login window.

## What is proved

**The session** (`SessionProofs`), for every value of the bounds, both
kinds of parameters and (unless stated) both store orders, from `SessionAssumption` alone:

* `TypeCorrect`: `Spec => []TypeOK`.
* `Invariant`: `Spec => []IInv`.
* `FramesNeverInterleave`: `Spec => []WireFramesWhole`.
* `KeysAgree`, `OnlyTheAgreedKey`, `KeyIsFinal`: `KeyAgreement`, `RequestsUnderAgreedKey`
  and `KeyNeverChanges`, each assuming `StoreOrder = "program"`. The assumption is needed:
  `session_arm64_key` shows the second fail without it.
* `NoneTwiceOrOvertaken`, `NoneLost` and `SessionIsAChannel`: `AcceptedInOrder`,
  `NoneLostWhileWorking` and `ImplementsChannel`, each assuming `StoreOrder = "program"`: a
  request sent under an unfilled key has left the queue and counts as not transmitted. The
  first holds whatever fails; the second until a send, an allocation or `RAND_bytes` does,
  and what it excludes is above all a request taken before there is a key.

None of these is inductive. That frames stay whole, for one, rests on the order of the key
exchange: only one thread ever has a reason to write. `IInv` says why, in named parts:
`Phases` (which program counters and flags go together), `ServerStages` (what the server
has said and asked), `UnderWay` and `InHands` (what may be on its way and what the
collector holds: no parameters arrive after a `B` is out, no `A` while one is being
written), `Writers` (a head without its tail is the last piece, and its writer is in
the middle of it, or the connection is gone) and `KeyStages` (the key through the
stores of `compute_shared_key`). `SessionProofs` has a lemma per part,
`PhasesStep` to `WireFramesWholeStep`, with a step per action; the actions that disturb
several parts at once have a lemma of their own (`IdStep`, `SendBStep`, `SenderSendStep`,
`CollectorRecvStep`, `PublishStep`, `SrvOfferStep`, `SrvAnswerStep`, `SrvPushStep`), and
what a step may do to the wire is said once, in `WireGrows` and `WireStaysWhole`.
`session_liveness` checks `IInv` with TLC.

That the session is a channel needs one thing more: where every request and every push is.
`CInv` adds to `IInv` that the socket is open and nothing was accepted as the threads'
counters say (`SocketLife`), that the sender has a request in its hands just while it
writes one (`Holding`), that requests are accepted in the order of their numbers
(`Numbered`), that what is sent, in hand and queued is in that order, and all of it until
something was dropped, that the requests on the wire can be counted off (`Placed`; `Transmitted` is
the k-th of them for each k, by their places on the wire), and that each push is under
way, in the collector's hands or delivered (`Counted`). A lemma says what each action does
to `Transmitted`: the tail of a frame appends the request it carries, every other step
leaves it alone. The refinement has a step per action, and each maps to a step of
`SecureChannel` or to a stutter.

**The queue** (`MessageQueueProofs`), for any set of producers, any capacity and any number
of messages, with `realloc` failing at any time:

* `QueueTypeCorrect`: `Spec => []TypeOK`; `TakenWasAdded`: `Spec => []TakesOnlyAdded`.
* `QueueIsFifo`: `Spec => ImplementsFifo`.

`QInv` says whose label may be which (`Places`), that who is between lock and unlock holds
the mutex (`Exclusion`), that a producer about to store has room for it (`Room`) and how
far a shift has come (`Shifting`). `Numbered` adds that what was taken, followed by the
queue's contents, numbers every message once, below those still to be made. So the test of
`size` without the lock is harmless: only the sender ever makes it smaller.

**The frames** (`FramesProofs`), for any number of frames, any lengths of fields and bodies
and any portions of `recv()`:

* `FrameTypesCorrect`: `Spec => []FrameTypes`, which adds to `TypeOK` the types of the
  pieces, of the bytes on the connection and of what the reader holds and has handed on;
  `FramesInOrder`: `Spec => []HandedInOrder`.

`FInv`: while the reader is not `derailed`, what it has of the current frame, followed by
the bytes under way, is an unbroken run of the bytes of the frames from the first one not
handed over up to the writer's place (`FrameSoFar`, `Unbroken`, `UpToWriter`), and what was
handed over is right (`AllHanded`). A header field that came in parts is the one exception,
as it is in the code.

**The pop-up windows** (`WindowsProofs`), for any accounts, gestures and number of windows:

* `WindowsKeepTheirForms`, `WindowsSendOnce`: `FormAndPointerMatch` and `SentOnce`, each
  assuming a patient user. With two windows of a kind the pointer is the later one's, and
  the code is wrong; the assumption says just that.

The inductive invariant `WInv` adds to the two that a kind has a window on the screen or on
its way, not both (`OneIsComing`), and that only windows that were opened are on the screen
or have sent (`OnlyOpened`). There is a lemma per action, `ClickKeeps` to `CloseKeeps`.

**The login** (`WindowsProofs`), in the same composition:

* `LoginTypesCorrect`: `WindowsSpec => []TypeOK`.
* `HomeIsUsers`, `WindowIsServers`: `HomeActsAsUser` and `WindowMatchesServer`, each
  assuming a patient user, and needing it: `btn_login_clicked` replaces `session->user` at
  every click, so that a second click while the first is being answered leaves the home
  window acting for another account than the server's.

`LInv` says what may be under way together: requests of the home window come before a
logout (`HomeFirst`), a login is the last request and its answer the last answer
(`LoginLast`, `AnswerLast`), user and server agree while a session lasts (`InSession`), one
window is on its way at most (`OneWindowComes`), and pop-ups are there only with the home
window (`PopUpsAtHome`).

**The home window** (`HomeWindowProofs`), for any finite sets of users and groups, any
number of messages, gestures and logins:

* `HomeTypesCorrect`: `Spec => []TypeOK`.
* `MapAndBoxAgree`: `Spec => []MapMatchesBox`.
* `ViewSettles`: `Spec => []OneConversation`.
* `NoContactMissing`: `Spec => []ContactsComplete`.
* `IncomingOnce`: `Spec => []IncomingExactlyOnce`.
* `PreviewsLatest`: `Spec => []PreviewLatest`.

`HInv` has what the first four rest on. `BoxIsMap`: the list box holds the map's contacts, each
once. `Histories` and `ViewOrComing`: a history under way is of one conversation that has
messages, and a view that shows anything but the selected conversation is to be replaced,
since a history of the selected one is asked for, answered or waiting to be loaded.
`OneLogin`: one login is under way at most, and the home window is shown after it.
`Contacts`: a conversation with a message is listed, or what lists it is under way behind
everything that removes it (`LastAdds`). It is this order, of pushes, of groups
left and entered again and of a second login, that the property depends on.

`FInv` adds what the last two rest on. It follows the messages of others (`Theirs`) through
the answers and the callbacks: `Pushed` is what others wrote among both, the histories left
out, since a history brings again what was pushed before it.

* `ViewFresh`: the view of the selected conversation, its history loaded and no other on its
  way, followed by `Pushed`, is what others wrote there. It holds after a load because of
  `HistoryFresh`, which says the same of a history under way and what is pushed behind it.
* `PreviewFresh`: the message of another that a contact shows is the last that others
  wrote, if none is pushed. It holds after a callback because of `Pending`: the last message
  pushed is the last that others wrote.
* Both need the order of a login. The chats asked for as the window comes up bring messages
  that may have been pushed before. Behind a history they would be shown twice: `ChatsFirst`
  says that they come before every history. And `LoginLast` says that the answers to what
  was asked before a login come before its own, so that none reaches the new window.
* `Plain`: messages of others come by pushes, chats and histories only.

There is a lemma per part and kind of step (user, server, collector, main loop). They rest
on laws of `Theirs` and `FlattenSeq` over `\o` (`TheirsConcat`, `FlattenConcat`), proved from
`Induction` and `Recursion`, and on `PushedMoved`: handling an answer moves what it tells to
the callbacks and leaves `Pushed` as it is.

**The key arithmetic** (`KeyExchangeProofs`), for every pair of bytes the server may offer,
every secret `utils_next_int` may return and any secret of the server:

* `KeyTypeCorrect`: `Spec => []TypeOK`, and `NoOverflow`: `Spec => []ProductsFit`.
* `OneKeyForBoth`: `Spec => []SameKey`, for parameters of every kind.
* `SoundNeverFails`: `Spec => []SoundParamsWork`.

`Reduced`: while the loop of `utils_mod_exp` runs its base is at most 254 and its result at
most 255, so a product is far below what an `int` holds. `Powers`: the result times the
base to the remaining exponent is, modulo `p`, the power the loop was called for
(`PowerModTurn` says that a turn keeps it), so that `B` and `K` are powers; and the power
of a power is the same with the two exponents swapped. A modulus of 1 is the case to watch:
the loop may then return an unreduced 1, but the server's `A` is 0 and the exchange ends.
For sound parameters, a prime that divides no factor divides no power (`Euclid`).

**Messages** (`MessageBufferProofs`), for bytes of any base, buffers, cipher blocks and
strings of any size, any fields of their types and any allocations that fail:

* `MessageTypesCorrect`: `Spec => []TypeOK`; `WritesFit`: `Spec => []CopyFits`.
* `ReadAsWritten`: `Spec => []ReadsBack`; `WholeOrReported`: `Spec => []HandedOnWhole`.

`BInv` has the types (the position is in the buffer) and that there is room when a call
copies. Reading back needs to know where each field lies. `LInv` says that, unless a write
has failed, there are offsets for the fields (`Offsets`: each begins where the one before it
ends) such that, while writing, the bytes before `position` are the fields' and the calls
left make up the rest (`Begun`, `Rest`); that cipher and buffer then hold every field
(`Holds`); and that the reader stands at the next field until a read has failed
(`AtNext`). `ReadsWhole` is `ReadsBack` with the strings exactly as long as the buffer, which
the invariant cannot do without: the reader's place behind one of them is still right. A growth keeps what was written, and each typed read gives back the number or
string whose bytes lie at its position (`FromBigOfBigEndian` and the lemmas after it).

**Numbers** (`NumberTheorems`). The induction theorems of TLAPS's library take an operator,
which its provers here do not instantiate. `Induction` is stated for a set instead, and
follows from the well-foundedness of strict inclusion on finite sets: were a number
missing, the sets of the numbers up to a missing one would have no smallest. `Recursion`
follows from it, and with both the recursive functions of the models (`Power`, `PowerMod`,
those of `FromBig` and `Theirs`, and of the library's `FlattenSeq`) are what their equations
say.

Only model-checked: liveness, and with it `ENABLED`, which are out of the prover's reach.
These are `HandshakeEnds`, `QueueDrains`, `LossIsNoticed` and `DestroyEnds` of the session,
`AddReturns` and `QueueEmpties` of the queue, `FramesHandedOn` and `LossStopsReader` of the
frames, and `SelectionLoads` of the home window. Every invariant and every action property
that a passing run checks is a theorem, and so are the two refinements.
That a `Windows` step is a step of `PopUps` or leaves it alone is only a lemma
(`StepOfPopUps`): it holds by the form of the composition.

## Not modelled

AES itself (cipher text is a length, and decrypts to the plain text; decryption with a
wrong key is not modelled); label texts, bold marks, times and layout; notification dialogs
(they are built on the collector thread, outside GTK's); log output; functions nothing
calls (`session_disconnect`, `session_client_ok`, `session_on_message`,
`message_queue_get`, `search_users_from_server`); code that is commented out
(`request_manager.c`). The results of a search may be anybody, so that an answer to an
earlier text is among what they may be, and is not told apart. The compiler's own
reordering of the plain shared variables is part of `StoreOrder` only as far as
`compute_shared_key` goes.

Some of what the models have is left without a property, because the repository promises
nothing about it or a property would restate a test of the code: the end of the client at
the first gesture after the connection is lost, when it dereferences the cleared
`session->service` (`UiNullService`); a click on a search result within half a second of
another, which lists the contact and does not select it (`ui_home.c:226`); the bytes behind
the plain text that a read takes for a field (`message.c:302`); pop-ups that outlive a logout, and two of a kind at once (`Impatient = TRUE`). `PROJECT.json`
lists every hazard, those no property covers with the reason.

Some is open because the models do not reach it. A string exactly as long as the handler's
buffer is accepted (`message.c:193`), although the comment at `message.c:176` promises that
it is refused, and its final zero goes behind the buffer (`message.c:203`): `ReadsBack` and
`HandedOnWhole` leave such strings out. The server pushes nothing before it has the key, so
the built-in key that `session_read_message` installs for an encrypted message without one
(`session.c:727-737`) is only reached by a variant. A send on the closed socket number
always fails. A callback is one step, so that a callback which reads `session->service`
twice while `clean_network` clears it is not told apart from one that finds it cleared. The
server answers a request in one step, so an answer is never overtaken by what happened after
it was computed. In `HomeWindow` the login that follows a logout is asked for at once; the
window is hidden until it is served, and its properties speak of the window when it is shown.

## Plan

Done: `SecureChannel`, `Session` with its properties, invariants and proofs, the refinement
among them; `FifoQueue`, `MessageQueue` with its proofs; `HomeWindow` with its previews, a
second login and its proofs; `Login`, `PopUps` and their composition `Windows` with its
proofs; `MessageBuffer`, `KeyExchange` and `Frames` with their proofs.

Every invariant the passing runs check is proved. Left for a further step, in this order:

1. Answers that report a failure, which only notify and are left out of `HomeWindow`.
2. The end of a session under an open home window: `HomeWindow` and `Session` composed over
   the loss of the connection, with the callbacks that then find no `session->service`.
