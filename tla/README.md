# Formal model of octos-app

TLA+ modules, TLC configurations and TLAPS proofs about the octos-app client:
a desktop and Android window onto the sessions of an octos server. The client
is a Rust program of three layers:

    UI thread    app/src/main.rs, app/src/app/*            widgets, App, CHAT_DATA, APP_STATE
                   |  commands (bounded channel)   ^  events (bounded channel), posted actions
    agent        app/src/backend/octos_ui.rs                prompt and session maps, reply tasks
                   |                               ^
    transport    crates/octos-app-transport                 one task on one runtime thread:
                                                            dial, live socket, backoff, cursors
    store        crates/octos-app-store                     reducers folded on the UI thread

`PROJECT.json` maps each definition to the lines it models. This file says what the
parts are, how the modules correspond to them, and what was found.

## Inventory

| part | state | operations | what is hard | what makes it correct |
|---|---|---|---|---|
| WebSocket transport (`ws`, `proto`, `lib`) | socket, pending requests by id, cursors, two bounded channels, backoff | dial, send, receive, reconnect, give up, disconnect | drops at any point, commands racing frames, full channels, several sessions on one socket | a reply reaches its own request; every caller hears; the cursor never passes what the store gets; giving up only when the budget is spent |
| Cursor store (`cursor`) | a map in memory, a file | set, delete, open | power loss between system calls, failed calls, two stores on one path | acknowledged changes survive; a file is whole; one session's change leaves the others alone |
| Approval cards (`store/approvals`, `app/approvals`, `main`, `octos_ui`) | card states, queue, drawn cards, answers and replies in flight | request, decide, cancel, click, answer, fail | a reply and a notification on different paths, replays, another client, a login replacing the agent | a card never shows a decision that was not made; the click answers the card that was shown |
| App window manager (`main`) | open apps, foreground, CHAT_DATA, the AMA's turn and the held message | submit, route, cancel, clear, open, switch, resume | turns of several apps and of the AMA stream at once and name only a prompt | a message is judged once and by its own answer; conversations stay with their apps; nothing is awaited in vain |
| Agent adapter (`octos_ui`) | session and prompt maps | create, resume, send, cancel, list, translate | errors that name no prompt, dropped commands | maps agree with the turns in flight |
| Store reducer (`state`, `turns`, `tasks`, `sessions`) | rows with two flags, turns, buffers, tools, tasks, cursors | one arm per notification | replays, late deltas, starts that were missed, lists that replace rows | terminal states are final; nothing is shown as running for ever; the dots tell the truth |
| Session list (`app/sessions`, `navigation`) | rows, current session, screen | hydrate, select, delete | optimistic deletes on threads, lists over two paths | a delete that the server refuses gives its row back |
| Login and keys (`login`, `keychain`, `main`) | server.json, bearers, cached identity, agent, threads | solo sign-in, scan, sign out, restart | threads that write bearer and configuration in two steps, either of which may fail | the agent has the credentials that are on the disk |
| Files, browser, viewers (`content_browser`, `viewers`, `files`) | filter, search, files, one open viewer, document cache, one error field | query, filter, open, step, close | one thread for each request, answers in any order | what is shown as loading is being loaded |
| Toasts (`toasts`, `main`) | bounded queue, strip, timer, mirrored connection | push, show, expire | a full queue while a toast is on the strip | no toast waits for something else to happen |
| A2App cards (`main`) | state by index in the conversation on the screen, snapshots | press, switch, resume, late history | the conversation is replaced under the indices | cards do not inherit each other's state |
| Stdio transport | a child process and the core of `proto.rs` | spawn, send, receive, kill | see "Not modelled" | as the WebSocket transport, without reconnects |
| Task output, OTP login, dock, producers, coding, capabilities, render crate, packaging | view state, or none | see "Not modelled" | - | - |

The parts meet in four places: the command channel (dropped when full), the event
channel (ephemeral events dropped when full, durable ones wait), posted UI actions
(approval answers, replies, lists, documents, sign-in results), and
`connect_transport`, which replaces the whole agent at a login.

## Modules

| module | models | extended by |
|---|---|---|
| `EventFeed` | what the path from cursor to store promises of durable events: a lossless queue, each folded once and in the order of receipt | - |
| `Transport` | transport task, its forwarder, the client's posting and draining, an external server with a ledger | `MCTransport`, `Transport_proofs`, `TransportFeed_proofs` |
| `CursorMap` | what the cursor store promises: a map changed in one step, or refused | - |
| `CursorFile` | the cursor file, one action for each system call | `MCCursorFile`, `CursorFile_proofs` |
| `ApprovalLedger` | what an approval card may ever say, given what the server ruled | - |
| `Approvals` | slice, pane, UI folding, reply tasks, an external server that decides | `MCApprovals`, `Approvals_proofs` |
| `MultiApp` | apps, screen, AMA routing, prompt map, an external server that runs turns and tells the sessions subscribed on the socket | `MCMultiApp`, `MultiApp_proofs` |
| `Store` | every arm of the reducer, rows, cursors, an external server with one ledger for each session | `MCStore`, `Store_proofs` |
| `Login` | server.json, bearers, sign-in threads, scans, sign-out, restart, the agent | `Shell` |
| `SessionList` | rows, screen, delete threads, lists over the agent and over REST | `Shell` |
| `Library` | content queries, viewers, albums, document threads | `Shell` |
| `Toasts` | queue, strip, timer, the connection as the store mirrors it | `Shell` |
| `Cards` | the state of cards by index, snapshots, resumes and late histories | `Shell` |
| `Shell` | the five above composed: which handler works for several of them | `MCShell`, `Shell_proofs` |

**Transport.** `pc` follows `run_state_machine`: dialling, backing off, live, done.
`TakeCommand` is `build_outbound`, with the request registered before it is sent;
`ReadResponse`, `ReadError`, `ReadDurable` and the other `Read...` actions are the branches
of `handle_inbound_text`. A durable event that finds the channel full is held and the read
loop waits (`FinishEmit`). `Forward` is the waker's task of `spawn_with_waker`, `Drain` the
UI thread. `Enqueue` drops a command when the channel is full. `Init` takes any stored
cursor up to `StoredMax`, since the cursors of an earlier process are read back from the
cursor store before the first dial. The select's bias toward commands is a guard of the
`Read...` actions. The server is external: it produces ledger entries, pushes them to the
subscribed sessions in order, and answers or refuses. A session is opened in two ways:
`open`, after its cursor or the seed (`create_session`), and `fresh`, without either
(`resume_session`, the only way in which the application comes back to a session); the
server then pushes what comes next and nothing of what went before.

**CursorFile.** `Begin`, `Create`, `Write`, `Sync`, `Rename`, `DirSync` and `Return`
are the calls of `write_map` and its callers in order. Each may fail, and `Crash`
may fall between any two. `maybe` is the set of contents that the disk may hold
after a power loss.

**Approvals.** The lower-case operators are the methods of `ApprovalsSlice`. A click
is two steps, because the pane resolves the item id against a list collected anew
(`Draw`, `Click`, `HandleClick`). Answers and replies go through `posted`, in the
order of `Cx::post_action`, and notifications through `events`. `ApprovalLedger` sees
only the cards and the server's rulings: a card turns to one of five faces, and the
server rules on each approval once.

**MultiApp.** `apps`, `foreground`, `chat` and `ama` are the fields of `App` and
CHAT_DATA. `TextDelta`, `TurnComplete` and `PromptError` are the arms of the agent
drain in `handle_event`, `RouteToApp` is `route_to_app`, `Select` and `Hydrated`
the sidebar's resume. A streamed text is the set of prompts whose pieces it holds.
The first word of the AMA's answer is data, since it decides the routing; pieces of an
answer may be dropped, and the first that arrives may be any. `live` holds the sessions
that are subscribed on the present socket: creating and picking a session adds it,
`SocketDrop` empties it, and the end of a turn reaches the client only while its session is
in it (`EndsUnheard` otherwise). `Refused` is an `RpcError` of any request but
`session/open`: it strikes any prompt of the agent's map, whose turn goes on.

**Store.** One operator for each arm of `apply_protocol`, and `Reduce` chooses among them.
`FoldDurable` folds the next notification of a session's ledger and moves its cursor; deltas
are not numbered and come as a step of their own. `LinkChanges` drops every subscription.
`SessionOpened` opens a session after its last cursor or an earlier one (`Resumes`), so that
any suffix of the ledger may be replayed, or without a cursor (`Joins`), so that what was
recorded meanwhile is passed over; `skipped` is history and keeps the turns whose end was.
The flags live on rows (`byId`), which list replies replace and deletes remove at any time.

**Shell and its parts.** Each part is a module with its own variables and an action for
each handler or thread step; `Shell` says what happens together. A login that ends
(`Scan`, `SoloReply`) reads the disk again, loses the old agent's requests and clears the
chat; `Pick` navigates, resumes and empties the screen; `Connection` moves the mirrored
state, toasts and asks for the list. `Relaunch` keeps the disk and the server only. In
`Login` the sign-in thread is three steps (answer, bearer, configuration), of which the
last may fail unnoticed. `SessionList` keeps two queues of lists, since REST threads
post theirs past the agent's. `Library` holds a request for each query and counts the
threads that fetch a document. `Cards` keeps of a card's state only the cards whose
buttons made it, which is what tells an own state from an inherited one.

## What the runs show

| run | instance | shows |
|---|---|---|
| `transport_requests` | two awaited requests, three other commands, two ids, channel depth 1, three dials | ids are not reused while pending; no caller is forgotten when the task ends; `Failed` only when the budget of this outage is spent |
| `transport_progress` | one session of one entry, both ways to open, depth 1, two dials, a fair scheduler | what the cursor records reaches the store in the end |
| `transport_resume` | two sessions of one entry each, both ways to open, depth 1, two dials | implements `EventFeed`: what the cursor records is folded once, in the order of receipt; neither session opens with the other's cursor |
| `transport_reopen` (violation) | one session, a network that is good for ever | nothing opens the session again after a reconnect |
| `cursor_single` | one store, two sessions, sequence numbers up to 2, any first content | implements `CursorMap`; acknowledged changes survive; never torn |
| `approvals_cards` | two cards, two clicks, another client, replays | implements `ApprovalLedger`; settled cards stay settled; answers are settled; quiet cards agree with the server |
| `approvals_losses` | the same with losses and a login | a decided card shows the recorded decision; only a login takes the answer from a waiting card |
| `approvals_wrong_card` (violation) | two cards | the queue moves between drawing and handling a click |
| `store` | two sessions, a turn with a tool call and a task in one, a turn in the other, three notifications | turns that ended stay ended; nothing streams on in a session that is caught up, unless its very end was passed over; a dot has work behind it and goes out with the last of it |
| `apps_routing` | two messages, one move or fault, four apps, an old session | a held message is always being judged, is routed as decided, and is settled while the end of its turn can be heard; prompts that are tracked are awaited; a busy screen has work |
| `apps_activation` (violation) | two messages, no move | activation takes a conversation from its app |
| `shell` | one server whose owner the client does not guess, two sign-in threads, two sessions, three files, a toast queue of two, two fresh or opened conversations with two cards, four stimuli | the agent has the newest credentials; a refused delete rolls back; a document that loads is fetched; toasts are timed; switching keeps conversations, and only a late history mixes cards |

**Bounds.** Two requests, sessions, cards, messages or threads are the least that can be
confused with each other; three dials are an outage, a recovery and another outage; depth 1
makes every channel full as soon as it holds something, and the code treats all depths
alike. Three notifications are a start, work and an end, or a turn and a replay of it behind
another; a ledger is replayed any number of times, so the histories of `store` are far
longer than its ledgers. In `shell` the bound is on what comes from outside: four stimuli
are two logins and two sessions, or a toast queue that overflows and moves on; threads,
answers and timers are not bounded by it. One entry for each of two sessions are two events
on one road, which full channels could swap or drop. In `apps_routing` a fault (a refused
request, a turn dropped by the full channel, a dropped socket) counts as a move; several of
them together are left to the proofs. `MaxLedger`, `StoredMax`, `MaxId`, `AttemptMax`,
`MaxSeq`, `MaxClicks`, `MaxSubmits`, `MaxMoves`, `MaxApps`, `MaxStimuli`, `MaxRequests`,
`MaxLists` and `MaxCards` bound what would grow without end. `WireCap` and `EventCap` bound
queues that the code does not. Deadlock is checked in the cursor run; the others may stop,
because the task ends or a bound is reached. Symmetry is used only in runs without liveness.

**Fairness.** The runtime polls a task that is ready and the UI thread drains its queues,
hence weak fairness of `Forward`, `Drain`, `FinishEmit`, `Wake` and of the approval queues.
`transport_reopen` adds a network on which a dial that stays possible succeeds (strong
fairness, since a dial is attempted again and again) and a server that answers: the
violation is then the client's. `apps_routing` assumes that the server ends
a turn which it runs; that the client hears of it is assumed only of a session that stays
subscribed on the socket (`Heard` is a guard of `Ends`, so a socket drop takes the fairness
away with the subscription). Users owe nothing anywhere. `store` and `shell` state safety
only and assume no fairness.

**Parameters that restrict a run.** `cursor_single` has a dependable disk (`ReadMayFail`,
`DirSyncMayFail` false): with either, acknowledged changes can be lost, as the code says for
directory syncs. What two stores and a read that fails do is described below. All transport
runs but `transport_reopen` have no seed, since the application never configures one, and
no stored cursor (`StoredMax` 0); the theorems cover both. The
approval runs take `Decision = Button`, decisions that the client can name.

**What a property leaves out.** `FailedDeleteRollsBack` counts a refused delete only
when a list is asked for and answered, and no list that is older than the session is on
its way: `hydrate_sessions` tries once. `LoadingIsBacked` excepts the one case in which
another document's answer wipes a failure away (`silenced`). `AgentIsCurrent` speaks
when no thread works and the last sign-in did not fail: after a failure the code keeps
the agent it has. `OnlyHistoryMixes` names the step that does mix cards.
`NothingStreamsOn` excepts the turns whose end an open without a cursor passed over: those do
run on, for ever, since nothing says it again. `HeldMessageIsSettled` ends where nobody can
settle: the AMA's turn was refused or never posted, or its session is not subscribed on the
socket (`Deaf`). `TrackedIsInFlight` and `BusyMeansWorking` compare with the agent's map of
prompts, which is what the client knows: a turn whose end the socket swallowed stays in the
map, and its app goes on waiting. `WaitingKeepsItsAnswer` excepts the login, which drops the
answers in flight. `RoutedAsDecided` speaks of answers of the AMA; an error that is blamed on
the AMA sends the held message to the weather app, as the code means errors of the AMA to.

## What is proved

Every theorem holds for all constants under the assumption named in its module.

* `Transport_proofs`: `TypeCorrect`; `GiveUpCorrect`, from an invariant that ties the
  summed delays to the number of attempts of this outage, and the fact that a first
  delay is zero; `RepliesMatch`, whose invariant says that ids on the wire and in the
  pending map are below the next id and that two replies never share one;
  `CallersAccounted`, from `OneSender`: the sender of an awaited oneshot is one command or
  one pending entry, never two, and a task that has ended has neither.
* `TransportFeed_proofs`: `CursorsTrackStream`, from `StreamEnds`. It writes what is between
  socket and store as one sequence (the channel of the UI, that of the forwarder, the event
  that waits for room) and says of each session that its last event there, or what was
  folded last, is the cursor; a step either moves an element along the sequence, takes the
  first, or appends one that the cursor moves to as well. `OpensFromOwnCursor`, from
  `OwnCursors`: one open at most is on its way for each session, a session that is being
  opened is subscribed at most by an open without cursor, from the end of its ledger, so that
  its cursor only grows, and what is on the socket lies beyond the cursor and within what
  the server has sent. `TransportImplementsFeed` needs no restriction of
  the client (`FeedStep`): on the road from cursor to store each step appends at the end,
  takes the first, or leaves the sequence as it is, whichever way a session was opened. What
  an open without a cursor leaves out is never on that road (see below).
* `CursorFile_proofs`: `TypeCorrect`; `NeverTornCorrect`, from "what is renamed has been
  synced", for any number of stores; `AckedSurvives`, `FileHoldsAcked` and
  `Implements` for one store on a dependable disk. Their invariant (`OneWriter`) relates the
  four things that may differ in the middle of a call: the map in memory, the file, what a
  power loss may leave, and the job. The refinement maps each step to `Propose`, `Accept`,
  `Refuse` or a stutter.
* `Approvals_proofs`: `TypeCorrect`; `SliceCorrect`, from lemmas about removing from the
  queue; `SettledCardsStay`, since no operation puts a card that is there into the queue;
  `WaitingCardsAreAnswered`, since every step that takes an answer from one place puts it or
  its failure into another (`AnswersStay`). `DecisionsAgree` needs `Truth`: cards,
  notifications, replies and posted actions all repeat what the server holds, because a
  decision never changes (`DecisionsAreKept`). `CardsImplementLedger` adds `Grounded`: what is
  on its way belongs to a card that is there, and an error comes from a cancelled approval
  unless something may be lost. Both take decisions that the client can name (`Decision =
  Button`); without that the cards do say what was not ruled (see below).
  `QuietCardsAreRight` is for runs in which nothing is lost and nobody logs in again, as its
  run is; its invariant `CardsFollow` says how each card will come to agree with the server:
  a card that is missing is announced before anything else is said of it, a fresh one has
  no answer under way and the ruling on its approval still comes, a waiting one has an answer
  under way, and only a cancelled one has failed.
* `MultiApp_proofs`: `TypeCorrect`, `HeldCorrect`, `InFlightCorrect`, `BusyCorrect`,
  `RoutedCorrect`. None of these is inductive. `PlacesOK` keeps the apps of the domains
  at their places, so that `route_to_app` finds one app at most; `TrackedIsOwn` says that an
  app tracks a prompt sent for it and the AMA one of its own, so that the end of one
  turn clears nobody else's prompt; `AskedOnce` says that each message is put to the AMA
  once, that the held one has no app yet, and that what the AMA has said so far is what
  it says of that message. `Finishes` gives every way a turn may end one shape, and each
  of the other steps only keeps or drops what is tracked (`PromptStep`); drops of the socket
  and ends that nobody hears change nothing the client sees (`Silent`).
* `Store_proofs`: `TypeCorrect`, `EndedCorrect`, `ActiveCorrect`, `DarkCorrect`, and
  `NothingStreamsCorrect`, whose invariant `StreamInv` says that ledgers are in order (an
  end has its start before it, and a turn ends once), that no position or cursor is beyond
  its ledger, that a turn which is still open in the store has its end ahead of the cursor
  or among those passed over, and that a lit row is lit by a turn whose end is still to be
  folded. A replay moves the position back and leaves all four true; an open without a
  cursor moves it ahead and puts the ends between into `skipped`.
* `Shell_proofs`: each part is proved from its own steps and `Shell` is shown to make no
  others. `LoginCorrect` proves `AgentIsCurrent` of `LoginSpec`, and `ShellSignsIn` that the
  application implements `LoginSpec`, so that `AgentCorrect` follows. `RollBackCorrect` rests
  on an invariant about the lists in flight: a refused session is in the rows or in a
  later list, and every list on its way has it. `LoadingCorrect`, `ToastsCorrect`,
  `SwitchCorrect`, `MixesCorrect` and `TypeCorrect` are the rest; `MixesCorrect` needs
  that what is saved of an open app was once on the screen.

Every invariant and action property of a passing run is stated by a theorem. Only
model-checked: liveness (`EveryCursorIsApplied`, `AnswerSettles`, `HeldMessageIsSettled`),
which the prover does not reach, and the properties that the code violates, for which
there is nothing to prove. No recursive definition computes anything here, so no induction
over data is missing.

## Where code and documents disagree

Shown by a run: reconnects do not reopen sessions (`transport_reopen`); the click on the
wrong card (`approvals_wrong_card`); the conversation that leaves its app
(`apps_activation`).

Seen while modelling, without a run of their own.

Transport and cursors:

* `octos_ui.rs:580` opens a session that the user picks again without its cursor
  (`proto.rs:116`; `03-PROTOCOL-CONTRACT.md:109`: `session/open { after: cursor }`). A
  turn start is folded, the socket drops, the end is recorded, the session is picked again:
  the server pushes what comes next, the end is never folded, and the turn is shown as
  running. `session/hydrate` brings back the messages of the chat, not the turns, tools and
  tasks of the store. The open with a cursor never follows a drop, because
  `create_session` makes a new key each time.
* `cursor/mod.rs:329` reads, changes and writes the file under a mutex of its own store. At a
  login the new agent is built before the old one is dropped (`main.rs:3578`), both on the
  same file: the later rename undoes the other's change (`cursor/mod.rs:364`:
  "advancing one session's cursor must never touch another's").
* `cursor/mod.rs:209` treats any read error as an empty map, which the next save writes: the
  cursors of all other sessions are gone.
* `ws/mod.rs:171` keeps pending requests across a reconnect, so a request in flight at
  a drop never fails while the task retries (`app/STATUS.md:424` expects that it does).
* `proto.rs:386` waits for room in the event channel on the read loop
  (transport `STATUS.md:41`: inbound frames never block).
* `proto.rs:376` stores a cursor on receipt (`03-PROTOCOL-CONTRACT.md:107`: the last applied).
* `cursor/mod.rs:265` promises no stray temporary file; a crash between create and
  rename leaves one.

Approvals:

* `app/approvals.rs:364` hides the buttons of a failed card (`app/STATUS.md:404`: they are
  enabled again).
* `main.rs:3578` drops answers in flight at a login (`W05-approvals-diff.md:118`: retry).
* `main.rs:5524` shows the user's own decision for a recorded one it cannot name.

Apps, chat and cards:

* `main.rs:6093` says that a background reply hydrates on switch; `switch_to_app` restores
  a snapshot that lacks it.
* `main.rs:6007` says that the AMA's stream is never rendered; the answer to a message
  that was overtaken is an orphan and goes to the screen (`main.rs:6009`).
* `octos_ui.rs:274` blames an error without context on an arbitrary prompt, as its
  comment says: when that is the AMA's, the held message goes to the weather app
  whatever the AMA was about to say.
* `octos_ui.rs:189` drops a turn whose prompt is registered, and after a dropped socket
  (`ws/mod.rs:174`) the end of a running turn is never heard: in both cases the app, or the
  AMA with a held message, waits until an error is blamed on it, or a clear or a login
  comes.
* `main.rs:2531` says that CHAT_GENERATION moves whenever CHAT_DATA is replaced; picking a
  session, its history and `clear_chat` do not move it, so that `ChatList` may keep the
  render of a card whose widget is gone.
* `main.rs:5337` replaces the messages of a resumed session but not the states of cards,
  which the cards at the same indices then inherit.
* `main.rs:4024` and `:6169` overwrite `settle_timer` without stopping the old interval.

Store and session list:

* `state.rs:34` lists what does not survive a reconnect; nothing clears it.
* `store/sessions.rs:79` says that a row is lit while a tool or task runs; a list reply
  replaces the rows by ones with their flags off (`DarkMeansDone` excepts that step).
* `app/sessions.rs:187` hydrates again "so the optimistic remove rolls back": one attempt
  over the REST list, which `main.rs:3564` calls retired. A list that was taken before a
  delete brings the row back.
* `app/sessions.rs:258` looks the row of a click up in the list at the time of the event,
  as the approvals pane does: after a list reply, one session's delete button deletes
  another.
* A delete clears `current_session` and leaves the screen where it is, although
  `navigation.rs` keeps the two in lockstep otherwise.
* The rows of the old server stay after `connect_transport`, and a REST list that was
  asked for with the old credentials may still arrive.

Login:

* `main.rs:4765` deletes the bearer of the cached identity, which a scanned code does not
  update: the wrong one is deleted, and the agent keeps its own if the sign-in that
  follows fails.
* `main.rs:4980` ignores that server.json could not be written: the sign-in succeeds and
  the agent has no bearer. A late sign-in thread overwrites a scanned server.json.

Browser, viewers, toasts:

* `content_browser.rs:199` clears the files "so a re-query produces a clean view"; an
  answer to an older query replaces the files of the newer filter.
* Clearing the search leaves the rows of the search, and the PDF filter is always empty.
* `fetch_markdown` does not look at the HTTP status: an error page is cached as the body.
* `main.rs:5694` shares one error field among documents: the answer of one wipes away the
  failure of another, which then shows as loading for ever, and a failure of a document
  that was closed is shown for the one that is open.
* `main.rs:5939` pops the toast that was shown; when a full queue evicted that one, the
  timer drops one that was never shown. "Reconnected" is never said, because dialling
  comes in between and the toast says "Connected".

## Not modelled

* The e-mail code login: no handler shows its screen (`main.rs:4653` to `:4765`), and nothing
  dispatches the reducer of `auth.rs`.
* Task output: nothing posts `SelectTask`. The coding and producers screens fetch and
  show, and share no state with the rest; the task dock draws what the reducer holds.
* The stdio transport, which Android uses when the bundled `liboctos.so` is there
  (`main.rs:3730`, `octos_ui.rs:130`). Its requests, cursors and events go through `proto.rs`,
  as modelled in `Transport`; its own loop writes to and reads from the pipes of a child
  process and ends with it, so that there are no dials, no backoff and no second socket.
* Capabilities (a pure parse), the render crate (a placeholder), packaging.
* Drawing, Mermaid, thinking text, the rewriting and filtering of a card's text: `MultiApp`
  takes the filter's verdict as a choice.
* A key store that cannot be read, the model settings, the name under which an album shows a
  file whose images are gone.
* Payloads, labels, titles, scopes of approvals, times and the file format of the cursors
  are abstracted where they decide nothing.

## Plan

1. Done: `Transport`, `CursorFile`, `Approvals`, `MultiApp`; `Store`; `Login`, `SessionList`,
   `Library`, `Toasts` and `Cards`, composed in `Shell`; the refinements of `EventFeed`,
   `CursorMap`, `ApprovalLedger` and `LoginSpec`; the proofs above.
2. `MultiApp`: an abstract desk on which each message lies once (put, held, judged, placed),
   and the refinement from `AskedOnce` and `TrackedIsOwn`.
3. `Store`: an abstract row for each session, and the refinement from `StreamInv`.
4. `Transport` with a parameter for the stdio task: one connection, which is never made again.
