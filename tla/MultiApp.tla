------------------------------ MODULE MultiApp -------------------------------
(***************************************************************************)
(* The window manager of main.rs: one app per domain, of which one is in   *)
(* the foreground and owns the screen (CHAT_DATA), and a routing session   *)
(* (the AMA) that classifies every message and so decides which app is     *)
(* activated.  Events carry a prompt, not a session, so the app that an    *)
(* event belongs to is found from the prompt that each app tracks.         *)
(*                                                                         *)
(* Prompts, sessions and messages are numbered.  A text is abstracted to   *)
(* the prompts that its pieces answer.  The server is external: it runs    *)
(* the turns and may end one at any time, with a reply or with an error.   *)
(* It tells only the sessions that are subscribed on this socket, and a    *)
(* dropped socket leaves none subscribed until the user picks one again.   *)
(***************************************************************************)
EXTENDS Naturals, Sequences

CONSTANTS
  Answers,        \* words with which a reply of the AMA may begin
  OldSessions,    \* sessions of earlier launches, listed by the server
  MaxSubmits,     \* bound: messages submitted
  MaxMoves,       \* bound: what else the user does, and what goes wrong
  MaxApps         \* bound: open apps

Domains == <<"weather", "stock", "news">>
NoDomain == "generic"   \* domain None: an app opened by the user
Reason == "because"     \* what follows the first word of an answer
NoText == ""
None == 0               \* no prompt, no held message

ASSUME MultiAppAssumption ==
  /\ Answers \subseteq STRING \ {NoText, NoDomain}
  /\ OldSessions \cap Nat = {}
  /\ MaxSubmits \in Nat /\ MaxMoves \in Nat
  /\ MaxApps \in Nat /\ MaxApps >= Len(Domains)

VARIABLES
  \* the App
  apps,         \* the open apps
  foreground,   \* index of the app on the screen
  chat,         \* CHAT_DATA: what the screen shows
  ama,          \* ama_session, ama_prompt, ama_text and pending_intent
  hydrates,     \* sessions whose history was asked for
  \* the agent
  prompts,      \* prompt_ids: the prompts of whose end nobody has heard
  nextSession,  \* the next session to be created
  \* the server, and what happened
  turns,        \* the prompts whose turn the server runs
  live,         \* the sessions that are subscribed on this socket
  sent,         \* every prompt, in order: the session, the message and the app
  verdict,      \* for each message, the word with which the AMA's answer arrived
  moves         \* what else has happened: clears, switches, ... and faults

appVars == <<apps, foreground, chat, ama, hydrates>>
vars == <<appVars, prompts, nextSession, turns, live, sent, verdict, moves>>

Session == (1..(nextSession - 1)) \cup OldSessions
Prompt == DOMAIN sent

(***************************************************************************)
(* Records and messages.                                                   *)
(***************************************************************************)
AppRecord(s, d) ==
  [session |-> s, domain |-> d, prompt |-> None, updates |-> FALSE,
   saved |-> <<>>]

Says(role, of) == [role |-> role, of |-> of]
EmptyScreen == [messages |-> <<>>, streaming |-> {}, busy |-> FALSE]

\* app_of_prompt: the apps that track p; the prompt of none is an orphan.
Owners(p) == {i \in DOMAIN apps : apps[i].prompt = p}
InBackground(p) == Owners(p) # {} /\ foreground \notin Owners(p)

\* The conversation of app i: on the screen, or saved in its record.
Conversation(i) == IF i = foreground THEN chat.messages ELSE apps[i].saved

(***************************************************************************)
(* clear_chat: an empty screen and four fresh sessions, one per domain and *)
(* one for the AMA.  The prompt and the text of the AMA stay as they are.  *)
(***************************************************************************)
FreshApps(s) == [i \in 1..Len(Domains) |-> AppRecord(s + i - 1, Domains[i])]

Init ==
  /\ apps = FreshApps(1) /\ foreground = 1 /\ chat = EmptyScreen
  /\ ama = [session |-> Len(Domains) + 1, prompt |-> None, text |-> NoText,
            intent |-> None]
  /\ nextSession = Len(Domains) + 2
  /\ hydrates = {} /\ prompts = {} /\ turns = {} /\ live = 1..(Len(Domains) + 1)
  /\ sent = <<>> /\ verdict = <<>> /\ moves = 0

Move == moves < MaxMoves /\ moves' = moves + 1
Fresh == nextSession..(nextSession + Len(Domains))

\* Mutant: the held message survives the session that judges it.
ClearKeepsHeld ==
  /\ Move
  /\ apps' = FreshApps(nextSession) /\ foreground' = 1 /\ chat' = EmptyScreen
  /\ ama' = [ama EXCEPT !.session = nextSession + Len(Domains)]
  /\ nextSession' = nextSession + Len(Domains) + 1
  /\ UNCHANGED <<sent, verdict>>

ClearChat ==
  /\ Move
  /\ apps' = FreshApps(nextSession) /\ foreground' = 1 /\ chat' = EmptyScreen
  /\ ama' = [ama EXCEPT !.session = nextSession + Len(Domains), !.intent = None]
  /\ nextSession' = nextSession + Len(Domains) + 1
  /\ UNCHANGED <<sent, verdict>>

\* The Clear and the new-chat buttons: the agent keeps running.
Clear == ClearChat /\ live' = live \cup Fresh /\ UNCHANGED <<hydrates, prompts, turns>>

\* Mutant: the replaced agent's transport still delivers.
ReconnectKeepsTurns ==
  ClearChat /\ live' = Fresh /\ hydrates' = {} /\ prompts' = {} /\ UNCHANGED turns

\* A login or a scanned configuration: connect_transport replaces the agent,
\* whose turns nobody hears of again, and clear_chat follows.
Reconnect ==
  ClearChat /\ live' = Fresh /\ hydrates' = {} /\ prompts' = {} /\ turns' = {}

(***************************************************************************)
(* send_prompt: the prompt is tracked before the command is posted, and    *)
(* the command is dropped when the channel is full or closed.              *)
(***************************************************************************)
Now == [prompts |-> prompts, turns |-> turns, moves |-> moves]
Ended(p) == [Now EXCEPT !.prompts = @ \ {p}, !.turns = @ \ {p}]

\* The agent's map and the server become those of t.
Become(t) == prompts' = t.prompts /\ turns' = t.turns /\ moves' = t.moves

SendPrompt(p, s, k, i, t) ==
  /\ sent' = Append(sent, [session |-> s, intent |-> k, app |-> i])
  /\ LET tracked == [t EXCEPT !.prompts = @ \cup {p}]
     IN  \/ Become([tracked EXCEPT !.turns = @ \cup {p}])
         \/ t.moves < MaxMoves /\ Become([tracked EXCEPT !.moves = @ + 1])

\* Mutant: the text of an earlier answer is not cleared.
SubmitKeepsText ==
  LET k == Len(verdict) + 1
      p == Len(sent) + 1
  IN  /\ k <= MaxSubmits
      /\ verdict' = Append(verdict, NoText)
      /\ chat' = [messages |-> Append(chat.messages, Says("user", {k})),
                  streaming |-> {}, busy |-> TRUE]
      /\ ama' = [ama EXCEPT !.prompt = p, !.intent = k]
      /\ SendPrompt(p, ama.session, k, None, Now)
      /\ UNCHANGED <<apps, foreground, hydrates, nextSession, live>>

\* submit_prompt: the message goes to the screen and to the AMA, and is held
\* until the AMA has classified it.
Submit ==
  LET k == Len(verdict) + 1
      p == Len(sent) + 1
  IN  /\ k <= MaxSubmits
      /\ verdict' = Append(verdict, NoText)
      /\ chat' = [messages |-> Append(chat.messages, Says("user", {k})),
                  streaming |-> {}, busy |-> TRUE]
      /\ ama' = [ama EXCEPT !.prompt = p, !.text = NoText, !.intent = k]
      /\ SendPrompt(p, ama.session, k, None, Now)
      /\ UNCHANGED <<apps, foreground, hydrates, nextSession, live>>

\* cancel_request: the server is asked to stop and may do so at any time.
Cancel ==
  /\ Move
  /\ apps[foreground].prompt # None
  /\ apps' = [apps EXCEPT ![foreground].prompt = None]
  /\ chat' = [messages |->
                IF chat.streaming = {} THEN chat.messages
                ELSE Append(chat.messages, Says("assistant", chat.streaming)),
              streaming |-> {}, busy |-> FALSE]
  /\ UNCHANGED <<foreground, ama, hydrates, prompts, nextSession, turns, live, sent,
                 verdict>>

(***************************************************************************)
(* Switching: snapshot_into saves the outgoing conversation, restore_from  *)
(* puts the incoming one on the screen, and a new app starts with an empty *)
(* screen.                                                                 *)
(***************************************************************************)
Snapshot(i) == [apps EXCEPT ![i].saved = chat.messages]

OpenNewApp ==
  /\ Move
  /\ Len(apps) < MaxApps
  /\ apps' = Append(Snapshot(foreground), AppRecord(nextSession, NoDomain))
  /\ foreground' = Len(apps) + 1
  /\ chat' = EmptyScreen
  /\ nextSession' = nextSession + 1
  /\ live' = live \cup {nextSession}
  /\ UNCHANGED <<ama, hydrates, prompts, turns, sent, verdict>>

\* The composer's button goes to the next app in turn.
SwitchToApp ==
  LET i == (foreground % Len(apps)) + 1
  IN  /\ Move
      /\ apps' = [Snapshot(foreground) EXCEPT ![i].updates = FALSE]
      /\ foreground' = i
      /\ chat' = [EmptyScreen EXCEPT !.messages = apps[i].saved]
      /\ UNCHANGED <<ama, hydrates, prompts, nextSession, turns, live, sent, verdict>>

(***************************************************************************)
(* The sidebar: a session of the server is subscribed (resume_session) and *)
(* becomes the foreground app (focus_session), with an empty screen until  *)
(* its history arrives.                                                    *)
(***************************************************************************)
Select(s) ==
  LET open == {i \in DOMAIN apps : apps[i].session = s}
      all  == IF open # {} THEN apps ELSE Append(apps, AppRecord(s, NoDomain))
      i    == IF open # {} THEN CHOOSE j \in open : TRUE ELSE Len(apps) + 1
  IN  /\ Move /\ Len(all) <= MaxApps
      /\ apps' = [all EXCEPT ![i].updates = FALSE]
      /\ foreground' = i
      /\ chat' = EmptyScreen
      /\ hydrates' = hydrates \cup {s}
      /\ live' = live \cup {s}
      /\ UNCHANGED <<ama, prompts, nextSession, turns, sent, verdict>>

\* The history of s arrives; it is shown if s is still on the screen.
Hydrated(s) ==
  /\ s \in hydrates
  /\ hydrates' = hydrates \ {s}
  /\ chat' = IF apps[foreground].session = s
             THEN [chat EXCEPT !.messages = <<Says("history", {})>>, !.busy = FALSE]
             ELSE chat
  /\ UNCHANGED <<apps, foreground, ama, prompts, nextSession, turns, live, sent, verdict,
                 moves>>

(***************************************************************************)
(* route_to_app: activate the app of domain d for the held message.  The   *)
(* screen is left as it is.  The agent has translated the event into t.    *)
(***************************************************************************)
AppsOf(d) == {i \in DOMAIN apps : apps[i].domain = d}

RouteToApp(d, t) ==
  LET i == CHOOSE j \in AppsOf(d) : \A k \in AppsOf(d) : j <= k
      p == Len(sent) + 1
  IN  /\ ama' = [ama EXCEPT !.prompt = None, !.intent = None]
      /\ \/ /\ ama.intent # None /\ AppsOf(d) # {}
            /\ foreground' = i
            /\ apps' = [apps EXCEPT ![i].prompt = p]
            /\ SendPrompt(p, apps[i].session, ama.intent, i, t)
            /\ UNCHANGED chat
         \/ /\ ama.intent # None /\ AppsOf(d) = {}
            /\ chat' = [chat EXCEPT !.busy = FALSE]
            /\ Become(t)
            /\ UNCHANGED <<apps, foreground, sent>>
         \/ /\ ama.intent = None
            /\ Become(t)
            /\ UNCHANGED <<apps, foreground, chat, sent>>

\* Mutant: the end of a background turn sets the badge only.
BadgeOnly(p, prompt) ==
  apps' = [i \in DOMAIN apps |->
             IF i \in Owners(p) THEN [apps[i] EXCEPT !.updates = TRUE] ELSE apps[i]]

\* The foreground guard: an event of a background app's turn only sets the
\* badge, and its end the prompt; the screen belongs to somebody else.
Badge(p, prompt) ==
  apps' = [i \in DOMAIN apps |->
             IF i \in Owners(p)
             THEN [apps[i] EXCEPT !.updates = TRUE, !.prompt = prompt]
             ELSE apps[i]]

(***************************************************************************)
(* The agent's events.  The answer of the AMA begins with a word of        *)
(* Answers and goes on with a reason.  A piece that finds the event        *)
(* channel full is dropped (try_emit) and changes nothing here, so the     *)
(* first piece that arrives may be any.                                    *)
(***************************************************************************)
Heard(p) == sent[p].session \in live

Undecided(p) == sent[p].app = None /\ verdict[sent[p].intent] = NoText
Word(p) == IF Undecided(p) THEN Answers \cup {Reason} ELSE {Reason}

TextDelta(p) ==
  /\ p \in turns /\ Heard(p)
  /\ \E w \in Word(p) :
       /\ verdict' = IF Undecided(p)
                     THEN [verdict EXCEPT ![sent[p].intent] = w] ELSE verdict
       /\ \/ /\ p = ama.prompt
             /\ ama' = [ama EXCEPT !.text = IF @ = NoText THEN w ELSE @]
             /\ UNCHANGED <<apps, chat>>
          \/ /\ p # ama.prompt /\ InBackground(p)
             /\ Badge(p, p)
             /\ UNCHANGED <<ama, chat>>
          \/ /\ p # ama.prompt /\ ~InBackground(p)
             /\ chat' = [chat EXCEPT !.streaming = @ \cup {p}]
             /\ UNCHANGED <<ama, apps>>
  /\ UNCHANGED <<foreground, hydrates, prompts, nextSession, turns, live, sent, moves>>

\* Mutant: the octopus swims on.
EndsStillBusy(added, streaming) ==
  /\ chat' = [chat EXCEPT !.messages = @ \o added, !.streaming = streaming]
  /\ apps' = [apps EXCEPT ![foreground].prompt = None]

\* The end of a turn on the screen: "added" are the messages that it leaves.
EndsOnScreen(added, streaming) ==
  /\ chat' = [messages |-> chat.messages \o added, streaming |-> streaming,
              busy |-> FALSE]
  /\ apps' = [apps EXCEPT ![foreground].prompt = None]

\* A reply that is not safe to store is discarded.
TurnComplete(p) ==
  /\ p \in turns /\ Heard(p)
  /\ \/ /\ p = ama.prompt
        /\ RouteToApp(ama.text, Ended(p))
     \/ /\ p # ama.prompt
        /\ \/ InBackground(p) /\ Badge(p, None) /\ UNCHANGED chat
           \/ /\ ~InBackground(p)
              /\ \E added \in {<<>>, <<Says("assistant", chat.streaming)>>} :
                   /\ chat.streaming = {} => added = <<>>
                   /\ EndsOnScreen(added, {})
        /\ Become(Ended(p))
        /\ UNCHANGED <<foreground, ama, sent>>
  /\ UNCHANGED <<hydrates, nextSession, live, verdict>>

\* Mutant: an error of the AMA strands the held message.
PromptErrorStrands(p, t) ==
  /\ \/ /\ p = ama.prompt
        /\ ama' = [ama EXCEPT !.prompt = None]
        /\ UNCHANGED <<apps, foreground, chat, sent>>
     \/ /\ p # ama.prompt
        /\ \/ InBackground(p) /\ Badge(p, None) /\ UNCHANGED chat
           \/ /\ ~InBackground(p)
              /\ EndsOnScreen(<<Says("error", {p})>>, chat.streaming)
        /\ UNCHANGED <<foreground, ama, sent>>
  /\ Become(t)
  /\ UNCHANGED <<hydrates, nextSession, live, verdict>>

\* An error: the AMA's falls back to the weather app.
PromptError(p, t) ==
  /\ \/ /\ p = ama.prompt
        /\ RouteToApp("weather", t)
     \/ /\ p # ama.prompt
        /\ \/ InBackground(p) /\ Badge(p, None) /\ UNCHANGED chat
           \/ /\ ~InBackground(p)
              /\ EndsOnScreen(<<Says("error", {p})>>, chat.streaming)
        /\ Become(t)
        /\ UNCHANGED <<foreground, ama, sent>>
  /\ UNCHANGED <<hydrates, nextSession, live, verdict>>

TurnError(p) == p \in turns /\ Heard(p) /\ PromptError(p, Ended(p))

\* The server refuses a request: a turn/start, whose turn r then does not run, or
\* any other but session/open.  The RpcError is blamed on an arbitrary prompt p of
\* the agent's map, which stays there and whose turn goes on.
Refused(r, p) ==
  /\ moves < MaxMoves /\ r \in turns \cup {None} /\ p \in prompts
  /\ PromptError(p, [Now EXCEPT !.turns = @ \ {r}, !.moves = @ + 1])

\* The socket drops and is dialled again: run_live opens no session on it, and what
\* the server says to a session that is not subscribed is not heard.
SocketDrop ==
  /\ Move
  /\ live' = {}
  /\ UNCHANGED <<appVars, prompts, nextSession, turns, sent, verdict>>

EndsUnheard(p) ==
  /\ p \in turns /\ ~Heard(p)
  /\ turns' = turns \ {p}
  /\ UNCHANGED <<appVars, prompts, nextSession, live, sent, verdict, moves>>

-----------------------------------------------------------------------------
Ends(p) == TurnComplete(p) \/ TurnError(p)

Next ==
  \/ Submit \/ Cancel \/ Clear \/ Reconnect
  \/ OpenNewApp \/ SwitchToApp \/ SocketDrop
  \/ \E s \in Session : Select(s) \/ Hydrated(s)
  \/ \E p \in Prompt : TextDelta(p) \/ Ends(p) \/ EndsUnheard(p)
  \/ \E r \in Prompt \cup {None}, p \in Prompt : Refused(r, p)

Spec == Init /\ [][Next]_vars

\* The server ends a turn that it runs, and the client hears of it as long as the
\* session stays subscribed; a user owes nothing, and a socket may stay silent.
MaxPrompts == 2 * MaxSubmits
FairSpec == Spec /\ \A p \in 1..MaxPrompts : WF_vars(Ends(p) /\ p \in Prompt)

-----------------------------------------------------------------------------
(***************************************************************************)
(* Properties.                                                             *)
(***************************************************************************)
Message == [role : {"user"}, of : SUBSET (1..MaxSubmits)]
           \cup [role : {"assistant", "error", "history"}, of : SUBSET Prompt]
App == [session : Session, domain : {"weather", "stock", "news", NoDomain},
        prompt : Prompt \cup {None}, updates : BOOLEAN, saved : Seq(Message)]

\* Every variable has its type, and the screen belongs to an open app.
TypeOK ==
  /\ nextSession \in Nat /\ moves \in Nat
  /\ sent \in Seq([session : Session, intent : 1..Len(verdict), app : 0..MaxApps])
  /\ verdict \in Seq(Answers \cup {Reason, NoText})
  /\ apps \in Seq(App) /\ foreground \in DOMAIN apps
  /\ chat \in [messages : Seq(Message), streaming : SUBSET Prompt, busy : BOOLEAN]
  /\ ama \in [session : Session, prompt : Prompt \cup {None},
              text : Answers \cup {Reason, NoText}, intent : 0..Len(verdict)]
  /\ hydrates \subseteq Session /\ live \subseteq Session
  /\ prompts \subseteq Prompt /\ turns \subseteq prompts

\* A held message is always being classified: ama_prompt is a prompt of the AMA for
\* that message, and one that the agent can still report on.  The message and the
\* prompt are two fields that six handlers set and clear.
HeldMessageIsJudged ==
  ama.intent # None =>
    /\ ama.prompt \in prompts
    /\ sent[ama.prompt].app = None /\ sent[ama.prompt].intent = ama.intent

\* When the AMA's turn is complete, the app that is activated is the one that the
\* AMA's answer to this very message names, as far as it arrived, and no app has had
\* the message before: neither a late answer to a message that was overtaken, nor
\* text left over, nor an error blamed on the AMA earlier makes it go twice or astray.
RoutedAsDecided ==
  [][\A p \in Prompt : p = ama.prompt /\ TurnComplete(p) /\ sent' # sent =>
       LET new == sent'[Len(sent')]
       IN  /\ new.intent = sent[p].intent
           /\ apps[new.app].domain = verdict[new.intent]
           /\ \A q \in Prompt : sent[q].intent = new.intent => sent[q].app = None]_vars

\* An app waits only for a prompt whose end the client has not heard of, so that
\* every end that arrives sets its app free: however turns end, are cancelled,
\* overtaken, refused or cleared.  (An end that a dropped socket swallows frees
\* nobody: then the prompt stays in the agent's map as well.)
TrackedIsInFlight ==
  \A i \in DOMAIN apps : apps[i].prompt \in prompts \cup {None}

\* The swimming octopus means that the client still expects an answer for the
\* screen's app, for the held message, or for a prompt that no app tracks.
BusyMeansWorking ==
  chat.busy =>
    \E p \in prompts : \/ p = ama.prompt /\ ama.intent # None
                       \/ p # ama.prompt /\ ~InBackground(p)

\* A message is not held for ever, unless its turn never runs or its end is not heard:
\* the turn was refused or dropped, or its session is no longer subscribed.
Deaf(p) == p \in prompts /\ ~(p \in turns /\ Heard(p))

HeldMessageIsSettled ==
  \A k \in 1..MaxSubmits : ama.intent = k ~> (ama.intent # k \/ Deaf(ama.prompt))

\* The replies of its own that an app has shown are kept when another app is activated
\* (main.rs, snapshot_into: "call before leaving app i in the foreground so
\* switching back restores it").  The code does not keep them.
Replies(i) ==
  {n \in DOMAIN Conversation(i) :
     /\ Conversation(i)[n].role = "assistant"
     /\ \A p \in Conversation(i)[n].of : sent[p].app = i}

RoutingKeepsReplies ==
  [][\A p \in Prompt : p = ama.prompt /\ Ends(p) =>
       \A i \in DOMAIN apps : \A n \in Replies(i) :
         n \in Replies(i)' /\ Conversation(i)'[n] = Conversation(i)[n]]_vars
=============================================================================
