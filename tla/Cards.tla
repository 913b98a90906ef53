-------------------------------- MODULE Cards --------------------------------
(***************************************************************************)
(* The generated cards and their state (main.rs).  A card's state is kept  *)
(* under its index in the conversation on the screen, and travels with     *)
(* that conversation when the user switches apps.                          *)
(*                                                                         *)
(* A card is known by its conversation and its number; of a state, only    *)
(* the cards whose buttons made it are kept.  Rewriting of a card's text   *)
(* is left out, and so are the messages without a card.                    *)
(***************************************************************************)
EXTENDS Naturals, Sequences

CONSTANTS
  Conversation,   \* sessions that apps have, or may have
  Boot, First,    \* those of clear_chat, and the one in the foreground
  MaxCards        \* bound: cards of a conversation, and on the screen

ASSUME CardsAssumption ==
  First \in Boot /\ Boot \subseteq Conversation /\ MaxCards \in Nat \ {0}

VARIABLES
  fg, open,           \* the app in the foreground, the open apps
  messages, values,   \* CHAT_DATA: messages and a2app_state
  saved,              \* saved_messages and saved_a2app of each app
  history,            \* how many cards the server has of each conversation
  asks                \* session/hydrate under way: for what, and the cards there were

surface  == <<messages, values>>
cardVars == <<fg, open, surface, saved, history, asks>>

Card == Conversation \X (1..MaxCards)
Blank == [i \in 1..MaxCards |-> {}]
Values == [1..MaxCards -> SUBSET Card]
Empty == [messages |-> <<>>, values |-> Blank]

CardsTypeOK ==
  /\ fg \in open /\ open \subseteq Conversation
  /\ messages \in Seq(Card) /\ Len(messages) <= MaxCards /\ values \in Values
  /\ saved \in [Conversation -> [messages : Seq(Card), values : Values]]
  /\ history \in [Conversation -> 0..MaxCards]
  /\ asks \subseteq Conversation \X (0..MaxCards)

-----------------------------------------------------------------------------
(* TurnComplete appends the card to the screen; in the background it is     *)
(* only badged.                                                            *)
CardAppears ==
  /\ history[fg] < MaxCards /\ Len(messages) < MaxCards
  /\ history' = [history EXCEPT ![fg] = @ + 1]
  /\ messages' = Append(messages, <<fg, history'[fg]>>)
  /\ UNCHANGED <<fg, open, values, saved, asks>>

CardInBackground(c) ==
  /\ c \in open \ {fg} /\ history[c] < MaxCards
  /\ history' = [history EXCEPT ![c] = @ + 1]
  /\ UNCHANGED <<fg, open, surface, saved, asks>>

(* Notify: inc and dec work on the value that is there, reset and set       *)
(* replace it; a set without a value leaves it.                            *)
Press(i) ==
  /\ i \in DOMAIN messages
  /\ \/ values' = [values EXCEPT ![i] = @ \cup {messages[i]}]
     \/ values' = [values EXCEPT ![i] = {messages[i]}]
  /\ UNCHANGED <<fg, open, messages, saved, history, asks>>

-----------------------------------------------------------------------------
(* snapshot_into, restore_from, wipe_chat_surface *)

Here == [messages |-> messages, values |-> values]

(* Mutant of Snapshot: the cards' states stay behind. *)
SnapshotMessages == [saved EXCEPT ![fg] = [messages |-> messages, values |-> Blank]]

Snapshot == [saved EXCEPT ![fg] = Here]

(* Mutant of Show: the states stay. *)
WipeMessages(r) == messages' = r.messages /\ UNCHANGED values

Show(r) == messages' = r.messages /\ values' = r.values

SwitchToApp(c) ==
  /\ c \in open \ {fg}
  /\ fg' = c /\ saved' = Snapshot /\ Show(saved[c])
  /\ UNCHANGED <<open, history, asks>>

OpenNewApp(c) ==
  /\ c \notin open
  /\ open' = open \cup {c} /\ fg' = c /\ saved' = Snapshot /\ Show(Empty)
  /\ UNCHANGED <<history, asks>>

(* route_to_app: the foreground changes under the screen. *)
RouteToApp(c) ==
  /\ c \in Boot \cap open /\ c # fg /\ fg' = c
  /\ UNCHANGED <<open, surface, saved, history, asks>>

(* Fresh sessions for the apps; the others are the server's. *)
ClearChat(sessions) ==
  /\ fg' = First /\ open' = Boot /\ Show(Empty)
  /\ saved' = [c \in Conversation |-> Empty]
  /\ history' = [c \in Conversation |-> IF c \in sessions THEN history[c] ELSE 0]

-----------------------------------------------------------------------------
(* Selected, and the history that it asks for; the request may be lost. *)
Resume(c) ==
  /\ fg' = c /\ open' = open \cup {c} /\ Show(Empty)
  /\ asks' \in {asks, asks \cup {<<c, history[c]>>}}
  /\ UNCHANGED <<saved, history>>

(* SessionResumeHydrated replaces the messages, not the states. *)
HistoryArrives(a) ==
  /\ a \in asks /\ asks' = asks \ {a}
  /\ IF a[1] = fg
     THEN \E n \in a[2]..history[fg] : messages' = [i \in 1..n |-> <<fg, i>>]
     ELSE UNCHANGED messages
  /\ UNCHANGED <<fg, open, values, saved, history>>

-----------------------------------------------------------------------------
CardsInit(sessions) ==
  /\ fg = First /\ open = Boot
  /\ messages = <<>> /\ values = Blank
  /\ saved = [c \in Conversation |-> Empty]
  /\ history = [c \in Conversation |-> IF c \in sessions THEN 1 ELSE 0]
  /\ asks = {}

(* What app c shows, or would show. *)
Conversing(c, f, here, kept) == IF c = f THEN here ELSE kept[c]

(* Opening an app or switching to another changes no conversation and no   *)
(* card's state: the screen is saved with its app, and what was saved is   *)
(* shown (main.rs 3910-3944).                                              *)
SwitchKeepsConversations ==
  [][(\E c \in Conversation : SwitchToApp(c) \/ OpenNewApp(c)) =>
       \A c \in open : Conversing(c, fg', Here', saved') = Conversing(c, fg, Here, saved)]_cardVars

(* A state belongs to the card at its index, and to no other. *)
OwnState(r) == \A i \in DOMAIN r.values :
  r.values[i] # {} => i \in DOMAIN r.messages /\ r.values[i] = {r.messages[i]}

Apart ==
  OwnState(Here) /\ \A c \in open : OwnState(saved[c])

(* Cards never share state, on the screen or in a snapshot, through         *)
(* switches, routing, resumes and new chats (main.rs 287-289); only a      *)
(* history that arrives late over other cards mixes them up.               *)
OnlyHistoryMixes ==
  [][Apart => Apart' \/ \E a \in asks : HistoryArrives(a)]_cardVars
=============================================================================
