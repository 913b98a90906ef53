-------------------------------- MODULE Shell --------------------------------
(***************************************************************************)
(* The application around the chat (main.rs): sign-in, the session list,   *)
(* the content browser and its viewers, toasts and cards.  One handler of  *)
(* the UI thread works for several of them: a login that ends replaces the *)
(* agent, with its requests, and clears the chat; picking a session        *)
(* navigates, resumes and empties the screen; the connection asks for the  *)
(* session list.                                                           *)
(*                                                                         *)
(* What comes from outside, the user, other clients, the connection and    *)
(* new replies, is a stimulus, and stimuli are bounded together.  Threads, *)
(* timers, answers and posted actions are not.                             *)
(***************************************************************************)
EXTENDS Login, SessionList, Library, Toasts, Cards

CONSTANT MaxStimuli

ASSUME ShellAssumption == MaxStimuli \in Nat /\ Session \subseteq Conversation

VARIABLE stimuli

vars == <<loginVars, listVars, libraryVars, toastVars, cardVars, stimuli>>

TypeOK ==
  /\ LoginTypeOK /\ SessionListTypeOK /\ LibraryTypeOK /\ ToastsTypeOK /\ CardsTypeOK
  /\ stimuli \in 0..MaxStimuli

Init ==
  /\ LoginInit /\ SessionListInit /\ LibraryInit /\ ToastsInit /\ CardsInit(Session)
  /\ stimuli = 0

Stimulus == stimuli < MaxStimuli /\ stimuli' = stimuli + 1

-----------------------------------------------------------------------------
(* Sign-in.  connect_transport and clear_chat end every login: no request   *)
(* of the old agent is answered any more.                                  *)

Replaced ==
  /\ NewAgent /\ NewLink
  /\ ClearChat(Session) /\ asks' = {}
  /\ UNCHANGED libraryVars

Scan == Stimulus /\ ScanSucceeds /\ Replaced

SoloReply ==
  /\ UNCHANGED stimuli
  /\ \/ SoloSucceeds /\ Replaced
     \/ SoloFails /\ UNCHANGED <<listVars, libraryVars, toastVars, cardVars>>

LoginOnly ==
  /\ \/ Stimulus /\ (SignOut \/ ScanFails)
     \/ SoloThread /\ UNCHANGED stimuli
  /\ UNCHANGED <<listVars, libraryVars, toastVars, cardVars>>

(* The process ends: only the disk and the server remain. *)
Relaunch ==
  /\ Stimulus /\ Restart
  /\ rows' = {} /\ current' = NoSession /\ screen' = Home
  /\ deletes' = [s \in Session |-> "none"] /\ refused' = {}
  /\ asked' = 0 /\ wsLists' = <<>> /\ restLists' = <<>> /\ UNCHANGED existing
  /\ filter' = "all" /\ searching' = FALSE /\ files' = {}
  /\ contentError' = FALSE /\ requests' = <<>>
  /\ viewer' = Closed /\ album' = {} /\ cache' = {} /\ fetchError' = FALSE
  /\ fetches' = [f \in File |-> 0] /\ silenced' = FALSE
  /\ link' = "Handshaking" /\ connection' = "Offline"
  /\ toasts' = 0 /\ strip' = "empty"
  /\ ClearChat(Session) /\ asks' = {}

-----------------------------------------------------------------------------
(* The session list and the screen *)

Pick == \E s \in Session :
  /\ Stimulus
  /\ SelectRow(s) /\ Resume(s)
  /\ UNCHANGED <<loginVars, libraryVars, toastVars>>

(* navigate_to_content *)
OpenBrowser ==
  /\ Stimulus
  /\ Navigate("content") /\ OpenContent
  /\ UNCHANGED <<loginVars, toastVars, cardVars>>

(* The new-chat button: the agent stays, and answers what it was asked. *)
NewChat ==
  /\ Stimulus
  /\ Navigate("home") /\ ClearChat(Session) /\ UNCHANGED asks
  /\ UNCHANGED <<loginVars, libraryVars, toastVars>>

ListOnly ==
  /\ \/ Stimulus /\ \E s \in Session : DeleteRequested(s) \/ ChangeElsewhere(s)
     \/ (DeleteThread \/ ServerLists \/ Hydrated) /\ UNCHANGED stimuli
  /\ UNCHANGED <<loginVars, libraryVars, toastVars, cardVars>>

(* A connection that comes up asks for the list; one that goes down loses   *)
(* what was asked.                                                         *)
Connection == \E st \in LinkState :
  /\ Stimulus /\ LinkChanges(st)
  /\ IF st = "Live"
     THEN AskList /\ UNCHANGED asks
     ELSE LoseRequests /\ asks' = {}
  /\ UNCHANGED <<loginVars, libraryVars, fg, open, surface, saved, history>>

-----------------------------------------------------------------------------
(* The parts that work alone *)

LibraryOnly ==
  /\ \/ /\ Stimulus
        /\ \/ \E f \in Filter : SetFilter(f)
           \/ SetSearch
           \/ \E f \in File : OpenViewer(f)
           \/ CloseViewer \/ AlbumStep
     \/ (ContentArrives \/ FetchThread) /\ UNCHANGED stimuli
  /\ UNCHANGED <<loginVars, listVars, toastVars, cardVars>>

ToastsOnly ==
  /\ \/ Stimulus /\ Notify
     \/ TimerFires /\ UNCHANGED stimuli
  /\ UNCHANGED <<loginVars, listVars, libraryVars, cardVars>>

CardsOnly ==
  /\ \/ /\ Stimulus
        /\ \/ CardAppears
           \/ \E i \in 1..MaxCards : Press(i)
           \/ \E c \in Conversation :
                CardInBackground(c) \/ SwitchToApp(c) \/ RouteToApp(c)
           \/ \E c \in Conversation \ Session : OpenNewApp(c)
     \/ (\E a \in asks : HistoryArrives(a)) /\ UNCHANGED stimuli
  /\ UNCHANGED <<loginVars, listVars, libraryVars, toastVars>>

-----------------------------------------------------------------------------
Next ==
  \/ Scan \/ SoloReply \/ LoginOnly \/ Relaunch
  \/ Pick \/ OpenBrowser \/ NewChat \/ ListOnly \/ Connection
  \/ LibraryOnly \/ ToastsOnly \/ CardsOnly

Spec == Init /\ [][Next]_vars
=============================================================================
