----------------------------- MODULE SessionList -----------------------------
(***************************************************************************)
(* The sidebar's session list (app/sessions.rs, main.rs) and the screen    *)
(* that it navigates to (navigation.rs).  Lists come from the agent        *)
(* (session/list) and, after a delete that failed, from a REST thread.     *)
(* The flags of the rows are in Store; titles and order are left out.      *)
(***************************************************************************)
EXTENDS Naturals, Sequences

CONSTANTS
  Session,
  NoSession,
  MaxLists     \* bound: session/list requests without an answer

ASSUME SessionListAssumption == NoSession \notin Session /\ MaxLists \in Nat

VARIABLES
  rows,        \* state.sessions
  current,     \* state.current_session
  screen,      \* state.navigation
  deletes,     \* the thread of delete_session_remote of each session
  asked,       \* session/list requests without an answer
  wsLists,     \* session/list answers on their way to the UI thread
  restLists,   \* lists that REST threads posted
  existing,    \* the server's sessions
  refused      \* sessions whose delete failed, if no list will hide them (see DeleteFails)

rowsVars == <<rows, current, screen>>
listVars == <<rowsVars, deletes, asked, wsLists, restLists, existing, refused>>

Screen == [on : {"home", "content"}, s : {NoSession}] \cup [on : {"chat"}, s : Session]
Home == [on |-> "home", s |-> NoSession]

SessionListTypeOK ==
  /\ rows \subseteq Session /\ existing \subseteq Session /\ refused \subseteq Session
  /\ current \in Session \cup {NoSession} /\ screen \in Screen
  /\ deletes \in [Session -> {"none", "deleting", "listing"}]
  /\ asked \in 0..MaxLists
  /\ wsLists \in Seq(SUBSET Session) /\ restLists \in Seq(SUBSET Session)

-----------------------------------------------------------------------------
(* What the user does *)

(* SessionListAction::Selected, the part of the store: OpenSession. *)
SelectRow(s) ==
  /\ s \in rows
  /\ current' = s /\ screen' = [on |-> "chat", s |-> s]
  /\ UNCHANGED <<rows, deletes, asked, wsLists, restLists, existing, refused>>

(* NavigateTo keeps current_session. *)
Navigate(where) ==
  /\ screen' = [on |-> where, s |-> NoSession]
  /\ UNCHANGED <<rows, current, deletes, asked, wsLists, restLists, existing, refused>>

(* The row goes at once; the screen stays. *)
DeleteRequested(s) ==
  /\ s \in rows /\ deletes[s] = "none"
  /\ rows' = rows \ {s}
  /\ current' = IF current = s THEN NoSession ELSE current
  /\ deletes' = [deletes EXCEPT ![s] = "deleting"]
  /\ refused' = refused \ {s}
  /\ UNCHANGED <<screen, asked, wsLists, restLists, existing>>

(* Another client opens or deletes a session. *)
ChangeElsewhere(s) ==
  /\ existing' = IF s \in existing THEN existing \ {s} ELSE existing \cup {s}
  /\ refused' = refused \ {s}
  /\ UNCHANGED <<rowsVars, deletes, asked, wsLists, restLists>>

-----------------------------------------------------------------------------
(* delete_session_remote *)

DeleteSucceeds(s) ==
  /\ deletes[s] = "deleting"
  /\ existing' = existing \ {s}
  /\ deletes' = [deletes EXCEPT ![s] = "none"]
  /\ UNCHANGED <<rowsVars, asked, wsLists, restLists, refused>>

(* A list that is older than the session may still be on its way, and will *)
(* hide it: such a delete is not counted.                                  *)
OnTheWay(lists) == {lists[i] : i \in DOMAIN lists}

Refuse(s) ==
  refused' = IF /\ s \in existing
                /\ \A l \in OnTheWay(wsLists) \cup OnTheWay(restLists) : s \in l
             THEN refused \cup {s} ELSE refused

(* Mutant of DeleteFails: the failure is only logged. *)
DeleteFailsOnly(s) ==
  /\ deletes[s] = "deleting"
  /\ deletes' = [deletes EXCEPT ![s] = "none"]
  /\ Refuse(s)
  /\ UNCHANGED <<rowsVars, asked, wsLists, restLists, existing>>

(* hydrate_sessions is called for the list. *)
DeleteFails(s) ==
  /\ deletes[s] = "deleting"
  /\ deletes' = [deletes EXCEPT ![s] = "listing"]
  /\ Refuse(s)
  /\ UNCHANGED <<rowsVars, asked, wsLists, restLists, existing>>

(* hydrate_sessions: one attempt, and Failed is only logged. *)
Rehydrate(s) ==
  /\ deletes[s] = "listing"
  /\ deletes' = [deletes EXCEPT ![s] = "none"]
  /\ \/ restLists' = Append(restLists, existing) /\ UNCHANGED refused
     \/ refused' = refused \ {s} /\ UNCHANGED restLists
  /\ UNCHANGED <<rowsVars, asked, wsLists, existing>>

-----------------------------------------------------------------------------
(* session/list over the agent *)

(* CapabilityNegotiated posts ListSessions; a full channel loses it. *)
AskList ==
  /\ \/ asked < MaxLists /\ asked' = asked + 1
     \/ UNCHANGED asked
  /\ UNCHANGED <<rowsVars, deletes, wsLists, restLists, existing, refused>>

ServerLists ==
  /\ asked > 0 /\ asked' = asked - 1
  /\ wsLists' = Append(wsLists, existing) \/ UNCHANGED wsLists  \* an error is logged
  /\ UNCHANGED <<rowsVars, deletes, restLists, existing, refused>>

(* A connection that goes takes its requests; an agent that is replaced also *)
(* the answers in its channel, but not those that are posted already.      *)
LoseRequests ==
  /\ asked' = 0
  /\ UNCHANGED <<rowsVars, deletes, wsLists, restLists, existing, refused>>

NewAgent ==
  /\ asked' = 0
  /\ \E n \in 0..Len(wsLists) : wsLists' = SubSeq(wsLists, 1, n)
  /\ UNCHANGED <<rowsVars, deletes, restLists, existing, refused>>

(* SessionListAction::Hydrated *)
Hydrate(list) ==
  /\ rows' = list
  /\ UNCHANGED <<current, screen, deletes, asked, existing, refused>>

Hydrated ==
  \/ /\ wsLists # <<>> /\ wsLists' = Tail(wsLists)
     /\ Hydrate(Head(wsLists)) /\ UNCHANGED restLists
  \/ /\ restLists # <<>> /\ restLists' = Tail(restLists)
     /\ Hydrate(Head(restLists)) /\ UNCHANGED wsLists

-----------------------------------------------------------------------------
SessionListInit ==
  /\ rows = {} /\ current = NoSession /\ screen = Home
  /\ deletes = [s \in Session |-> "none"]
  /\ asked = 0 /\ wsLists = <<>> /\ restLists = <<>>
  /\ existing = Session /\ refused = {}

DeleteThread == \E s \in Session : DeleteSucceeds(s) \/ DeleteFails(s) \/ Rehydrate(s)

-----------------------------------------------------------------------------
ListsQuiet ==
  /\ wsLists = <<>> /\ restLists = <<>>
  /\ \A s \in Session : deletes[s] = "none"

(* With no list on its way, a session whose delete the server refused has   *)
(* its row back if the list asked for that was answered, whatever lists    *)
(* and deletes came between (app/sessions.rs 186-192).                     *)
FailedDeleteRollsBack ==
  ListsQuiet => refused \subseteq rows
=============================================================================
