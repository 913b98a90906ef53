-------------------------------- MODULE Store --------------------------------
(***************************************************************************)
(* The store that the UI thread folds notifications into (octos-app-store: *)
(* state, turns, tasks, sessions).  Rows come and go by the session list,  *)
(* which SessionList models: here a list reply or a delete may come at any *)
(* time.  The toasts of the arms are in Toasts.                            *)
(*                                                                         *)
(* The server is external.  It keeps one ledger of durable notifications   *)
(* for each session and pushes it to this client from a position; deltas   *)
(* are not numbered.  Texts, titles, progress and times are left out.      *)
(* The approval arms of the reducer are in Approvals.                      *)
(***************************************************************************)
EXTENDS Naturals, Sequences, FiniteSets

CONSTANTS
  Session, Turn, Tool, Task,
  SessionOf,     \* the session of each turn and task
  TurnOf,        \* the turn of each tool call
  MaxLedger      \* bound: notifications in all ledgers

ASSUME StoreAssumption ==
  /\ SessionOf \in [Turn \cup Task -> Session]
  /\ TurnOf \in [Tool -> Turn]
  /\ Turn \cap Task = {}
  /\ MaxLedger \in Nat

VARIABLES
  \* AppState
  byId,                     \* sessions that have a row
  streaming, active,        \* rows with is_streaming, with has_active_task
  cursor,                   \* last folded position of each session
  turns, calls, tasks,      \* status by id
  text, thinking,           \* turns with a buffer in Ephemeral
  \* the server
  live,                     \* a connection is up
  ledger,
  attached, pos,            \* sessions it pushes to this client, and from where
  \* history, for the properties
  skipped                   \* turns whose end was passed over and not folded since

rowVars   == <<byId, streaming, active>>
workVars  == <<turns, calls, tasks, text, thinking>>
pushVars  == <<live, attached, pos, skipped>>
vars == <<rowVars, cursor, workVars, ledger, pushVars>>

-----------------------------------------------------------------------------
(* Values *)

Ended == {"completed", "errored", "interrupted"}
TurnStatus == {"pending", "streaming"} \cup Ended
TurnEnds == {"turn_completed", "turn_error"}
TaskEnded == {"completed", "failed", "cancelled"}
TaskState == {"running"} \cup TaskEnded

Notification ==
  [n : {"turn_started", "turn_completed"}, x : Turn, v : {0}]
    \cup [n : {"turn_error"}, x : Turn, v : {"interrupted", "runtime"}]
    \cup [n : {"tool_started", "tool_progress", "tool_completed"}, x : Tool, v : {0}]
    \cup [n : {"task_updated"}, x : Task, v : TaskState]
    \cup [n : {"notice"}, x : Session, v : {0}]

RowsOK == byId \subseteq Session /\ streaming \subseteq byId /\ active \subseteq byId

WorkOK ==
  /\ cursor \in [Session -> Nat]
  /\ turns \in [Turn -> TurnStatus \cup {"absent"}]
  /\ calls \in [Tool -> {"absent", "open", "complete"}]
  /\ tasks \in [Task -> TaskState \cup {"absent"}]
  /\ text \subseteq Turn /\ thinking \subseteq Turn

ServerOK ==
  /\ ledger \in [Session -> Seq(Notification)]
  /\ live \in BOOLEAN /\ attached \subseteq Session /\ pos \in [Session -> Nat]
  /\ skipped \subseteq Turn

TypeOK == RowsOK /\ WorkOK /\ ServerOK

Init ==
  /\ byId = {} /\ streaming = {} /\ active = {}
  /\ cursor = [s \in Session |-> 0]
  /\ turns = [t \in Turn |-> "absent"]
  /\ calls = [k \in Tool |-> "absent"]
  /\ tasks = [a \in Task |-> "absent"]
  /\ text = {} /\ thinking = {}
  /\ ledger = [s \in Session |-> <<>>]
  /\ live = FALSE /\ attached = {} /\ pos = [s \in Session |-> 0] /\ skipped = {}

-----------------------------------------------------------------------------
(* The reducer's helpers *)

MarkStreaming(s, on) ==
  streaming' = IF s \notin byId THEN streaming
               ELSE IF on THEN streaming \cup {s} ELSE streaming \ {s}

(* Mutant of MarkActive: a session without a row gets one. *)
MarkActiveAnyway(s, on) ==
  active' = IF on THEN active \cup {s} ELSE active \ {s}

MarkActive(s, on) ==
  active' = IF s \notin byId THEN active
            ELSE IF on THEN active \cup {s} ELSE active \ {s}

(* A started call, or the stub of one whose start was missed, is open until *)
(* it is completed; a task until its state is terminal.                    *)
WorkIn(s, callsNow, tasksNow) ==
  \/ \E k \in Tool : SessionOf[TurnOf[k]] = s /\ callsNow[k] = "open"
  \/ \E a \in Task : SessionOf[a] = s /\ tasksNow[a] \notin TaskEnded \cup {"absent"}

OpenWork(s) == WorkIn(s, calls, tasks)

(* Mutants of RecomputeActive: tasks are not looked at; nothing changes. *)
RecomputeActiveTools(s) ==
  MarkActive(s, \E k \in Tool : SessionOf[TurnOf[k]] = s /\ calls'[k] = "open")
RecomputeActiveNever(s) == UNCHANGED active

RecomputeActive(s) == MarkActive(s, WorkIn(s, calls', tasks'))

-----------------------------------------------------------------------------
(* The arms of apply_protocol *)

(* Mutant of TurnStarted: insert instead of or_insert_with. *)
TurnStartedInserts(t) ==
  /\ turns' = [turns EXCEPT ![t] = "pending"]
  /\ MarkStreaming(SessionOf[t], TRUE)
  /\ UNCHANGED <<active, calls, tasks, text, thinking>>

TurnStarted(t) ==
  /\ turns' = [turns EXCEPT ![t] = IF @ = "absent" THEN "pending" ELSE @]
  /\ MarkStreaming(SessionOf[t], TRUE)
  /\ UNCHANGED <<active, calls, tasks, text, thinking>>

(* MessageDelta and ReasoningDelta differ in the buffer. *)
Delta(t) ==
  /\ \/ text' = text \cup {t} /\ UNCHANGED thinking
     \/ thinking' = thinking \cup {t} /\ UNCHANGED text
  /\ turns' = [turns EXCEPT ![t] = IF @ = "pending" THEN "streaming" ELSE @]
  /\ MarkStreaming(SessionOf[t], TRUE)
  /\ UNCHANGED <<active, calls, tasks>>

ToolStarted(k) ==
  /\ calls' = [calls EXCEPT ![k] = "open"]
  /\ MarkActive(SessionOf[TurnOf[k]], TRUE)
  /\ UNCHANGED <<streaming, turns, tasks, text, thinking>>

ToolProgress(k) ==
  /\ calls' = [calls EXCEPT ![k] = IF @ = "absent" THEN "open" ELSE @]
  /\ UNCHANGED <<streaming, active, turns, tasks, text, thinking>>

ToolCompleted(k) ==
  /\ calls' = [calls EXCEPT ![k] = IF @ = "absent" THEN @ ELSE "complete"]
  /\ UNCHANGED tasks /\ RecomputeActive(SessionOf[TurnOf[k]])
  /\ UNCHANGED <<streaming, turns, text, thinking>>

TaskUpdated(a, st) ==
  /\ tasks' = [tasks EXCEPT ![a] = st]
  /\ UNCHANGED calls
  /\ IF st \in TaskEnded THEN RecomputeActive(SessionOf[a])
                         ELSE MarkActive(SessionOf[a], TRUE)
  /\ UNCHANGED <<streaming, turns, text, thinking>>

(* Mutant of EndTurn: the thinking buffer stays. *)
EndTurnKeepsThinking(t, status) ==
  /\ turns' = [turns EXCEPT ![t] = IF @ = "absent" THEN @ ELSE status]
  /\ text' = text \ {t} /\ UNCHANGED thinking
  /\ MarkStreaming(SessionOf[t], FALSE)
  /\ UNCHANGED <<calls, tasks>> /\ RecomputeActive(SessionOf[t])

(* What TurnCompleted and TurnError share. *)
EndTurn(t, status) ==
  /\ turns' = [turns EXCEPT ![t] = IF @ = "absent" THEN @ ELSE status]
  /\ text' = text \ {t} /\ thinking' = thinking \ {t}
  /\ MarkStreaming(SessionOf[t], FALSE)
  /\ UNCHANGED <<calls, tasks>> /\ RecomputeActive(SessionOf[t])

TurnCompleted(t) == EndTurn(t, "completed")

TurnError(t, code) ==
  EndTurn(t, IF code = "interrupted" THEN "interrupted" ELSE "errored")

(* Arms that at most toast: Warning, ReplayLossy, RouterFailover, Visual... *)
Notice == UNCHANGED <<streaming, active, workVars>>

Reduce(e) ==
  \/ e.n = "turn_started"   /\ TurnStarted(e.x)
  \/ e.n = "tool_started"   /\ ToolStarted(e.x)
  \/ e.n = "tool_progress"  /\ ToolProgress(e.x)
  \/ e.n = "tool_completed" /\ ToolCompleted(e.x)
  \/ e.n = "task_updated"   /\ TaskUpdated(e.x, e.v)
  \/ e.n = "turn_completed" /\ TurnCompleted(e.x)
  \/ e.n = "turn_error"     /\ TurnError(e.x, e.v)
  \/ e.n = "notice"         /\ Notice

CaughtUp(s) == s \in attached /\ pos[s] = Len(ledger[s])

(* A durable notification arrives and is folded with its cursor. *)
FoldDurable == \E s \in attached :
  /\ pos[s] < Len(ledger[s])
  /\ pos' = [pos EXCEPT ![s] = @ + 1]
  /\ cursor' = [cursor EXCEPT ![s] = pos[s] + 1]
  /\ LET e == ledger[s][pos[s] + 1] IN
       /\ Reduce(e)
       /\ skipped' = IF e.n \in TurnEnds THEN skipped \ {e.x} ELSE skipped
  /\ UNCHANGED <<byId, ledger, live, attached>>

-----------------------------------------------------------------------------
(* The connection comes and goes, with its subscriptions; the store keeps  *)
(* everything.                                                             *)
LinkChanges ==
  /\ live' = ~live
  /\ attached' = {} /\ pos' = [s \in Session |-> 0]
  /\ UNCHANGED <<rowVars, cursor, workVars, ledger, skipped>>

-----------------------------------------------------------------------------
(* Sessions *)

(* The turns of s whose end was recorded behind what was folded.           *)
EndsPast(s) == {t \in Turn : \E i \in (cursor[s] + 1)..Len(ledger[s]) :
                  ledger[s][i].n \in TurnEnds /\ ledger[s][i].x = t}

(* An open after the cursor that the transport could save: the last one    *)
(* or, if a write failed, an earlier one.                                  *)
Resumes(s) ==
  /\ \E c \in 1..cursor[s] : pos' = [pos EXCEPT ![s] = c]
  /\ UNCHANGED skipped

(* An open without a cursor: a session is new, or resume_session comes     *)
(* back to one.  The server pushes what comes next, and what was recorded  *)
(* while the session was not subscribed is passed over.                    *)
Joins(s) ==
  IF s \in attached THEN UNCHANGED <<pos, skipped>>
  ELSE /\ pos' = [pos EXCEPT ![s] = Len(ledger[s])]
       /\ skipped' = skipped \cup EndsPast(s)

Attach(s) == attached' = attached \cup {s} /\ (Resumes(s) \/ Joins(s))

(* Mutant of SessionOpened: the notification is not folded. *)
SessionOpenedUnseen == \E s \in Session :
  /\ live /\ UNCHANGED live /\ Attach(s)
  /\ UNCHANGED <<rowVars, cursor, workVars, ledger>>

(* The server opens a session for this client; SessionOpened is folded. *)
SessionOpened == \E s \in Session :
  /\ live /\ UNCHANGED live /\ Attach(s)
  /\ MarkStreaming(s, FALSE)
  /\ UNCHANGED <<byId, active, cursor, workVars, ledger>>

(* SessionListAction::Hydrated: the list replaces every row by a fresh one. *)
Hydrated == \E l \in SUBSET Session :
  /\ byId' = l /\ streaming' = {} /\ active' = {}
  /\ UNCHANGED <<cursor, workVars, ledger, pushVars>>

(* SessionMap::remove *)
Removed == \E s \in byId :
  /\ byId' = byId \ {s} /\ streaming' = streaming \ {s} /\ active' = active \ {s}
  /\ UNCHANGED <<cursor, workVars, ledger, pushVars>>

-----------------------------------------------------------------------------
(* The server (external) *)

Said(s, n, x) == \E i \in DOMAIN ledger[s] : ledger[s][i].n = n /\ ledger[s][i].x = x

Started(t) == Said(SessionOf[t], "turn_started", t)
Finished(t) == \/ Said(SessionOf[t], "turn_completed", t)
               \/ Said(SessionOf[t], "turn_error", t)
Running(t) == Started(t) /\ ~Finished(t)

(* What the server may add to the ledger of session s. *)
Proper(s, e) ==
  \/ e.n = "turn_started" /\ SessionOf[e.x] = s /\ ~Started(e.x)
  \/ e.n \in {"turn_completed", "turn_error"} /\ SessionOf[e.x] = s /\ Running(e.x)
  \/ /\ e.n \in {"tool_started", "tool_progress", "tool_completed"}
     /\ SessionOf[TurnOf[e.x]] = s /\ Running(TurnOf[e.x])
     /\ Said(s, "tool_started", e.x) <=> e.n # "tool_started"
     /\ ~Said(s, "tool_completed", e.x)
  \/ /\ e.n = "task_updated" /\ SessionOf[e.x] = s
     /\ \A i \in DOMAIN ledger[s] :
          ledger[s][i].n = "task_updated" /\ ledger[s][i].x = e.x =>
            ledger[s][i].v = "running" /\ e.v # "running"
  \/ e.n = "notice" /\ e.x = s

Recorded == UNION {{s} \X DOMAIN ledger[s] : s \in Session}

Record == \E s \in Session, e \in Notification :
  /\ Proper(s, e) /\ Cardinality(Recorded) < MaxLedger
  /\ ledger' = [ledger EXCEPT ![s] = Append(@, e)]
  /\ UNCHANGED <<rowVars, cursor, workVars, pushVars>>

(* A delta of a running turn reaches a client that has all that came before. *)
ReceiveDelta == \E t \in Turn :
  /\ Running(t) /\ CaughtUp(SessionOf[t])
  /\ Delta(t)
  /\ UNCHANGED <<byId, cursor, ledger, pushVars>>

-----------------------------------------------------------------------------
Folds == FoldDurable \/ ReceiveDelta \/ SessionOpened \/ LinkChanges
Rows  == Hydrated \/ Removed

Next == Folds \/ Rows \/ Record

Spec == Init /\ [][Next]_vars

-----------------------------------------------------------------------------
(* Properties *)

(* A turn that ended stays ended, however its notifications are replayed    *)
(* and whatever deltas follow (turns.rs 39-41, state.rs 196-207).          *)
EndedStaysEnded ==
  [][\A t \in Turn : turns[t] \in Ended => turns'[t] \in Ended]_vars

(* When a session has been folded to the end of its ledger, no turn of it  *)
(* that ended is still shown as running, whatever was dropped, replayed,   *)
(* joined late or missed at its start: its status is terminal if the store *)
(* has it, its buffers are gone, and without a running turn the row's dot  *)
(* is out (state.rs 283-306).  Only a turn whose very end was passed over  *)
(* by an open without a cursor runs on (octos_ui.rs 580).                  *)
NothingStreamsOn ==
  \A s \in Session : CaughtUp(s) =>
    /\ \A t \in Turn \ skipped : SessionOf[t] = s /\ Finished(t) =>
         turns[t] \in Ended \cup {"absent"} /\ t \notin text \cup thinking
    /\ s \in streaming => \E t \in Turn : SessionOf[t] = s /\ Running(t)

(* A lit work dot has an open tool call or task of that very session       *)
(* behind it (state.rs 505-511, sessions.rs 79-82).                        *)
ActiveHasWork == \A s \in active : OpenWork(s)

(* A work dot goes out only when no open call or task of the session is    *)
(* left, or with its row (state.rs 222-306).                               *)
DarkMeansDone ==
  [][\A s \in active : s \notin active' =>
                          ~WorkIn(s, calls', tasks') \/ s \notin byId' \/ Hydrated]_vars
=============================================================================
