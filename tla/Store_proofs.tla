----------------------------- MODULE Store_proofs -----------------------------
(***************************************************************************)
(* What holds of the store for every set of sessions, turns, tool calls    *)
(* and tasks, every ledger and every replay: what ended stays ended, the   *)
(* work dots tell the truth, and nothing streams on.                       *)
(***************************************************************************)
EXTENDS Store, SequenceTheorems, TLAPS

LEMMA LedgerAppend ==
  ASSUME NEW S, NEW q \in Seq(S), NEW e \in S
  PROVE  /\ Append(q, e) \in Seq(S) /\ Len(Append(q, e)) = Len(q) + 1
         /\ DOMAIN q = 1..Len(q) /\ DOMAIN Append(q, e) = 1..Len(q) + 1 /\ Len(q) \in Nat
         /\ \A i \in 1..Len(q) : Append(q, e)[i] = q[i]
         /\ Append(q, e)[Len(q) + 1] = e
BY AppendProperties, LenProperties

(* What the arms of apply_protocol are given. *)
LEMMA NotificationOK ==
  ASSUME NEW e \in Notification
  PROVE  /\ e.n \in {"turn_started", "turn_completed", "turn_error"} => e.x \in Turn
         /\ e.n \in {"tool_started", "tool_progress", "tool_completed"} => e.x \in Tool
         /\ e.n = "task_updated" => e.x \in Task /\ e.v \in TaskState
         /\ e.n = "notice" => e.x \in Session
BY DEF Notification

(* The homes of turns, tool calls and tasks. *)
LEMMA HomesOK ==
  /\ \A t \in Turn : SessionOf[t] \in Session
  /\ \A k \in Tool : TurnOf[k] \in Turn /\ SessionOf[TurnOf[k]] \in Session
  /\ \A a \in Task : SessionOf[a] \in Session
BY StoreAssumption

(* Recomputing leaves the dot of s only to open work. *)
LEMMA RecomputeOK ==
  ASSUME RowsOK, NEW s, RecomputeActive(s)
  PROVE  /\ active' \subseteq byId
         /\ active' \subseteq active \cup {s} /\ active \subseteq active' \cup {s}
         /\ s \in active' => WorkIn(s, calls', tasks')
         /\ s \in active /\ s \notin active' => ~WorkIn(s, calls', tasks')
<1>1. WorkIn(s, calls', tasks') \in BOOLEAN
  BY DEF WorkIn
<1> QED BY <1>1 DEF RecomputeActive, MarkActive, RowsOK

-----------------------------------------------------------------------------
(* What each arm does to rows and work. *)

(* The statuses keep their types, and ended ones do not open again. *)
WorkGoesOn ==
  /\ turns' \in [Turn -> TurnStatus \cup {"absent"}]
  /\ calls' \in [Tool -> {"absent", "open", "complete"}]
  /\ tasks' \in [Task -> TaskState \cup {"absent"}]
  /\ text' \subseteq Turn /\ thinking' \subseteq Turn
  /\ \A t \in Turn : turns[t] \in Ended => turns'[t] \in Ended

LEMMA ArmsOnWork ==
  ASSUME WorkOK, NEW e \in Notification, Reduce(e)
  PROVE  WorkGoesOn
<1> USE DEF WorkOK, WorkGoesOn, TurnStatus, Ended
<1>1. CASE e.n = "turn_started" /\ TurnStarted(e.x)
  BY <1>1, NotificationOK DEF TurnStarted
<1>2. CASE e.n = "tool_started" /\ ToolStarted(e.x)
  BY <1>2, NotificationOK DEF ToolStarted
<1>3. CASE e.n = "tool_progress" /\ ToolProgress(e.x)
  BY <1>3, NotificationOK DEF ToolProgress
<1>4. CASE e.n = "tool_completed" /\ ToolCompleted(e.x)
  BY <1>4, NotificationOK DEF ToolCompleted
<1>5. CASE e.n = "task_updated" /\ TaskUpdated(e.x, e.v)
  BY <1>5, NotificationOK DEF TaskUpdated
<1>6. ASSUME NEW t \in Turn, NEW status \in Ended, EndTurn(t, status)
      PROVE  WorkGoesOn
  BY <1>6 DEF EndTurn
<1>7. CASE e.n = "turn_completed" /\ TurnCompleted(e.x)
  BY <1>6, <1>7, NotificationOK DEF TurnCompleted
<1>8. CASE e.n = "turn_error" /\ TurnError(e.x, e.v)
  BY <1>6, <1>8, NotificationOK DEF TurnError
<1>9. CASE e.n = "notice" /\ Notice
  BY <1>9 DEF Notice, workVars
<1> QED BY <1>1, <1>2, <1>3, <1>4, <1>5, <1>7, <1>8, <1>9 DEF Reduce

(* Flags stay on rows; a dot that is lit has work if it had; one that goes *)
(* out had none left.                                                      *)
DotsAreTrue(onNow, onNext, callsNow, tasksNow) ==
  /\ onNext \subseteq byId
  /\ \A s \in onNext : (s \in onNow => OpenWork(s)) => WorkIn(s, callsNow, tasksNow)
  /\ \A s \in onNow : s \notin onNext => ~WorkIn(s, callsNow, tasksNow)

LEMMA ArmsOnDots ==
  ASSUME RowsOK, WorkOK, NEW e \in Notification, Reduce(e)
  PROVE  streaming' \subseteq byId /\ DotsAreTrue(active, active', calls', tasks')
<1> USE DEF DotsAreTrue
<1>0. active \subseteq byId /\ streaming \subseteq byId
  BY DEF RowsOK
<1>1. CASE e.n = "turn_started" /\ TurnStarted(e.x)
  <2>1. streaming' \subseteq byId /\ active' = active /\ calls' = calls /\ tasks' = tasks
    BY <1>1 DEF TurnStarted, MarkStreaming, RowsOK
  <2> QED BY <1>0, <2>1 DEF OpenWork
<1>2. CASE e.n = "tool_started" /\ ToolStarted(e.x)
  <2> DEFINE s == SessionOf[TurnOf[e.x]]
  <2>1. e.x \in Tool /\ streaming' = streaming /\ tasks' = tasks
        /\ calls' = [calls EXCEPT ![e.x] = "open"] /\ MarkActive(s, TRUE)
    BY <1>2, NotificationOK DEF ToolStarted
  <2>2. /\ active' \subseteq byId /\ active' \subseteq active \cup {s}
        /\ active \subseteq active'
    BY <2>1 DEF MarkActive, RowsOK
  <2>3. WorkIn(s, calls', tasks')
    BY <2>1 DEF WorkIn, WorkOK
  <2>4. ASSUME NEW r, OpenWork(r) PROVE WorkIn(r, calls', tasks')
    BY <2>1, <2>4 DEF OpenWork, WorkIn, WorkOK
  <2> QED BY <1>0, <2>1, <2>2, <2>3, <2>4
<1>3. CASE e.n = "tool_progress" /\ ToolProgress(e.x)
  <2>1. e.x \in Tool /\ streaming' = streaming /\ active' = active /\ tasks' = tasks
        /\ calls' = [calls EXCEPT ![e.x] = IF @ = "absent" THEN "open" ELSE @]
    BY <1>3, NotificationOK DEF ToolProgress
  <2>2. ASSUME NEW r, OpenWork(r) PROVE WorkIn(r, calls', tasks')
    BY <2>1, <2>2 DEF OpenWork, WorkIn, WorkOK
  <2> QED BY <1>0, <2>1, <2>2
<1>4. CASE e.n = "tool_completed" /\ ToolCompleted(e.x)
  <2> DEFINE s == SessionOf[TurnOf[e.x]]
  <2>1. e.x \in Tool /\ streaming' = streaming /\ tasks' = tasks
        /\ calls' = [calls EXCEPT ![e.x] = IF @ = "absent" THEN @ ELSE "complete"]
        /\ RecomputeActive(s)
    BY <1>4, NotificationOK DEF ToolCompleted
  <2>2. ASSUME NEW r, r # s, OpenWork(r) PROVE WorkIn(r, calls', tasks')
    BY <2>1, <2>2 DEF OpenWork, WorkIn, WorkOK
  <2> QED BY <1>0, <2>1, <2>2, RecomputeOK
<1>5. CASE e.n = "task_updated" /\ TaskUpdated(e.x, e.v)
  <2> DEFINE s == SessionOf[e.x]
  <2>1. e.x \in Task /\ e.v \in TaskState /\ streaming' = streaming /\ calls' = calls
        /\ tasks' = [tasks EXCEPT ![e.x] = e.v]
        /\ IF e.v \in TaskEnded THEN RecomputeActive(s) ELSE MarkActive(s, TRUE)
    BY <1>5, NotificationOK DEF TaskUpdated
  <2>2. ASSUME NEW r, r # s, OpenWork(r) PROVE WorkIn(r, calls', tasks')
    BY <2>1, <2>2 DEF OpenWork, WorkIn, WorkOK
  <2>3. CASE e.v \in TaskEnded
    BY <1>0, <2>1, <2>2, <2>3, RecomputeOK
  <2>4. CASE e.v \notin TaskEnded
    <3>1. WorkIn(s, calls', tasks')
      BY <2>1, <2>4 DEF WorkIn, WorkOK, TaskState, TaskEnded
    <3>2. /\ active' \subseteq byId /\ active' \subseteq active \cup {s}
          /\ active \subseteq active'
      BY <2>1, <2>4 DEF MarkActive, RowsOK
    <3> QED BY <1>0, <2>1, <2>2, <3>1, <3>2
  <2> QED BY <2>3, <2>4
<1>6. ASSUME NEW t \in Turn, NEW status, EndTurn(t, status)
      PROVE  streaming' \subseteq byId /\ DotsAreTrue(active, active', calls', tasks')
  <2>1. calls' = calls /\ tasks' = tasks /\ MarkStreaming(SessionOf[t], FALSE)
        /\ RecomputeActive(SessionOf[t])
    BY <1>6 DEF EndTurn
  <2>2. streaming' \subseteq byId
    BY <2>1 DEF MarkStreaming, RowsOK
  <2>3. ASSUME NEW r, OpenWork(r) PROVE WorkIn(r, calls', tasks')
    BY <2>1, <2>3 DEF OpenWork
  <2> QED BY <1>0, <2>1, <2>2, <2>3, RecomputeOK
<1>7. CASE e.n = "turn_completed" /\ TurnCompleted(e.x)
  BY <1>6, <1>7, NotificationOK DEF TurnCompleted
<1>8. CASE e.n = "turn_error" /\ TurnError(e.x, e.v)
  BY <1>6, <1>8, NotificationOK DEF TurnError
<1>9. CASE e.n = "notice" /\ Notice
  BY <1>0, <1>9 DEF Notice, OpenWork, workVars
<1> QED BY <1>1, <1>2, <1>3, <1>4, <1>5, <1>7, <1>8, <1>9 DEF Reduce

-----------------------------------------------------------------------------
(* Type correctness *)

(* The notification that is folded next. *)
LEMMA NextOnLedger ==
  ASSUME ServerOK, NEW s \in Session, pos[s] < Len(ledger[s])
  PROVE  /\ ledger[s][pos[s] + 1] \in Notification
         /\ pos[s] \in Nat /\ Len(ledger[s]) \in Nat /\ DOMAIN ledger[s] = 1..Len(ledger[s])
<1>1. ledger[s] \in Seq(Notification) /\ pos[s] \in Nat
  BY DEF ServerOK
<1>2. Len(ledger[s]) \in Nat /\ DOMAIN ledger[s] = 1..Len(ledger[s])
      /\ \A i \in 1..Len(ledger[s]) : ledger[s][i] \in Notification
  <2> HIDE DEF Notification
  <2> QED BY <1>1, LenProperties, ElementOfSeq
<1>3. pos[s] + 1 \in 1..Len(ledger[s])
  BY <1>1, <1>2
<1> QED BY <1>1, <1>2, <1>3

LEMMA AttachOK ==
  ASSUME TypeOK, NEW s \in Session, Attach(s)
  PROVE  attached' \subseteq Session /\ pos' \in [Session -> Nat] /\ skipped' \subseteq Turn
<1>1. ledger[s] \in Seq(Notification) /\ cursor[s] \in Nat /\ pos \in [Session -> Nat]
      /\ attached \subseteq Session /\ skipped \subseteq Turn
  BY DEF TypeOK, ServerOK, WorkOK
<1>2. Len(ledger[s]) \in Nat /\ 1..cursor[s] \subseteq Nat
  <2> HIDE DEF Notification
  <2> QED BY <1>1, LenProperties
<1>3. CASE Resumes(s)
  BY <1>1, <1>2, <1>3 DEF Attach, Resumes
<1>4. CASE Joins(s)
  BY <1>1, <1>2, <1>4 DEF Attach, Joins, EndsPast
<1> QED BY <1>3, <1>4 DEF Attach

LEMMA TypeStep == TypeOK /\ [Next]_vars => TypeOK'
<1> SUFFICES ASSUME TypeOK, [Next]_vars PROVE TypeOK'
  OBVIOUS
<1>1. RowsOK /\ WorkOK /\ ServerOK
  BY DEF TypeOK
<1>2. CASE FoldDurable
  <2>1. PICK s \in attached : FoldDurable!(s)
    BY <1>2 DEF FoldDurable
  <2>2. s \in Session /\ pos[s] < Len(ledger[s])
    BY <1>1, <2>1 DEF ServerOK
  <2> DEFINE e == ledger[s][pos[s] + 1]
  <2>3. e \in Notification /\ pos[s] \in Nat /\ Reduce(e)
    BY <1>1, <2>1, <2>2, NextOnLedger
  <2>4. WorkGoesOn /\ streaming' \subseteq byId /\ active' \subseteq byId
    BY <1>1, <2>3, ArmsOnWork, ArmsOnDots DEF DotsAreTrue
  <2>5. RowsOK'
    BY <1>1, <2>1, <2>4 DEF RowsOK
  <2>6. WorkOK'
    BY <1>1, <2>1, <2>2, <2>3, <2>4 DEF WorkOK, WorkGoesOn
  <2>7. ServerOK'
    BY <1>1, <2>1, <2>2, <2>3 DEF ServerOK
  <2> QED BY <2>5, <2>6, <2>7 DEF TypeOK
<1>3. CASE ReceiveDelta
  <2>1. PICK t \in Turn : ReceiveDelta!(t)
    BY <1>3 DEF ReceiveDelta
  <2>2. RowsOK'
    BY <1>1, <2>1 DEF RowsOK, Delta, MarkStreaming
  <2>3. WorkOK'
    BY <1>1, <2>1 DEF WorkOK, Delta, TurnStatus
  <2>4. ServerOK'
    BY <1>1, <2>1 DEF ServerOK, pushVars
  <2> QED BY <2>2, <2>3, <2>4 DEF TypeOK
<1>4. CASE SessionOpened
  <2>1. PICK s \in Session : SessionOpened!(s)
    BY <1>4 DEF SessionOpened
  <2>2. RowsOK'
    BY <1>1, <2>1 DEF RowsOK, MarkStreaming
  <2>3. WorkOK'
    BY <1>1, <2>1 DEF WorkOK, workVars
  <2>4. ServerOK'
    BY <1>1, <2>1, AttachOK DEF ServerOK
  <2> QED BY <2>2, <2>3, <2>4 DEF TypeOK
<1>5. CASE LinkChanges
  BY <1>1, <1>5 DEF LinkChanges, rowVars, workVars, TypeOK, RowsOK, WorkOK, ServerOK
<1>6. CASE Hydrated
  BY <1>1, <1>6 DEF Hydrated, workVars, pushVars, TypeOK, RowsOK, WorkOK, ServerOK
<1>7. CASE Removed
  BY <1>1, <1>7 DEF Removed, workVars, pushVars, TypeOK, RowsOK, WorkOK, ServerOK
<1>8. CASE Record
  <2>1. PICK s \in Session, e \in Notification : Record!(s, e)
    BY <1>8 DEF Record
  <2>2. RowsOK' /\ WorkOK'
    BY <1>1, <2>1 DEF rowVars, workVars, RowsOK, WorkOK
  <2>3. ledger[s] \in Seq(Notification)
    BY <1>1 DEF ServerOK
  <2>4. Append(ledger[s], e) \in Seq(Notification)
    BY <2>3, LedgerAppend
  <2>5. ServerOK'
    BY <1>1, <2>1, <2>4 DEF ServerOK, pushVars
  <2> QED BY <2>2, <2>5 DEF TypeOK
<1>9. CASE UNCHANGED vars
  BY <1>1, <1>9 DEF vars, rowVars, workVars, pushVars, TypeOK, RowsOK, WorkOK, ServerOK
<1> QED BY <1>2, <1>3, <1>4, <1>5, <1>6, <1>7, <1>8, <1>9 DEF Next, Folds, Rows

(* Every variable keeps its type, through every fold, list and drop; the    *)
(* flags in particular stay on sessions that have a row (sessions.rs 44-82).*)
THEOREM TypeCorrect == Spec => []TypeOK
<1>1. Init => TypeOK
  <2> SUFFICES ASSUME Init PROVE TypeOK
    OBVIOUS
  <2>1. <<>> \in Seq(Notification)
    BY EmptySeq
  <2> QED BY <2>1 DEF Init, TypeOK, RowsOK, WorkOK, ServerOK
<1> QED BY <1>1, TypeStep, PTL DEF Spec

-----------------------------------------------------------------------------
(* What ended stays ended *)

(* A turn that ended stays ended, however its notifications are replayed    *)
(* (turns.rs 39-41, state.rs 196-207).                                     *)
THEOREM EndedCorrect == Spec => EndedStaysEnded
<1> DEFINE Stays == \A t \in Turn : turns[t] \in Ended => turns'[t] \in Ended
<1>1. TypeOK /\ [Next]_vars => [Stays]_vars
  <2> SUFFICES ASSUME TypeOK, Next PROVE Stays
    OBVIOUS
  <2>1. CASE FoldDurable
    <3>1. PICK s \in attached : FoldDurable!(s)
      BY <2>1 DEF FoldDurable
    <3>2. s \in Session /\ WorkOK /\ ServerOK
      BY <3>1 DEF TypeOK, ServerOK
    <3>3. ledger[s][pos[s] + 1] \in Notification
      BY <3>1, <3>2, NextOnLedger
    <3> QED BY <3>1, <3>2, <3>3, ArmsOnWork DEF WorkGoesOn
  <2>2. CASE ReceiveDelta
    BY <2>2 DEF ReceiveDelta, Delta, TypeOK, WorkOK, Ended
  <2>3. CASE SessionOpened \/ LinkChanges \/ Hydrated \/ Removed \/ Record
    BY <2>3 DEF SessionOpened, LinkChanges, Hydrated, Removed, Record, workVars
  <2> QED BY <2>1, <2>2, <2>3 DEF Next, Folds, Rows
<1>2. Spec => [][Stays]_vars
  BY <1>1, TypeCorrect, PTL DEF Spec
<1> QED BY <1>2 DEF EndedStaysEnded

-----------------------------------------------------------------------------
(* The work dots *)

(* Every step keeps the dots true; a list reply puts them all out. *)
LEMMA DotsStep ==
  ASSUME TypeOK, Next
  PROVE  \/ Hydrated /\ active' = {}
         \/ /\ \A s \in active' : (s \in active => OpenWork(s)) => WorkIn(s, calls', tasks')
            /\ \A s \in active : s \notin active' =>
                 ~WorkIn(s, calls', tasks') \/ s \notin byId'
<1>1. RowsOK /\ WorkOK /\ ServerOK
  BY DEF TypeOK
<1>2. CASE FoldDurable
  <2>1. PICK s \in attached : FoldDurable!(s)
    BY <1>2 DEF FoldDurable
  <2>2. s \in Session /\ ledger[s][pos[s] + 1] \in Notification
    BY <1>1, <2>1, NextOnLedger DEF ServerOK
  <2>3. DotsAreTrue(active, active', calls', tasks')
    BY <1>1, <2>1, <2>2, ArmsOnDots
  <2> QED BY <2>3 DEF DotsAreTrue
<1>3. CASE UNCHANGED <<active, calls, tasks>>
  BY <1>3 DEF OpenWork
<1>4. CASE ReceiveDelta \/ SessionOpened \/ LinkChanges \/ Record
  BY <1>3, <1>4 DEF ReceiveDelta, Delta, SessionOpened, LinkChanges, Record, rowVars, workVars
<1>5. CASE Removed
  <2>1. PICK s \in byId : Removed!(s)
    BY <1>5 DEF Removed
  <2>2. byId' = byId \ {s} /\ active' = active \ {s} /\ calls' = calls /\ tasks' = tasks
    BY <2>1 DEF workVars
  <2> QED BY <2>2 DEF OpenWork
<1>6. CASE Hydrated
  BY <1>6 DEF Hydrated
<1> QED BY <1>2, <1>4, <1>5, <1>6 DEF Next, Folds, Rows

(* A lit work dot has an open tool call or task of that session behind it,  *)
(* for any number of calls and tasks (state.rs 505-511).                   *)
THEOREM ActiveCorrect == Spec => []ActiveHasWork
<1>1. Init => ActiveHasWork
  BY DEF Init, ActiveHasWork
<1>2. TypeOK /\ ActiveHasWork /\ [Next]_vars => ActiveHasWork'
  <2> SUFFICES ASSUME TypeOK, ActiveHasWork, [Next]_vars PROVE ActiveHasWork'
    OBVIOUS
  <2>1. CASE UNCHANGED vars
    BY <2>1 DEF vars, rowVars, workVars, ActiveHasWork, OpenWork, WorkIn
  <2>2. CASE Next
    <3>1. \A s \in active' : WorkIn(s, calls', tasks')
      BY <2>2, DotsStep DEF ActiveHasWork
    <3> QED BY <3>1 DEF ActiveHasWork, OpenWork, WorkIn
  <2> QED BY <2>1, <2>2
<1> QED BY <1>1, <1>2, TypeCorrect, PTL DEF Spec

(* A work dot goes out only when the work of its session is done, with its  *)
(* row, or with a list that replaces the rows (state.rs 222-306).          *)
THEOREM DarkCorrect == Spec => DarkMeansDone
<1> DEFINE Dark == \A s \in active : s \notin active' =>
                     ~WorkIn(s, calls', tasks') \/ s \notin byId' \/ Hydrated
<1>1. TypeOK /\ [Next]_vars => [Dark]_vars
  BY DotsStep
<1>2. Spec => [][Dark]_vars
  BY <1>1, TypeCorrect, PTL DEF Spec
<1> QED BY <1>2 DEF DarkMeansDone

-----------------------------------------------------------------------------
(* Nothing streams on.  The invariant relates the store to the positions    *)
(* of the ledger: what is still open in the store has not been folded to   *)
(* its end, and the dot has a turn behind it that started and did not end  *)
(* up to where the server pushes.                                          *)

Begins(l, t, i) == i \in DOMAIN l /\ l[i].n = "turn_started" /\ l[i].x = t
Ends(l, t, j) == j \in DOMAIN l /\ l[j].n \in {"turn_completed", "turn_error"} /\ l[j].x = t

(* A turn starts and then ends, in the ledger of its session. *)
Orderly(s, l) == \A t \in Turn :
  /\ \A i \in DOMAIN l : Begins(l, t, i) => SessionOf[t] = s
  /\ \A j \in DOMAIN l : Ends(l, t, j) => SessionOf[t] = s /\ \E i \in DOMAIN l : Begins(l, t, i)
  /\ \A i, j \in DOMAIN l : Begins(l, t, i) /\ Ends(l, t, j) => i < j

LedgersOK == \A s \in Session : Orderly(s, ledger[s])

PlacesOK == \A s \in Session : pos[s] <= Len(ledger[s]) /\ cursor[s] <= Len(ledger[s])

Open(status, buffered) == status \in {"pending", "streaming"} \/ buffered

(* The end of t, if it is recorded, is ahead of all that was folded.        *)
EndsAhead(t, l, c, p) == \A j \in DOMAIN l : Ends(l, t, j) => c < j /\ p < j

OpenEndsAhead == \A t \in Turn \ skipped :
  Open(turns[t], t \in text \cup thinking) =>
    LET s == SessionOf[t] IN
      EndsAhead(t, ledger[s], cursor[s], IF s \in attached THEN pos[s] ELSE 0)

(* A turn of s that started and did not end up to position p of l. *)
Lights(t, l, p) ==
  (\E i \in 1..p : Begins(l, t, i)) /\ \A j \in 1..p : ~Ends(l, t, j)

LitBySomeone == \A s \in attached \cap streaming :
  \E t \in Turn : Lights(t, ledger[s], pos[s])

StreamInv == LedgersOK /\ PlacesOK /\ OpenEndsAhead /\ LitBySomeone

(* What the server adds keeps a ledger in order. *)
LEMMA OrderlyAppend ==
  ASSUME NEW s \in Session, NEW l \in Seq(Notification), NEW e \in Notification,
         Orderly(s, l),
         e.n = "turn_started" => SessionOf[e.x] = s /\ \A i \in DOMAIN l : ~Begins(l, e.x, i),
         e.n \in {"turn_completed", "turn_error"} =>
           SessionOf[e.x] = s /\ \E i \in DOMAIN l : Begins(l, e.x, i)
  PROVE  Orderly(s, Append(l, e))
<1> DEFINE m == Append(l, e)
           n == Len(l)
<1>1. n \in Nat /\ DOMAIN l = 1..n /\ DOMAIN m = 1..n + 1 /\ m[n + 1] = e
      /\ \A i \in 1..n : m[i] = l[i]
  <2> HIDE DEF Notification
  <2> QED BY LedgerAppend
<1> HIDE DEF m, n
<1>4. 1..n + 1 = 1..n \cup {n + 1} /\ \A i \in 1..n : i < n + 1
  BY <1>1
<1> SUFFICES ASSUME NEW t \in Turn
             PROVE  /\ \A i \in 1..n + 1 : Begins(m, t, i) => SessionOf[t] = s
                    /\ \A j \in 1..n + 1 : Ends(m, t, j) =>
                         SessionOf[t] = s /\ \E i \in 1..n + 1 : Begins(m, t, i)
                    /\ \A i, j \in 1..n + 1 : Begins(m, t, i) /\ Ends(m, t, j) => i < j
  BY <1>1 DEF Orderly, m
<1>5. /\ \A i \in 1..n : Begins(l, t, i) => SessionOf[t] = s
      /\ \A j \in 1..n : Ends(l, t, j) => SessionOf[t] = s /\ \E i \in 1..n : Begins(l, t, i)
      /\ \A i, j \in 1..n : Begins(l, t, i) /\ Ends(l, t, j) => i < j
  BY <1>1 DEF Orderly
<1>6. \A i \in 1..n + 1 : Begins(m, t, i) => SessionOf[t] = s
  BY <1>1, <1>4, <1>5 DEF Begins
<1>7. \A j \in 1..n + 1 : Ends(m, t, j) => SessionOf[t] = s /\ \E i \in 1..n + 1 : Begins(m, t, i)
  BY <1>1, <1>4, <1>5 DEF Begins, Ends
<1>8. ASSUME NEW i \in 1..n + 1, NEW j \in 1..n + 1, Begins(m, t, i), Ends(m, t, j)
      PROVE  i < j
  <2>1. CASE i \in 1..n /\ j \in 1..n
    BY <1>1, <1>5, <1>8, <2>1 DEF Begins, Ends
  <2>2. CASE i \in 1..n /\ j = n + 1
    BY <1>4, <2>2
  <2>3. CASE i = n + 1 /\ j \in 1..n
    BY <1>1, <1>5, <1>8, <2>3 DEF Begins, Ends
  <2>4. CASE i = n + 1 /\ j = n + 1
    BY <1>1, <1>8, <2>4 DEF Begins, Ends
  <2> QED BY <1>4, <2>1, <2>2, <2>3, <2>4
<1> QED BY <1>6, <1>7, <1>8

(* What a fold does to turns, buffers and dots. *)
LEMMA ArmsOnTurns ==
  ASSUME RowsOK, WorkOK, NEW e \in Notification, Reduce(e)
  PROVE  /\ e.n = "turn_started" =>
              /\ turns' = [turns EXCEPT ![e.x] = IF @ = "absent" THEN "pending" ELSE @]
              /\ text' = text /\ thinking' = thinking
              /\ streaming' \subseteq streaming \cup {SessionOf[e.x]}
         /\ e.n \in {"turn_completed", "turn_error"} =>
              /\ \A t \in Turn : t # e.x => turns'[t] = turns[t]
              /\ turns'[e.x] \in Ended \cup {"absent"}
              /\ turns[e.x] = "absent" => turns'[e.x] = "absent"
              /\ text' = text \ {e.x} /\ thinking' = thinking \ {e.x}
              /\ streaming' \subseteq streaming \ {SessionOf[e.x]}
         /\ e.n \notin {"turn_started", "turn_completed", "turn_error"} =>
              turns' = turns /\ text' = text /\ thinking' = thinking /\ streaming' = streaming
<1>1. ASSUME NEW t \in Turn, NEW status \in Ended, EndTurn(t, status)
      PROVE  /\ \A u \in Turn : u # t => turns'[u] = turns[u]
             /\ turns'[t] \in Ended \cup {"absent"}
             /\ turns[t] = "absent" => turns'[t] = "absent"
             /\ text' = text \ {t} /\ thinking' = thinking \ {t}
             /\ streaming' \subseteq streaming \ {SessionOf[t]}
  BY <1>1 DEF EndTurn, MarkStreaming, RowsOK, WorkOK
<1>2. CASE e.n = "turn_completed"
  BY <1>1, <1>2, NotificationOK DEF Reduce, TurnCompleted, Ended
<1>3. CASE e.n = "turn_error"
  BY <1>1, <1>3, NotificationOK DEF Reduce, TurnError, Ended
<1>4. CASE e.n = "turn_started"
  BY <1>4 DEF Reduce, TurnStarted, MarkStreaming
<1>5. CASE e.n \notin {"turn_started", "turn_completed", "turn_error"}
  BY <1>5 DEF Reduce, ToolStarted, ToolProgress, ToolCompleted, TaskUpdated, Notice, workVars
<1> QED BY <1>2, <1>3, <1>4, <1>5

(* A fold: an end takes its turn along, a start has all its ends ahead. *)
LEMMA FoldStep ==
  ASSUME TypeOK, StreamInv, FoldDurable
  PROVE  StreamInv'
<1>1. PICK s \in attached : FoldDurable!(s)
  BY DEF FoldDurable
<1> DEFINE l == ledger[s]
           p == pos[s]
           e == l[p + 1]
<1>2. s \in Session /\ RowsOK /\ WorkOK /\ ServerOK /\ ledger' = ledger /\ attached' = attached
  BY <1>1 DEF TypeOK, ServerOK
<1>3. e \in Notification /\ p \in Nat /\ Len(l) \in Nat /\ DOMAIN l = 1..Len(l) /\ p < Len(l)
  BY <1>1, <1>2, NextOnLedger
<1>4. /\ pos' = [pos EXCEPT ![s] = p + 1] /\ cursor' = [cursor EXCEPT ![s] = p + 1]
      /\ Reduce(e)
  BY <1>1
<1>5. LedgersOK /\ PlacesOK /\ OpenEndsAhead /\ LitBySomeone /\ Orderly(s, l)
  BY <1>2 DEF StreamInv, LedgersOK
<1>6. cursor \in [Session -> Nat] /\ pos \in [Session -> Nat] /\ cursor[s] \in Nat
      /\ turns \in [Turn -> TurnStatus \cup {"absent"}]
  BY <1>2 DEF WorkOK, ServerOK
<1>7. p + 1 \in DOMAIN l /\ 1..p + 1 \subseteq DOMAIN l /\ 1..p + 1 = 1..p \cup {p + 1}
  BY <1>3
<1> HIDE DEF l, p, e
<1>8. e.n \in {"turn_started", "turn_completed", "turn_error"} =>
        e.x \in Turn /\ SessionOf[e.x] = s
  BY <1>3, <1>5, <1>7, NotificationOK DEF Orderly, Begins, Ends, e
<1>9. \A t \in Turn, j \in 1..p + 1 : e.n = "turn_started" /\ e.x = t => ~Ends(l, t, j)
  BY <1>3, <1>5, <1>7 DEF Orderly, Begins, Ends, e
<1>10. \A t \in Turn : ~(e.n \in {"turn_completed", "turn_error"} /\ e.x = t) =>
         ~Ends(l, t, p + 1)
  BY DEF Ends, e
<1>11. PlacesOK'
  <2> SUFFICES ASSUME NEW r \in Session
               PROVE  pos'[r] <= Len(ledger[r]) /\ cursor'[r] <= Len(ledger[r])
    BY <1>2 DEF PlacesOK
  <2>1. CASE r = s
    <3>1. pos'[s] = p + 1 /\ cursor'[s] = p + 1
      BY <1>2, <1>4, <1>6
    <3> QED BY <1>3, <2>1, <3>1 DEF l
  <2>2. CASE r # s
    <3>1. pos'[r] = pos[r] /\ cursor'[r] = cursor[r]
      BY <1>4, <1>6, <2>2
    <3> QED BY <1>5, <3>1 DEF PlacesOK
  <2> QED BY <2>1, <2>2
<1>12. OpenEndsAhead'
  <2> SUFFICES ASSUME NEW t \in Turn \ skipped', Open(turns'[t], t \in text' \cup thinking'),
                      NEW r, r = SessionOf[t]
               PROVE  EndsAhead(t, ledger[r], cursor'[r], IF r \in attached THEN pos'[r] ELSE 0)
    BY <1>2 DEF OpenEndsAhead
  <2>0. r \in Session
    BY HomesOK
  <2>1. CASE r # s
    <3>1. turns'[t] = turns[t] /\ (t \in text' \cup thinking' <=> t \in text \cup thinking)
      BY <1>2, <1>3, <1>4, <1>6, <1>8, <2>1, ArmsOnTurns
    <3>2. cursor'[r] = cursor[r] /\ pos'[r] = pos[r]
      BY <1>4, <1>6, <2>0, <2>1
    <3>3. Open(turns[t], t \in text \cup thinking)
      BY <3>1 DEF Open
    <3>4. t \notin skipped
      BY <1>1, <1>8, <2>1 DEF TurnEnds, e, l, p
    <3> QED BY <1>5, <3>2, <3>3, <3>4 DEF OpenEndsAhead
  <2>2. CASE r = s
    <3>1. pos'[s] = p + 1 /\ cursor'[s] = p + 1
      BY <1>2, <1>4, <1>6
    <3>2. ~(e.n \in {"turn_completed", "turn_error"} /\ e.x = t)
      BY <1>2, <1>3, <1>4, ArmsOnTurns DEF Open, Ended
    <3>3. t \notin skipped
      BY <1>1, <3>2 DEF TurnEnds, e, l, p
    <3>4. CASE e.n = "turn_started" /\ e.x = t
      <4>1. \A j \in DOMAIN l : Ends(l, t, j) => p + 1 < j
        BY <1>3, <1>9, <3>4
      <4> QED BY <1>1, <2>2, <3>1, <4>1 DEF EndsAhead, l
    <3>5. CASE ~(e.n = "turn_started" /\ e.x = t)
      <4>1. turns'[t] = turns[t] /\ (t \in text' \cup thinking' => t \in text \cup thinking)
        BY <1>2, <1>3, <1>4, <1>6, <1>8, <3>2, <3>5, ArmsOnTurns
      <4>2. Open(turns[t], t \in text \cup thinking)
        BY <4>1 DEF Open
      <4>3. \A j \in DOMAIN l : Ends(l, t, j) => p < j
        BY <1>1, <1>5, <2>2, <3>3, <4>2 DEF OpenEndsAhead, EndsAhead, l, p
      <4>4. \A j \in DOMAIN l : Ends(l, t, j) => p + 1 < j
        BY <1>3, <1>10, <3>2, <4>3
      <4> QED BY <1>1, <2>2, <3>1, <4>4 DEF EndsAhead, l
    <3> QED BY <3>4, <3>5
  <2> QED BY <2>1, <2>2
<1>13. LitBySomeone'
  <2> SUFFICES ASSUME NEW r \in attached \cap streaming'
               PROVE  \E t \in Turn : Lights(t, ledger[r], pos'[r])
    BY <1>2 DEF LitBySomeone
  <2>1. CASE r # s
    <3>1. pos'[r] = pos[r] /\ r \in streaming
      BY <1>2, <1>3, <1>4, <1>6, <1>8, <2>1, ArmsOnTurns
    <3> QED BY <1>5, <3>1 DEF LitBySomeone
  <2>2. CASE r = s
    <3>1. pos'[s] = p + 1
      BY <1>2, <1>4, <1>6
    <3>2. CASE e.n = "turn_started"
      <4>1. Begins(l, e.x, p + 1)
        BY <1>7, <3>2 DEF Begins, e
      <4>2. e.x \in Turn /\ \A j \in 1..p + 1 : ~Ends(l, e.x, j)
        BY <1>8, <1>9, <3>2
      <4>3. Lights(e.x, l, p + 1)
        BY <1>7, <4>1, <4>2 DEF Lights
      <4> QED BY <2>2, <3>1, <4>2, <4>3 DEF l
    <3>3. CASE e.n \notin {"turn_started", "turn_completed", "turn_error"}
      <4>1. s \in attached \cap streaming
        BY <1>2, <1>3, <1>4, <2>2, <3>3, ArmsOnTurns
      <4>2. PICK t \in Turn : Lights(t, l, p)
        BY <1>5, <4>1 DEF LitBySomeone, l, p
      <4>3. Lights(t, l, p + 1)
        BY <1>7, <1>10, <3>3, <4>2 DEF Lights
      <4> QED BY <2>2, <3>1, <4>3 DEF l
    <3>4. e.n \notin {"turn_completed", "turn_error"}
      BY <1>2, <1>3, <1>4, <1>8, <2>2, ArmsOnTurns
    <3> QED BY <3>2, <3>3, <3>4
  <2> QED BY <2>1, <2>2
<1>14. LedgersOK'
  BY <1>2, <1>5 DEF LedgersOK
<1> QED BY <1>11, <1>12, <1>13, <1>14 DEF StreamInv

(* A delta comes from a turn that runs: it has no end in the ledger. *)
LEMMA RunningOK ==
  ASSUME ServerOK, LedgersOK, NEW t \in Turn, Running(t)
  PROVE  LET s == SessionOf[t] IN
         /\ \E i \in DOMAIN ledger[s] : Begins(ledger[s], t, i)
         /\ \A j : ~Ends(ledger[s], t, j)
BY DEF Running, Started, Finished, Said, Begins, Ends

LEMMA DeltaStep ==
  ASSUME TypeOK, StreamInv, ReceiveDelta
  PROVE  StreamInv'
<1>1. PICK t \in Turn : ReceiveDelta!(t)
  BY DEF ReceiveDelta
<1> DEFINE s == SessionOf[t]
<1>2. /\ s \in Session /\ RowsOK /\ WorkOK /\ ServerOK
      /\ cursor' = cursor /\ ledger' = ledger /\ attached' = attached /\ pos' = pos
      /\ skipped' = skipped
      /\ Delta(t) /\ Running(t) /\ pos[s] = Len(ledger[s])
  BY <1>1, HomesOK DEF TypeOK, pushVars, CaughtUp
<1>3. LedgersOK /\ PlacesOK /\ OpenEndsAhead /\ LitBySomeone
  BY DEF StreamInv
<1>4. /\ \E i \in DOMAIN ledger[s] : Begins(ledger[s], t, i)
      /\ \A j : ~Ends(ledger[s], t, j)
  BY <1>2, <1>3, RunningOK
<1>5. DOMAIN ledger[s] = 1..pos[s]
  <2>1. ledger[s] \in Seq(Notification)
    BY <1>2 DEF ServerOK
  <2> HIDE DEF Notification
  <2> QED BY <1>2, <2>1, LenProperties
<1>6. /\ \A u \in Turn : u # t => turns'[u] = turns[u]
      /\ \A u \in Turn : u # t => (u \in text' \cup thinking' <=> u \in text \cup thinking)
      /\ streaming' \subseteq streaming \cup {s}
  BY <1>2 DEF Delta, MarkStreaming, WorkOK
<1> HIDE DEF s
<1>7. PlacesOK'
  BY <1>2, <1>3 DEF PlacesOK
<1>8. OpenEndsAhead'
  <2> SUFFICES ASSUME NEW u \in Turn \ skipped, Open(turns'[u], u \in text' \cup thinking'),
                      NEW r, r = SessionOf[u]
               PROVE  EndsAhead(u, ledger[r], cursor[r], IF r \in attached THEN pos[r] ELSE 0)
    BY <1>2 DEF OpenEndsAhead
  <2>1. CASE u = t
    BY <1>4, <2>1 DEF EndsAhead, s
  <2>2. CASE u # t
    <3>1. Open(turns[u], u \in text \cup thinking)
      BY <1>6, <2>2 DEF Open
    <3> QED BY <1>3, <3>1 DEF OpenEndsAhead
  <2> QED BY <2>1, <2>2
<1>9. LitBySomeone'
  <2> SUFFICES ASSUME NEW r \in attached \cap streaming'
               PROVE  \E u \in Turn : Lights(u, ledger[r], pos[r])
    BY <1>2 DEF LitBySomeone
  <2>1. CASE r \in streaming
    BY <1>3, <2>1 DEF LitBySomeone
  <2>2. CASE r = s
    <3>1. Lights(t, ledger[s], pos[s])
      BY <1>4, <1>5 DEF Lights
    <3> QED BY <2>2, <3>1
  <2> QED BY <1>6, <2>1, <2>2
<1>10. LedgersOK'
  BY <1>2, <1>3 DEF LedgersOK
<1> QED BY <1>7, <1>8, <1>9, <1>10 DEF StreamInv

(* A session that is opened has its dot out; what it passes over is noted.  *)
LEMMA OpenedStep ==
  ASSUME TypeOK, StreamInv, SessionOpened
  PROVE  StreamInv'
<1>1. PICK s \in Session : SessionOpened!(s)
  BY DEF SessionOpened
<1>2. /\ RowsOK /\ WorkOK /\ ServerOK /\ Attach(s)
      /\ cursor' = cursor /\ ledger' = ledger /\ turns' = turns
      /\ text' = text /\ thinking' = thinking
      /\ streaming' \subseteq streaming \ {s}
  BY <1>1 DEF TypeOK, workVars, MarkStreaming, RowsOK
<1>3. LedgersOK /\ PlacesOK /\ OpenEndsAhead /\ LitBySomeone
  BY DEF StreamInv
<1>4. cursor[s] \in Nat /\ pos \in [Session -> Nat] /\ Len(ledger[s]) \in Nat
      /\ DOMAIN ledger[s] = 1..Len(ledger[s])
      /\ pos[s] <= Len(ledger[s]) /\ cursor[s] <= Len(ledger[s]) /\ pos[s] \in Nat
  <2>1. ledger[s] \in Seq(Notification) /\ cursor[s] \in Nat /\ pos \in [Session -> Nat]
    BY <1>2 DEF WorkOK, ServerOK
  <2> HIDE DEF Notification
  <2> QED BY <1>3, <2>1, LenProperties DEF PlacesOK
<1>5. attached' = attached \cup {s} /\ \A r \in Session : r # s => pos'[r] = pos[r]
  BY <1>2, <1>4 DEF Attach, Resumes, Joins
<1>6. \/ pos'[s] <= cursor[s] /\ pos'[s] \in Nat /\ skipped' = skipped
      \/ s \in attached /\ pos' = pos /\ skipped' = skipped
      \/ pos'[s] = Len(ledger[s]) /\ skipped' = skipped \cup EndsPast(s)
  <2>1. CASE Resumes(s)
    <3>1. PICK c \in 1..cursor[s] : pos' = [pos EXCEPT ![s] = c]
      BY <2>1 DEF Resumes
    <3>2. pos'[s] = c
      BY <1>4, <3>1
    <3> QED BY <1>4, <2>1, <3>1, <3>2 DEF Resumes
  <2>2. CASE Joins(s)
    BY <1>4, <2>2 DEF Joins
  <2> QED BY <1>2, <2>1, <2>2 DEF Attach
<1>7. PlacesOK'
  <2> SUFFICES ASSUME NEW r \in Session
               PROVE  pos'[r] <= Len(ledger[r]) /\ cursor[r] <= Len(ledger[r])
    BY <1>2 DEF PlacesOK
  <2>1. pos'[s] <= Len(ledger[s])
    BY <1>4, <1>6
  <2> QED BY <1>3, <1>5, <2>1 DEF PlacesOK
<1>8. OpenEndsAhead'
  <2> SUFFICES ASSUME NEW t \in Turn \ skipped', Open(turns[t], t \in text \cup thinking),
                      NEW r, r = SessionOf[t]
               PROVE  EndsAhead(t, ledger[r], cursor[r], IF r \in attached' THEN pos'[r] ELSE 0)
    BY <1>2 DEF OpenEndsAhead
  <2>1. t \notin skipped /\ r \in Session
    BY <1>6, HomesOK
  <2>2. EndsAhead(t, ledger[r], cursor[r], IF r \in attached THEN pos[r] ELSE 0)
    BY <1>3, <2>1 DEF OpenEndsAhead
  <2>3. CASE r # s
    BY <1>5, <2>1, <2>2, <2>3
  <2>4. ASSUME r = s, NEW j \in DOMAIN ledger[s], Ends(ledger[s], t, j)
        PROVE  cursor[s] < j /\ pos'[s] < j
    <3>1. cursor[s] < j /\ (s \in attached => pos[s] < j) /\ j \in 1..Len(ledger[s])
      BY <1>4, <2>2, <2>4 DEF EndsAhead
    <3>2. CASE pos'[s] <= cursor[s] /\ pos'[s] \in Nat
      BY <1>4, <3>1, <3>2
    <3>3. CASE s \in attached /\ pos' = pos
      BY <3>1, <3>3
    <3>4. CASE skipped' = skipped \cup EndsPast(s)
      <4>1. j \in (cursor[s] + 1)..Len(ledger[s])
        BY <1>4, <3>1
      <4>2. t \in EndsPast(s)
        BY <2>4, <4>1 DEF EndsPast, Ends, TurnEnds
      <4> QED BY <3>4, <4>2
    <3> QED BY <1>6, <3>2, <3>3, <3>4
  <2>5. CASE r = s
    BY <1>5, <2>4, <2>5 DEF EndsAhead
  <2> QED BY <2>3, <2>5
<1>9. LitBySomeone'
  BY <1>2, <1>3, <1>5, HomesOK DEF LitBySomeone, RowsOK, TypeOK, ServerOK
<1>10. LedgersOK'
  BY <1>2, <1>3 DEF LedgersOK
<1> QED BY <1>7, <1>8, <1>9, <1>10 DEF StreamInv

(* The server records what is proper, behind every position. *)
LEMMA RecordStep ==
  ASSUME TypeOK, StreamInv, Record
  PROVE  StreamInv'
<1>1. PICK s \in Session, e \in Notification : Record!(s, e)
  BY DEF Record
<1> DEFINE l == ledger[s]
           m == Append(l, e)
<1>2. /\ WorkOK /\ ServerOK /\ Proper(s, e) /\ ledger' = [ledger EXCEPT ![s] = m]
      /\ turns' = turns /\ text' = text /\ thinking' = thinking
      /\ streaming' = streaming /\ cursor' = cursor /\ pos' = pos /\ attached' = attached
      /\ skipped' = skipped
  BY <1>1 DEF TypeOK, rowVars, workVars, pushVars
<1>3. LedgersOK /\ PlacesOK /\ OpenEndsAhead /\ LitBySomeone /\ Orderly(s, l)
  BY DEF StreamInv, LedgersOK
<1>4. l \in Seq(Notification) /\ ledger'[s] = m /\ \A r \in Session : r # s => ledger'[r] = ledger[r]
  BY <1>2 DEF ServerOK
<1>5. /\ Len(l) \in Nat /\ Len(m) = Len(l) + 1 /\ DOMAIN l = 1..Len(l)
      /\ DOMAIN m = 1..Len(l) + 1 /\ \A i \in 1..Len(l) : m[i] = l[i]
  <2> HIDE DEF Notification
  <2> QED BY <1>4, LedgerAppend
<1>6. pos[s] <= Len(l) /\ cursor[s] <= Len(l) /\ pos[s] \in Nat /\ cursor[s] \in Nat
  BY <1>2, <1>3 DEF PlacesOK, WorkOK, ServerOK
<1>7. Orderly(s, m)
  <2>1. e.n = "turn_started" => SessionOf[e.x] = s /\ \A i \in DOMAIN l : ~Begins(l, e.x, i)
    BY <1>2 DEF Proper, Started, Said, Begins
  <2>2. e.n \in {"turn_completed", "turn_error"} =>
          SessionOf[e.x] = s /\ \E i \in DOMAIN l : Begins(l, e.x, i)
    BY <1>2 DEF Proper, Running, Started, Said, Begins
  <2> HIDE DEF l
  <2> QED BY <1>3, <1>4, <2>1, <2>2, OrderlyAppend
<1> HIDE DEF l, m
<1>8. \A t \in Turn, i \in 1..Len(l) : (Ends(m, t, i) => Ends(l, t, i)) /\ (Begins(l, t, i) => Begins(m, t, i))
  BY <1>5 DEF Ends, Begins
<1>9. LedgersOK'
  BY <1>3, <1>4, <1>7 DEF LedgersOK
<1>10. PlacesOK'
  <2> SUFFICES ASSUME NEW r \in Session
               PROVE  pos[r] <= Len(ledger'[r]) /\ cursor[r] <= Len(ledger'[r])
    BY <1>2 DEF PlacesOK
  <2>1. pos[s] <= Len(m) /\ cursor[s] <= Len(m)
    BY <1>5, <1>6
  <2> QED BY <1>3, <1>4, <2>1 DEF PlacesOK
<1>11. OpenEndsAhead'
  <2> SUFFICES ASSUME NEW t \in Turn \ skipped, Open(turns[t], t \in text \cup thinking),
                      NEW r, r = SessionOf[t]
               PROVE  EndsAhead(t, ledger'[r], cursor[r], IF r \in attached THEN pos[r] ELSE 0)
    BY <1>2 DEF OpenEndsAhead
  <2>1. EndsAhead(t, ledger[r], cursor[r], IF r \in attached THEN pos[r] ELSE 0)
    BY <1>3 DEF OpenEndsAhead
  <2>2. CASE r = s
    <3>1. ASSUME NEW j \in DOMAIN m, Ends(m, t, j)
          PROVE  cursor[s] < j /\ (IF s \in attached THEN pos[s] ELSE 0) < j
      <4>1. CASE j \in 1..Len(l)
        BY <1>5, <1>8, <2>1, <2>2, <3>1, <4>1 DEF EndsAhead, l
      <4>2. CASE j = Len(l) + 1
        BY <1>5, <1>6, <4>2
      <4> QED BY <1>5, <3>1, <4>1, <4>2
    <3> QED BY <1>4, <2>2, <3>1 DEF EndsAhead
  <2>3. CASE r # s
    BY <1>4, <2>1, <2>3, HomesOK
  <2> QED BY <2>2, <2>3
<1>12. LitBySomeone'
  <2> SUFFICES ASSUME NEW r \in attached \cap streaming
               PROVE  \E t \in Turn : Lights(t, ledger'[r], pos[r])
    BY <1>2 DEF LitBySomeone
  <2>1. PICK t \in Turn : Lights(t, ledger[r], pos[r])
    BY <1>3 DEF LitBySomeone
  <2>2. CASE r = s
    <3>1. 1..pos[s] \subseteq 1..Len(l)
      BY <1>5, <1>6
    <3>2. Lights(t, m, pos[s])
      BY <1>8, <2>1, <2>2, <3>1 DEF Lights, l
    <3> QED BY <1>4, <2>2, <3>2
  <2>3. CASE r # s
    BY <1>2, <1>4, <2>1, <2>3 DEF ServerOK
  <2> QED BY <2>2, <2>3
<1> QED BY <1>9, <1>10, <1>11, <1>12 DEF StreamInv

LEMMA StreamStep == TypeOK /\ StreamInv /\ [Next]_vars => StreamInv'
<1> SUFFICES ASSUME TypeOK, StreamInv, [Next]_vars PROVE StreamInv'
  OBVIOUS
<1> USE DEF StreamInv, LedgersOK, PlacesOK, LitBySomeone
<1>1. CASE LinkChanges
  <2>1. /\ attached' = {} /\ pos' = [s \in Session |-> 0] /\ ledger' = ledger
        /\ cursor' = cursor /\ turns' = turns /\ text' = text /\ thinking' = thinking
        /\ skipped' = skipped
    BY <1>1 DEF LinkChanges, workVars
  <2>2. \A s \in Session : Len(ledger[s]) \in Nat /\ DOMAIN ledger[s] = 1..Len(ledger[s])
    <3> HIDE DEF Notification
    <3> QED BY LenProperties DEF TypeOK, ServerOK
  <2>3. OpenEndsAhead'
    <3> SUFFICES ASSUME NEW t \in Turn \ skipped, Open(turns[t], t \in text \cup thinking),
                        NEW r, r = SessionOf[t]
                 PROVE  EndsAhead(t, ledger[r], cursor[r], 0)
      BY <2>1 DEF OpenEndsAhead
    <3>1. \A j \in DOMAIN ledger[r] : 0 < j
      BY <2>2, HomesOK
    <3>2. EndsAhead(t, ledger[r], cursor[r], IF r \in attached THEN pos[r] ELSE 0)
      BY DEF OpenEndsAhead
    <3> QED BY <3>1, <3>2 DEF EndsAhead
  <2> QED BY <2>1, <2>2, <2>3
<1>2. CASE Hydrated \/ Removed
  <2>1. /\ attached' = attached /\ pos' = pos /\ ledger' = ledger /\ streaming' \subseteq streaming
        /\ cursor' = cursor /\ turns' = turns /\ text' = text /\ thinking' = thinking
        /\ skipped' = skipped
    BY <1>2 DEF Hydrated, Removed, workVars, pushVars
  <2>2. OpenEndsAhead'
    BY <2>1 DEF OpenEndsAhead
  <2> QED BY <2>1, <2>2
<1>3. CASE UNCHANGED vars
  BY <1>3 DEF vars, rowVars, workVars, pushVars, OpenEndsAhead
<1> QED BY <1>1, <1>2, <1>3, FoldStep, DeltaStep, OpenedStep, RecordStep DEF Next, Folds, Rows

(* When a session has been folded to the end of its ledger, no turn of it  *)
(* that ended is shown as running, but for those whose very end an open    *)
(* without a cursor passed over, whatever else was dropped, replayed or    *)
(* missed and whatever deltas came (state.rs 283-306, octos_ui.rs 580).    *)
THEOREM NothingStreamsCorrect == Spec => []NothingStreamsOn
<1>1. Init => StreamInv
  <2> SUFFICES ASSUME Init PROVE StreamInv
    OBVIOUS
  <2>1. /\ turns = [t \in Turn |-> "absent"] /\ attached = {} /\ streaming = {}
        /\ ledger = [s \in Session |-> <<>>] /\ cursor = [s \in Session |-> 0]
        /\ pos = [s \in Session |-> 0] /\ text = {} /\ thinking = {}
    BY DEF Init
  <2>2. Len(<<>>) = 0 /\ DOMAIN <<>> = {}
    OBVIOUS
  <2>3. LedgersOK
    BY <2>1, <2>2 DEF LedgersOK, Orderly
  <2>4. PlacesOK
    BY <2>1, <2>2 DEF PlacesOK
  <2>5. OpenEndsAhead /\ LitBySomeone
    BY <2>1 DEF OpenEndsAhead, LitBySomeone, Open
  <2> QED BY <2>3, <2>4, <2>5 DEF StreamInv
<1>2. TypeOK /\ StreamInv => NothingStreamsOn
  <2> SUFFICES ASSUME TypeOK, StreamInv, NEW s \in Session, CaughtUp(s)
               PROVE  /\ \A t \in Turn \ skipped : SessionOf[t] = s /\ Finished(t) =>
                           turns[t] \in Ended \cup {"absent"} /\ t \notin text \cup thinking
                      /\ s \in streaming => \E t \in Turn : SessionOf[t] = s /\ Running(t)
    BY DEF NothingStreamsOn
  <2> DEFINE l == ledger[s]
  <2>1. /\ LedgersOK /\ PlacesOK /\ OpenEndsAhead /\ LitBySomeone /\ Orderly(s, l)
        /\ s \in attached /\ pos[s] = Len(l) /\ WorkOK /\ ServerOK
    BY DEF StreamInv, LedgersOK, CaughtUp, TypeOK
  <2>2. DOMAIN l = 1..pos[s] /\ pos[s] \in Nat /\ cursor[s] \in Nat
    <3>1. l \in Seq(Notification) /\ cursor[s] \in Nat
      BY <2>1 DEF ServerOK, WorkOK
    <3> HIDE DEF Notification
    <3> QED BY <2>1, <3>1, LenProperties
  <2>3. ASSUME NEW t \in Turn \ skipped, SessionOf[t] = s, Finished(t)
        PROVE  turns[t] \in Ended \cup {"absent"} /\ t \notin text \cup thinking
    <3>1. PICK j \in 1..pos[s] : Ends(l, t, j)
      BY <2>2, <2>3 DEF Finished, Said, Ends
    <3>2. ~(pos[s] < j)
      BY <2>2, <3>1
    <3>3. ~Open(turns[t], t \in text \cup thinking)
      BY <2>1, <2>2, <2>3, <3>1, <3>2 DEF OpenEndsAhead, EndsAhead
    <3> QED BY <2>1, <2>3, <3>3 DEF Open, WorkOK, TurnStatus
  <2>4. ASSUME s \in streaming PROVE \E t \in Turn : SessionOf[t] = s /\ Running(t)
    <3>1. PICK t \in Turn : Lights(t, l, pos[s])
      BY <2>1, <2>4 DEF LitBySomeone
    <3>2. SessionOf[t] = s
      BY <2>1, <2>2, <3>1 DEF Lights, Orderly
    <3>3. Running(t)
      BY <2>2, <3>1, <3>2 DEF Lights, Begins, Ends, Running, Started, Finished, Said
    <3> QED BY <3>2, <3>3
  <2> QED BY <2>3, <2>4
<1> QED BY <1>1, <1>2, StreamStep, TypeCorrect, PTL DEF Spec
=============================================================================
