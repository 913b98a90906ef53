----------------------------- MODULE Shell_proofs -----------------------------
(***************************************************************************)
(* What holds of the application around the chat for every set of hosts,   *)
(* profiles, threads, sessions, files and conversations and any number of  *)
(* stimuli.  Each part is proved on its own, from the steps that Shell     *)
(* makes of it; Next maps to one of them or leaves the part alone.         *)
(***************************************************************************)
EXTENDS Shell, SequenceTheorems, TLAPS

LEMMA QueueOps ==
  ASSUME NEW S, NEW q \in Seq(S)
  PROVE  /\ q # <<>> => /\ Head(q) \in S /\ Tail(q) \in Seq(S) /\ 1 \in DOMAIN q /\ Head(q) = q[1]
                        /\ \A k \in DOMAIN Tail(q) : k + 1 \in DOMAIN q /\ Tail(q)[k] = q[k + 1]
         /\ \A e \in S : /\ Append(q, e) \in Seq(S) /\ Append(q, e) # <<>>
                         /\ \A k \in DOMAIN Append(q, e) :
                              \/ k \in DOMAIN q /\ Append(q, e)[k] = q[k]
                              \/ Append(q, e)[k] = e
BY HeadTailProperties, AppendProperties, EmptySeq, LenProperties

-----------------------------------------------------------------------------
(* Sign-in *)

(* The threads of a process that starts, with or without a new one. *)
LEMMA JobsOK ==
  ASSUME LoginTypeOK, NEW th \in Thread, NEW j \in Job \cup {NoJob}
  PROVE  [job EXCEPT ![th] = j] \in [Thread -> Job \cup {NoJob}]
BY DEF LoginTypeOK

LEMMA LoginTypeStep == LoginTypeOK /\ [LoginNext]_loginVars => LoginTypeOK'
<1> SUFFICES ASSUME LoginTypeOK, [LoginNext]_loginVars PROVE LoginTypeOK'
  OBVIOUS
<1>1. /\ conf \in Identity \cup {NoConf} /\ cached \in Identity \cup {NoConf}
      /\ tokens \subseteq Identity
      /\ agent \in [id : Identity \cup {NoConf}, bearer : BOOLEAN]
      /\ job \in [Thread -> Job \cup {NoJob}]
      /\ replies \in Seq(BOOLEAN) /\ signedIn \in BOOLEAN
  BY DEF LoginTypeOK
<1>2. \A c \in Identity : [at |-> "ask", id |-> c] \in Job
  BY DEF Job
<1>3. Default \in Identity /\ \A h \in DOMAIN Owner : h \in Host /\ Owner[h] \in Profile
  BY LoginAssumption
<1>4. \A c \in Identity \cup {NoConf} : \A t : Resolve(c, t) \in [id : Identity \cup {NoConf}, bearer : BOOLEAN]
  BY DEF Resolve
<1>5. \A b \in BOOLEAN : Append(replies, b) \in Seq(BOOLEAN)
  BY <1>1, QueueOps
<1>6. replies # <<>> => Tail(replies) \in Seq(BOOLEAN)
  BY <1>1, QueueOps
<1>7. <<>> \in Seq(BOOLEAN)
  BY EmptySeq
<1>8. ASSUME AutoSoloLogin
      PROVE  /\ conf' \in Identity \cup {NoConf} /\ cached' \in Identity \cup {NoConf}
             /\ job' \in [Thread -> Job \cup {NoJob}]
  <2>1. conf' \in Identity \cup {NoConf}
    BY <1>1, <1>3, <1>8 DEF AutoSoloLogin
  <2>2. CASE conf' = NoConf
    BY <1>1, <1>8, <2>2 DEF AutoSoloLogin
  <2>3. CASE conf' # NoConf
    <3>1. PICK th \in Thread : job' = [job EXCEPT ![th] = [at |-> "ask", id |-> conf']]
      BY <1>8, <2>3 DEF AutoSoloLogin
    <3>2. cached' = conf' /\ [at |-> "ask", id |-> conf'] \in Job
      BY <1>2, <1>8, <2>1, <2>3 DEF AutoSoloLogin
    <3> QED BY <2>1, <3>1, <3>2, JobsOK
  <2> QED BY <2>2, <2>3
<1> HIDE DEF Job, NoJob, Identity
<1>9. CASE SignOut
  BY <1>1, <1>8, <1>9 DEF SignOut, LoginTypeOK
<1>10. CASE ScanSucceeds
  BY <1>1, <1>4, <1>10 DEF ScanSucceeds, Provisioned, Connect, LoginTypeOK
<1>11. CASE ScanFails
  BY <1>1, <1>11 DEF ScanFails, Provisioned, LoginTypeOK
<1>12. CASE Restart
  <2>1. /\ tokens' = tokens /\ agent' = Resolve(conf, tokens) /\ signedIn' = TRUE /\ replies' = <<>>
    BY <1>12 DEF Restart, Connect
  <2>2. CASE conf \in tokens
    <3>1. cached' = conf /\ conf' = conf /\ job' = [th \in Thread |-> NoJob]
      BY <1>12, <2>2 DEF Restart
    <3> QED BY <1>1, <1>4, <1>7, <2>1, <3>1 DEF LoginTypeOK
  <2>3. CASE conf \notin tokens
    <3>1. /\ cached' = conf' /\ conf' \in Identity \cup {NoConf}
          /\ job' \in IF conf' = NoConf THEN {[th \in Thread |-> NoJob]}
                      ELSE {[[th \in Thread |-> NoJob] EXCEPT ![new] = [at |-> "ask", id |-> conf']] :
                              new \in Thread}
      BY <1>1, <1>3, <1>12, <2>3 DEF Restart
    <3>2. conf' # NoConf => [at |-> "ask", id |-> conf'] \in Job
      BY <1>2, <3>1
    <3>3. job' \in [Thread -> Job \cup {NoJob}]
      BY <3>1, <3>2
    <3> QED BY <1>1, <1>4, <1>7, <2>1, <3>1, <3>3 DEF LoginTypeOK
  <2> QED BY <2>2, <2>3
<1>13. CASE SoloThread
  <2>1. PICK th \in Thread : SoloAnswer(th) \/ StoreToken(th) \/ SaveConfig(th)
    BY <1>13 DEF SoloThread
  <2>2. job[th].at # "idle" => job[th] \in Job
    BY <1>1 DEF NoJob
  <2>3. ASSUME NEW b \in BOOLEAN, Reply(th, b)
        PROVE  job' \in [Thread -> Job \cup {NoJob}] /\ replies' \in Seq(BOOLEAN)
    <3>1. job' = [job EXCEPT ![th] = NoJob] /\ replies' = Append(replies, b)
      BY <2>3 DEF Reply
    <3> QED BY <1>5, <3>1, JobsOK
  <2>4. CASE SoloAnswer(th)
    <3> DEFINE j == [at |-> "store", id |-> [h |-> job[th].id.h, p |-> Owner[job[th].id.h]]]
    <3>1. job[th] \in Job
      BY <2>2, <2>4 DEF SoloAnswer
    <3>2. /\ job[th].id.h \in DOMAIN Owner => j \in Job
          /\ conf' = conf /\ tokens' = tokens /\ cached' = cached /\ agent' = agent
          /\ signedIn' = signedIn
      BY <1>3, <2>4, <3>1 DEF SoloAnswer, Job, Identity
    <3>3. \/ /\ job[th].id.h \in DOMAIN Owner
             /\ job' = [job EXCEPT ![th] = j]
             /\ replies' = replies
          \/ Reply(th, FALSE)
      BY <2>4 DEF SoloAnswer
    <3> HIDE DEF j
    <3>4. job' \in [Thread -> Job \cup {NoJob}] /\ replies' \in Seq(BOOLEAN)
      <4>1. CASE Reply(th, FALSE)
        BY <2>3, <4>1
      <4>2. CASE ~Reply(th, FALSE)
        BY <1>1, <3>2, <3>3, <4>2, JobsOK
      <4> QED BY <4>1, <4>2
    <3> QED BY <1>1, <3>2, <3>4 DEF LoginTypeOK
  <2>5. CASE StoreToken(th)
    <3>1. job[th] \in Job
      BY <2>2, <2>5 DEF StoreToken
    <3>2. /\ job[th].id \in Identity /\ [job[th] EXCEPT !.at = "save"] \in Job
      BY <3>1 DEF Job
    <3>3. conf' = conf /\ cached' = cached /\ agent' = agent /\ signedIn' = signedIn
      BY <2>5 DEF StoreToken
    <3>4. \/ /\ tokens' = tokens \cup {job[th].id}
             /\ job' = [job EXCEPT ![th] = [job[th] EXCEPT !.at = "save"]] /\ replies' = replies
          \/ Reply(th, FALSE) /\ tokens' = tokens
      BY <2>5 DEF StoreToken
    <3>5. job' \in [Thread -> Job \cup {NoJob}] /\ replies' \in Seq(BOOLEAN) /\ tokens' \subseteq Identity
      <4>1. CASE Reply(th, FALSE) /\ tokens' = tokens
        BY <1>1, <2>3, <4>1
      <4>2. CASE ~(Reply(th, FALSE) /\ tokens' = tokens)
        BY <1>1, <3>2, <3>4, <4>2, JobsOK
      <4> QED BY <4>1, <4>2
    <3> QED BY <1>1, <3>3, <3>5 DEF LoginTypeOK
  <2>6. CASE SaveConfig(th)
    <3>1. job[th] \in Job
      BY <2>2, <2>6 DEF SaveConfig
    <3>2. job[th].id \in Identity
      BY <3>1 DEF Job
    <3>3. job' \in [Thread -> Job \cup {NoJob}] /\ replies' \in Seq(BOOLEAN)
      BY <2>3, <2>6 DEF SaveConfig
    <3> QED BY <1>1, <2>6, <3>2, <3>3 DEF SaveConfig, LoginTypeOK
  <2> QED BY <2>1, <2>4, <2>5, <2>6
<1>14. CASE SoloSucceeds
  BY <1>1, <1>4, <1>6, <1>14 DEF SoloSucceeds, Connect, LoginTypeOK
<1>15. CASE SoloFails
  BY <1>1, <1>6, <1>15 DEF SoloFails, LoginTypeOK
<1>16. CASE UNCHANGED loginVars
  BY <1>1, <1>16 DEF loginVars, LoginTypeOK
<1> QED BY <1>9, <1>10, <1>11, <1>12, <1>13, <1>14, <1>15, <1>16 DEF LoginNext

LEMMA CurrentStep == LoginTypeOK /\ AgentIsCurrent /\ [LoginNext]_loginVars => AgentIsCurrent'
<1> SUFFICES ASSUME LoginTypeOK, AgentIsCurrent, [LoginNext]_loginVars,
                    \A th \in Thread : job'[th] = NoJob, replies' = <<>>, signedIn'
             PROVE  agent' = Resolve(conf', tokens')
  BY DEF AgentIsCurrent, Resolve, NoJob
<1>1. /\ tokens \subseteq Identity /\ replies \in Seq(BOOLEAN) /\ NoConf \notin Identity
      /\ job \in [Thread -> Job \cup {NoJob}]
  BY LoginAssumption DEF LoginTypeOK
<1>2. \A th \in Thread : ~Reply(th, FALSE) /\ ~Reply(th, TRUE)
  <2>1. \A b \in BOOLEAN : Append(replies, b) # <<>>
    BY <1>1, QueueOps
  <2>2. Append(replies, TRUE) # <<>> /\ Append(replies, FALSE) # <<>>
    BY <2>1
  <2> QED BY <2>2 DEF Reply
(* A bearer can go without a thread only when there is no configuration. *)
<1>3. CASE SignOut
  <2>1. /\ agent' = agent /\ replies' = replies /\ signedIn' = signedIn
        /\ tokens' \subseteq tokens /\ AutoSoloLogin
    BY <1>3 DEF SignOut
  <2>2. conf' = NoConf
    <3> SUFFICES ASSUME conf' # NoConf PROVE FALSE
      OBVIOUS
    <3>1. PICK th \in Thread : job' = [job EXCEPT ![th] = [at |-> "ask", id |-> conf']]
      BY <2>1 DEF AutoSoloLogin
    <3>2. job'[th] = [at |-> "ask", id |-> conf']
      BY <1>1, <3>1
    <3>3. job'[th].at = "ask" /\ job'[th].at = "idle"
      BY <3>2 DEF NoJob
    <3> QED BY <3>3
  <2>3. conf = NoConf /\ job' = job
    BY <1>1, <2>1, <2>2 DEF AutoSoloLogin, LoginTypeOK
  <2>4. agent = Resolve(conf, tokens)
    BY <2>1, <2>3 DEF AgentIsCurrent
  <2>5. NoConf \notin tokens /\ NoConf \notin tokens'
    BY <1>1, <2>1
  <2> QED BY <2>1, <2>2, <2>3, <2>4, <2>5 DEF Resolve
<1>4. CASE ScanSucceeds
  BY <1>4 DEF ScanSucceeds, Connect
<1>5. CASE ScanFails
  BY <1>5 DEF ScanFails
<1>6. CASE Restart
  <2>1. tokens' = tokens /\ agent' = Resolve(conf, tokens)
    BY <1>6 DEF Restart, Connect
  <2>2. conf' = conf
    <3>1. CASE conf \in tokens
      BY <1>6, <3>1 DEF Restart
    <3>2. CASE conf \notin tokens /\ conf' # NoConf
      <4>1. PICK new \in Thread :
              job' = [[th \in Thread |-> NoJob] EXCEPT ![new] = [at |-> "ask", id |-> conf']]
        BY <1>6, <3>2 DEF Restart
      <4>2. job'[new].at = "ask"
        BY <4>1
      <4>3. job'[new].at = "idle"
        BY DEF NoJob
      <4> QED BY <4>2, <4>3
    <3>3. CASE conf \notin tokens /\ conf' = NoConf
      BY <1>6, <3>3 DEF Restart
    <3> QED BY <3>1, <3>2, <3>3
  <2> QED BY <2>1, <2>2
<1>7. CASE SoloThread
  <2>1. PICK th \in Thread : SoloAnswer(th) \/ StoreToken(th) \/ SaveConfig(th)
    BY <1>7 DEF SoloThread
  <2>2. job'[th] = NoJob /\ job[th] \in Job \cup {NoJob}
    BY <1>1
  <2>3. CASE SoloAnswer(th)
    <3> DEFINE id == [h |-> job[th].id.h, p |-> Owner[job[th].id.h]]
    <3>1. job' = [job EXCEPT ![th] = [at |-> "store", id |-> id]]
      BY <1>2, <2>3 DEF SoloAnswer
    <3> HIDE DEF id
    <3>2. job'[th].at = "store"
      BY <1>1, <3>1
    <3> QED BY <2>2, <3>2 DEF NoJob
  <2>4. CASE StoreToken(th)
    <3>1. job' = [job EXCEPT ![th].at = "save"]
      BY <1>2, <2>4 DEF StoreToken
    <3>2. job[th] \in Job
      BY <2>2, <2>4 DEF StoreToken, NoJob
    <3>3. job'[th].at = "save"
      BY <1>1, <3>1, <3>2 DEF Job
    <3> QED BY <2>2, <3>3 DEF NoJob
  <2>5. CASE SaveConfig(th)
    BY <1>2, <2>5 DEF SaveConfig
  <2> QED BY <2>1, <2>3, <2>4, <2>5
<1>8. CASE SoloSucceeds
  BY <1>8 DEF SoloSucceeds, Connect
<1>9. CASE SoloFails
  BY <1>9 DEF SoloFails
<1>10. CASE UNCHANGED loginVars
  BY <1>10 DEF loginVars, AgentIsCurrent
<1> QED BY <1>3, <1>4, <1>5, <1>6, <1>7, <1>8, <1>9, <1>10 DEF LoginNext

(* Sign-in on its own: with every thread heard and the last sign-in not     *)
(* failed, the agent has the credentials that a restart would load         *)
(* (main.rs 3555-3583).                                                    *)
THEOREM LoginCorrect == LoginSpec => [](LoginTypeOK /\ AgentIsCurrent)
<1>1. LoginInit => LoginTypeOK /\ AgentIsCurrent
  <2>1. Default \in Identity /\ <<>> \in Seq(BOOLEAN)
    BY LoginAssumption, EmptySeq
  <2> SUFFICES ASSUME LoginInit PROVE LoginTypeOK /\ AgentIsCurrent
    OBVIOUS
  <2>2. agent \in [id : Identity \cup {NoConf}, bearer : BOOLEAN] /\ ~signedIn
    BY DEF LoginInit, Resolve
  <2>3. AgentIsCurrent
    BY <2>2 DEF AgentIsCurrent
  <2>4. job \in [Thread -> Job \cup {NoJob}]
    BY DEF LoginInit
  <2>5. LoginTypeOK
    BY <2>1, <2>2, <2>4 DEF LoginInit, LoginTypeOK
  <2> QED BY <2>3, <2>5
<1> QED BY <1>1, LoginTypeStep, CurrentStep, PTL DEF LoginSpec

(* The application does to sign-in what the sign-in's own specification     *)
(* allows, and nothing else (main.rs 5192-5312, 5711-5822).                *)
THEOREM ShellSignsIn == Spec => LoginSpec
<1>1. Init => LoginInit
  BY DEF Init
<1>2. [Next]_vars => [LoginNext]_loginVars
  BY DEF Next, vars, Scan, SoloReply, LoginOnly, Relaunch, Pick, OpenBrowser, NewChat, ListOnly,
         Connection, LibraryOnly, ToastsOnly, CardsOnly, LoginNext
<1> QED BY <1>1, <1>2, PTL DEF Spec, LoginSpec

(* AgentIsCurrent of the whole application. *)
THEOREM AgentCorrect == Spec => []AgentIsCurrent
BY LoginCorrect, ShellSignsIn, PTL

-----------------------------------------------------------------------------
(* Toasts *)

ToastsReset == toasts' = 0 /\ strip' = "empty" /\ link' = "Handshaking" /\ connection' = "Offline"

ToastStep ==
  Notify \/ TimerFires \/ (\E st \in LinkState : LinkChanges(st)) \/ NewLink \/ ToastsReset

LEMMA ShellToasts == [Next]_vars => [ToastStep]_toastVars
BY DEF Next, vars, Scan, SoloReply, Replaced, LoginOnly, Relaunch, Pick, OpenBrowser, NewChat, ListOnly,
       Connection, LibraryOnly, ToastsOnly, CardsOnly, ToastStep, ToastsReset

LEMMA ToastsKept ==
  ToastsTypeOK /\ ToastsAreTimed /\ [ToastStep]_toastVars => ToastsTypeOK' /\ ToastsAreTimed'
<1> SUFFICES ASSUME ToastsTypeOK, ToastsAreTimed, [ToastStep]_toastVars
             PROVE  ToastsTypeOK' /\ ToastsAreTimed'
  OBVIOUS
<1> USE ToastsAssumption DEF ToastsTypeOK, ToastsAreTimed
<1>1. Capacity \in Nat /\ Capacity > 0 /\ toasts \in Nat /\ toasts <= Capacity
  OBVIOUS
<1>2. ASSUME Push
      PROVE  toasts' \in 0..Capacity /\ strip' \in {"front", "evicted"}
  BY <1>1, <1>2 DEF Push, SyncToasts
<1>3. CASE Notify
  BY <1>2, <1>3 DEF Notify
<1>4. CASE TimerFires
  BY <1>1, <1>4 DEF TimerFires
<1>5. CASE \E st \in LinkState : LinkChanges(st)
  <2>1. PICK st \in LinkState : LinkChanges(st)
    BY <1>5
  <2>2. link' \in LinkState /\ connection' \in {"Offline", "Connected", "Reconnecting"}
    BY <2>1 DEF LinkChanges, ConnectionOf
  <2>3. CASE st = "Handshaking"
    BY <1>1, <2>1, <2>2, <2>3 DEF LinkChanges, SyncToasts
  <2>4. CASE st # "Handshaking"
    BY <1>2, <2>1, <2>2, <2>4 DEF LinkChanges
  <2> QED BY <2>3, <2>4
<1>6. CASE NewLink \/ ToastsReset
  BY <1>1, <1>6 DEF NewLink, ToastsReset, LinkState
<1>7. CASE UNCHANGED toastVars
  BY <1>7 DEF toastVars
<1> QED BY <1>3, <1>4, <1>5, <1>6, <1>7 DEF ToastStep

(* A queued toast is on the strip or will be, by a timer that runs, for     *)
(* every capacity (main.rs 4327-4348, 5939-5949).                          *)
THEOREM ToastsCorrect == Spec => [](ToastsTypeOK /\ ToastsAreTimed)
<1>1. Init => ToastsTypeOK /\ ToastsAreTimed
  BY ToastsAssumption DEF Init, ToastsInit, ToastsTypeOK, ToastsAreTimed, LinkState
<1> QED BY <1>1, ShellToasts, ToastsKept, PTL DEF Spec

-----------------------------------------------------------------------------
(* The session list *)

ListReset ==
  /\ rows' = {} /\ current' = NoSession /\ screen' = Home
  /\ deletes' = [s \in Session |-> "none"] /\ refused' = {}
  /\ asked' = 0 /\ wsLists' = <<>> /\ restLists' = <<>> /\ existing' = existing

ListStep ==
  \/ \E s \in Session : SelectRow(s) \/ DeleteRequested(s) \/ ChangeElsewhere(s)
  \/ Navigate("content") \/ Navigate("home")
  \/ \E s \in Session : DeleteSucceeds(s) \/ DeleteFails(s) \/ Rehydrate(s)
  \/ AskList \/ ServerLists \/ Hydrated \/ LoseRequests \/ NewAgent \/ ListReset

LEMMA ShellLists == [Next]_vars => [ListStep]_listVars
BY DEF Next, vars, Scan, SoloReply, Replaced, LoginOnly, Relaunch, Pick, OpenBrowser, NewChat, ListOnly,
       Connection, LibraryOnly, ToastsOnly, CardsOnly, DeleteThread, ListStep, ListReset

(* A session whose delete was refused is in every list on its way, and in   *)
(* the rows unless its own list is still to come.                          *)
RefusedComesBack == \A s \in refused :
  /\ s \in existing /\ deletes[s] # "deleting"
  /\ \A i \in DOMAIN wsLists : s \in wsLists[i]
  /\ \A i \in DOMAIN restLists : s \in restLists[i]
  /\ s \in rows \/ deletes[s] = "listing" \/ restLists # <<>>

LEMMA ListsKept ==
  SessionListTypeOK /\ RefusedComesBack /\ [ListStep]_listVars =>
    SessionListTypeOK' /\ RefusedComesBack'
<1> SUFFICES ASSUME SessionListTypeOK, RefusedComesBack, [ListStep]_listVars
             PROVE  SessionListTypeOK' /\ RefusedComesBack'
  OBVIOUS
<1> USE DEF RefusedComesBack
<1>1. /\ rows \subseteq Session /\ existing \subseteq Session /\ refused \subseteq Session
      /\ current \in Session \cup {NoSession} /\ screen \in Screen
      /\ deletes \in [Session -> {"none", "deleting", "listing"}]
      /\ asked \in 0..MaxLists /\ MaxLists \in Nat
      /\ wsLists \in Seq(SUBSET Session) /\ restLists \in Seq(SUBSET Session)
  BY SessionListAssumption DEF SessionListTypeOK
<1>2. /\ Append(wsLists, existing) \in Seq(SUBSET Session)
      /\ Append(restLists, existing) \in Seq(SUBSET Session) /\ Append(restLists, existing) # <<>>
      /\ \A i \in DOMAIN Append(wsLists, existing) :
           \/ i \in DOMAIN wsLists /\ Append(wsLists, existing)[i] = wsLists[i]
           \/ Append(wsLists, existing)[i] = existing
      /\ \A i \in DOMAIN Append(restLists, existing) :
           \/ i \in DOMAIN restLists /\ Append(restLists, existing)[i] = restLists[i]
           \/ Append(restLists, existing)[i] = existing
  <2>1. existing \in SUBSET Session
    BY <1>1
  <2> QED BY <1>1, <2>1, QueueOps
<1>3. CASE \E s \in Session : SelectRow(s)
  BY <1>1, <1>3 DEF SelectRow, SessionListTypeOK, Screen
<1>4. CASE \E s \in Session : DeleteRequested(s)
  BY <1>1, <1>4 DEF DeleteRequested, SessionListTypeOK
<1>5. CASE \E s \in Session : ChangeElsewhere(s)
  BY <1>1, <1>5 DEF ChangeElsewhere, rowsVars, SessionListTypeOK
<1>6. CASE Navigate("content") \/ Navigate("home")
  BY <1>1, <1>6 DEF Navigate, SessionListTypeOK, Screen
<1>7. CASE \E s \in Session : DeleteSucceeds(s)
  BY <1>1, <1>7 DEF DeleteSucceeds, rowsVars, SessionListTypeOK
<1>8. CASE \E s \in Session : DeleteFails(s)
  BY <1>1, <1>8 DEF DeleteFails, Refuse, OnTheWay, rowsVars, SessionListTypeOK
<1>9. CASE \E s \in Session : Rehydrate(s)
  <2>1. PICK s \in Session : Rehydrate(s)
    BY <1>9
  <2>2. CASE restLists' = Append(restLists, existing) /\ refused' = refused
    BY <1>1, <1>2, <2>1, <2>2 DEF Rehydrate, rowsVars, SessionListTypeOK
  <2>3. CASE refused' = refused \ {s} /\ restLists' = restLists
    BY <1>1, <2>1, <2>3 DEF Rehydrate, rowsVars, SessionListTypeOK
  <2> QED BY <2>1, <2>2, <2>3 DEF Rehydrate
<1>10. CASE AskList \/ LoseRequests
  <2>1. asked' \in 0..MaxLists
    BY <1>1, <1>10 DEF AskList, LoseRequests
  <2>2. UNCHANGED <<rowsVars, deletes, wsLists, restLists, existing, refused>>
    BY <1>10 DEF AskList, LoseRequests
  <2> QED BY <1>1, <2>1, <2>2 DEF rowsVars, SessionListTypeOK
<1>11. CASE ServerLists
  <2>1. asked' \in 0..MaxLists
    BY <1>1, <1>11 DEF ServerLists
  <2>2. /\ UNCHANGED <<rowsVars, deletes, restLists, existing, refused>>
        /\ wsLists' = Append(wsLists, existing) \/ wsLists' = wsLists
    BY <1>11 DEF ServerLists
  <2> QED BY <1>1, <1>2, <2>1, <2>2 DEF rowsVars, SessionListTypeOK
<1>12. CASE Hydrated
  <2>1. CASE wsLists # <<>> /\ wsLists' = Tail(wsLists) /\ Hydrate(Head(wsLists)) /\ restLists' = restLists
    <3>1. /\ Head(wsLists) \in SUBSET Session /\ Tail(wsLists) \in Seq(SUBSET Session)
          /\ 1 \in DOMAIN wsLists /\ Head(wsLists) = wsLists[1]
          /\ \A k \in DOMAIN Tail(wsLists) : k + 1 \in DOMAIN wsLists /\ Tail(wsLists)[k] = wsLists[k + 1]
      BY <1>1, <2>1, QueueOps
    <3> QED BY <1>1, <2>1, <3>1 DEF Hydrate, SessionListTypeOK
  <2>2. CASE restLists # <<>> /\ restLists' = Tail(restLists) /\ Hydrate(Head(restLists)) /\ wsLists' = wsLists
    <3>1. /\ Head(restLists) \in SUBSET Session /\ Tail(restLists) \in Seq(SUBSET Session)
          /\ 1 \in DOMAIN restLists /\ Head(restLists) = restLists[1]
          /\ \A k \in DOMAIN Tail(restLists) :
               k + 1 \in DOMAIN restLists /\ Tail(restLists)[k] = restLists[k + 1]
      BY <1>1, <2>2, QueueOps
    <3> QED BY <1>1, <2>2, <3>1 DEF Hydrate, SessionListTypeOK
  <2> QED BY <1>12, <2>1, <2>2 DEF Hydrated
<1>13. CASE NewAgent
  <2>1. PICK n \in 0..Len(wsLists) : wsLists' = SubSeq(wsLists, 1, n)
    BY <1>13 DEF NewAgent
  <2>2. /\ SubSeq(wsLists, 1, n) \in Seq(SUBSET Session)
        /\ \A i \in DOMAIN SubSeq(wsLists, 1, n) :
             i \in DOMAIN wsLists /\ SubSeq(wsLists, 1, n)[i] = wsLists[i]
    <3>1. Len(wsLists) \in Nat /\ DOMAIN wsLists = 1..Len(wsLists) /\ n \in Nat /\ n <= Len(wsLists)
      BY <1>1, <2>1, LenProperties
    <3>2. 1 \in 1..Len(wsLists) + 1 /\ n \in 1 - 1..Len(wsLists) /\ n - 1 + 1 = n
      BY <2>1, <3>1
    <3>3. /\ SubSeq(wsLists, 1, n) \in Seq(SUBSET Session) /\ Len(SubSeq(wsLists, 1, n)) = n
          /\ \A i \in 1..n : SubSeq(wsLists, 1, n)[i] = wsLists[i]
      BY <1>1, <3>1, <3>2, SubSeqProperties
    <3>4. DOMAIN SubSeq(wsLists, 1, n) = 1..n /\ 1..n \subseteq 1..Len(wsLists)
      BY <3>1, <3>3, LenProperties
    <3> QED BY <3>1, <3>3, <3>4
  <2> QED BY <1>1, <1>13, <2>1, <2>2 DEF NewAgent, rowsVars, SessionListTypeOK
<1>14. CASE ListReset
  <2>1. <<>> \in Seq(SUBSET Session)
    BY EmptySeq
  <2> QED BY <1>1, <1>14, <2>1 DEF ListReset, SessionListTypeOK, Home, Screen
<1>15. CASE UNCHANGED listVars
  BY <1>1, <1>15 DEF listVars, rowsVars, SessionListTypeOK
<1> QED BY <1>3, <1>4, <1>5, <1>6, <1>7, <1>8, <1>9, <1>10, <1>11, <1>12, <1>13, <1>14, <1>15
        DEF ListStep

LEMMA ListsHold == Spec => [](SessionListTypeOK /\ RefusedComesBack)
<1>1. Init => SessionListTypeOK /\ RefusedComesBack
  <2>1. <<>> \in Seq(SUBSET Session)
    BY EmptySeq
  <2> QED BY <2>1, SessionListAssumption
          DEF Init, SessionListInit, SessionListTypeOK, RefusedComesBack, Home, Screen
<1> QED BY <1>1, ShellLists, ListsKept, PTL DEF Spec

(* A session whose delete the server refused has its row back once no list  *)
(* is on its way, for any number of sessions, lists and deletes            *)
(* (app/sessions.rs 186-192).                                              *)
THEOREM RollBackCorrect == Spec => []FailedDeleteRollsBack
<1>1. SessionListTypeOK /\ RefusedComesBack => FailedDeleteRollsBack
  BY DEF SessionListTypeOK, RefusedComesBack, FailedDeleteRollsBack, ListsQuiet
<1> QED BY <1>1, ListsHold, PTL

-----------------------------------------------------------------------------
(* The content browser and the viewers *)

LibraryReset ==
  /\ filter' = "all" /\ searching' = FALSE /\ files' = {}
  /\ contentError' = FALSE /\ requests' = <<>>
  /\ viewer' = Closed /\ album' = {} /\ cache' = {} /\ fetchError' = FALSE
  /\ fetches' = [f \in File |-> 0] /\ silenced' = FALSE

BrowserStep ==
  OpenContent \/ (\E f \in Filter : SetFilter(f)) \/ SetSearch \/ ContentArrives

ViewerStep ==
  \/ \E f \in File : OpenViewer(f) \/ MarkdownLoaded(f) \/ MarkdownFailed(f)
  \/ CloseViewer \/ AlbumStep

LibraryStep == BrowserStep \/ ViewerStep \/ LibraryReset

LEMMA ShellLibrary == [Next]_vars => [LibraryStep]_libraryVars
BY DEF Next, vars, Scan, SoloReply, Replaced, LoginOnly, Relaunch, Pick, OpenBrowser, NewChat, ListOnly,
       Connection, LibraryOnly, ToastsOnly, CardsOnly, FetchThread, LibraryStep, BrowserStep,
       ViewerStep, LibraryReset

(* An album is open only under an image. *)
AlbumOfImages == album # {} => viewer.as = "image"

LibraryInv == LibraryTypeOK /\ AlbumOfImages /\ LoadingIsBacked

(* Without one of its elements, a sequence is one of the same kind. *)
LEMMA RemoveAtType ==
  ASSUME NEW S, NEW q \in Seq(S), NEW i \in DOMAIN q
  PROVE  RemoveAt(q, i) \in Seq(S)
<1>1. Len(q) \in Nat /\ DOMAIN q = 1..Len(q) /\ i \in 1..Len(q)
  BY LenProperties
<1>2. SubSeq(q, 1, i - 1) \in Seq(S) /\ SubSeq(q, i + 1, Len(q)) \in Seq(S)
  BY <1>1, SubSeqProperties
<1> QED BY <1>2, ConcatProperties DEF RemoveAt

LEMMA FileKinds == \A f \in File :
  /\ FileKind(f) \in {"image", "audio", "video", "markdown", "other"}
  /\ PaneOf(f) \in Pane
<1> SUFFICES ASSUME NEW f \in File
             PROVE  FileKind(f) \in {"image", "audio", "video", "markdown", "other"} /\ PaneOf(f) \in Pane
  OBVIOUS
<1>1. KindOf[f] \in {"image", "audio", "video", "report", "other"}
  BY LibraryAssumption DEF Category
<1>2. FileKind(f) \in {"image", "audio", "video", "markdown", "other"}
  BY <1>1 DEF FileKind
<1> QED BY <1>2 DEF PaneOf, Pane

LEMMA BrowserKept ==
  ASSUME LibraryInv, BrowserStep
  PROVE  LibraryInv'
<1>1. /\ filter \in Filter /\ searching \in BOOLEAN /\ files \subseteq File
      /\ contentError \in BOOLEAN /\ requests \in Seq(Query)
  BY DEF LibraryInv, LibraryTypeOK
<1>2. \A k \in Filter : ServerKind[k] \in Category \cup {"all"}
  BY DEF Filter, ServerKind, Category
<1>3. ASSUME NEW k \in Filter, NEW b \in BOOLEAN, Fire(k, b)
      PROVE  requests' \in Seq(Query)
  <2>1. [kind |-> ServerKind[k], q |-> b] \in Query
    BY <1>2 DEF Query
  <2> HIDE DEF Query
  <2> QED BY <1>1, <1>3, <2>1, QueueOps DEF Fire
<1>4. \A r \in Query : Answer(r) \subseteq File
  BY DEF Answer
<1>5. \A i \in DOMAIN requests : requests[i] \in Query /\ RemoveAt(requests, i) \in Seq(Query)
  <2> HIDE DEF Query
  <2>1. DOMAIN requests = 1..Len(requests)
    BY <1>1, LenProperties
  <2> QED BY <1>1, <2>1, ElementOfSeq, RemoveAtType
<1> HIDE DEF Query
<1>6. /\ filter' \in Filter /\ searching' \in BOOLEAN /\ files' \subseteq File
      /\ contentError' \in BOOLEAN /\ requests' \in Seq(Query)
  <2>1. CASE OpenContent
    BY <1>1, <1>3, <2>1 DEF OpenContent
  <2>2. CASE \E f \in Filter : SetFilter(f)
    BY <1>1, <1>3, <2>2 DEF SetFilter
  <2>3. CASE SetSearch
    BY <1>1, <2>3 DEF SetSearch
  <2>4. CASE ContentArrives
    <3>1. PICK i \in DOMAIN requests : ContentArrives!(i)
      BY <2>4 DEF ContentArrives
    <3>2. files' \subseteq File /\ contentError' \in BOOLEAN
      BY <1>1, <1>4, <1>5, <3>1
    <3> QED BY <1>1, <1>5, <3>1, <3>2
  <2> QED BY <2>1, <2>2, <2>3, <2>4 DEF BrowserStep
<1>7. UNCHANGED viewerVars
  BY DEF BrowserStep, OpenContent, SetFilter, SetSearch, ContentArrives
<1> QED BY <1>6, <1>7
        DEF LibraryInv, LibraryTypeOK, AlbumOfImages, LoadingIsBacked, Waiting, viewerVars

LEMMA ViewerKept ==
  ASSUME LibraryInv, ViewerStep
  PROVE  LibraryInv'
<1> DEFINE Viewers ==
      /\ viewer' \in [as : Pane, f : File] \cup {Closed} /\ album' \subseteq File
      /\ cache' \subseteq File /\ fetchError' \in BOOLEAN
      /\ fetches' \in [File -> 0..MaxRequests] /\ silenced' \in BOOLEAN
      /\ album' # {} => viewer'.as = "image"
      /\ viewer'.as = "markdown" /\ viewer'.f \notin cache' /\ ~fetchError' /\ ~silenced' =>
           fetches'[viewer'.f] > 0
<1>1. /\ files \subseteq File
      /\ viewer \in [as : Pane, f : File] \cup {Closed} /\ album \subseteq File
      /\ cache \subseteq File /\ fetchError \in BOOLEAN
      /\ fetches \in [File -> 0..MaxRequests] /\ silenced \in BOOLEAN
      /\ album # {} => viewer.as = "image"
      /\ Waiting /\ ~fetchError /\ ~silenced => fetches[viewer.f] > 0
      /\ MaxRequests \in Nat
  BY LibraryAssumption DEF LibraryInv, LibraryTypeOK, AlbumOfImages, LoadingIsBacked
<1>2. viewer.as = "markdown" => viewer.f \in File
  BY <1>1 DEF Closed
<1>3. CASE \E f \in File : OpenViewer(f)
  <2>1. PICK f \in File : OpenViewer(f)
    BY <1>3
  <2>2. /\ viewer' = [as |-> PaneOf(f), f |-> f] /\ fetchError' = FALSE /\ silenced' = FALSE
        /\ cache' = cache /\ PaneOf(f) \in Pane
        /\ album' = IF PaneOf(f) = "image" THEN Images ELSE {}
    BY <2>1, FileKinds DEF OpenViewer
  <2>3. /\ fetches' \in [File -> 0..MaxRequests]
        /\ PaneOf(f) = "markdown" /\ f \notin cache => fetches'[f] > 0
    <3>1. CASE PaneOf(f) = "markdown" /\ f \notin cache
      <4>1. fetches[f] \in Nat /\ fetches[f] + 1 \in 0..MaxRequests /\ fetches[f] + 1 > 0
            /\ fetches' = [fetches EXCEPT ![f] = fetches[f] + 1]
        BY <1>1, <2>1, <3>1 DEF OpenViewer
      <4> QED BY <1>1, <4>1
    <3>2. CASE ~(PaneOf(f) = "markdown" /\ f \notin cache)
      BY <1>1, <2>1, <3>2 DEF OpenViewer
    <3> QED BY <3>1, <3>2
  <2>4. album' \subseteq File /\ (album' # {} => viewer'.as = "image")
    BY <1>1, <2>2 DEF Images
  <2>5. Viewers
    BY <1>1, <2>2, <2>3, <2>4
  <2>6. UNCHANGED browserVars
    BY <2>1 DEF OpenViewer
  <2> QED BY <2>5, <2>6 DEF LibraryInv, LibraryTypeOK, AlbumOfImages, LoadingIsBacked, Waiting, browserVars
<1>4. CASE CloseViewer
  <2>1. Viewers
    BY <1>1, <1>4 DEF CloseViewer, Closed
  <2> QED BY <1>4, <2>1
          DEF CloseViewer, LibraryInv, LibraryTypeOK, AlbumOfImages, LoadingIsBacked, Waiting, browserVars
<1>5. CASE AlbumStep
  <2>1. PICK f \in album : AlbumStep!(f)
    BY <1>5 DEF AlbumStep
  <2>2. viewer.as = "image" /\ viewer \in [as : Pane, f : File] /\ f \in File
    BY <1>1, <2>1 DEF Closed
  <2>3. viewer' \in [as : Pane, f : File] /\ viewer'.as = "image"
    BY <2>1, <2>2
  <2>4. Viewers
    BY <1>1, <2>1, <2>3
  <2> QED BY <2>1, <2>4
          DEF LibraryInv, LibraryTypeOK, AlbumOfImages, LoadingIsBacked, Waiting, browserVars
<1>6. CASE \E f \in File : MarkdownLoaded(f)
  <2>1. PICK f \in File : MarkdownLoaded(f)
    BY <1>6
  <2>2. /\ fetches[f] > 0 /\ fetches' = [fetches EXCEPT ![f] = fetches[f] - 1]
        /\ cache' = cache \cup {f} /\ fetchError' = FALSE /\ viewer' = viewer /\ album' = album
        /\ silenced' = (silenced \/ (Waiting /\ viewer.f # f /\ fetchError /\ fetches[viewer.f] = 0))
    BY <2>1 DEF MarkdownLoaded, viewerVars
  <2>3. fetches' \in [File -> 0..MaxRequests] /\ \A g \in File : g # f => fetches'[g] = fetches[g]
    <3>1. fetches[f] \in Nat /\ fetches[f] - 1 \in 0..MaxRequests
      BY <1>1, <2>2
    <3> QED BY <1>1, <2>2, <3>1
  <2>4. silenced' \in BOOLEAN
    BY <1>1, <2>2 DEF Waiting
  <2>5. ASSUME viewer'.as = "markdown", viewer'.f \notin cache', ~silenced'
        PROVE  fetches'[viewer'.f] > 0
    <3>1. Waiting /\ viewer.f # f /\ viewer.f \in File /\ ~silenced
      BY <1>2, <2>2, <2>5 DEF Waiting
    <3>2. fetches[viewer.f] \in Nat
      BY <1>1, <3>1
    <3>3. fetches[viewer.f] > 0
      BY <1>1, <2>2, <2>5, <3>1, <3>2
    <3> QED BY <2>2, <2>3, <3>1, <3>3
  <2>6. Viewers
    BY <1>1, <2>2, <2>3, <2>4, <2>5
  <2>7. UNCHANGED browserVars
    BY <2>1 DEF MarkdownLoaded
  <2> QED BY <2>6, <2>7 DEF LibraryInv, LibraryTypeOK, AlbumOfImages, LoadingIsBacked, Waiting, browserVars
<1>7. CASE \E f \in File : MarkdownFailed(f)
  <2>1. PICK f \in File : MarkdownFailed(f)
    BY <1>7
  <2>2. fetches' \in [File -> 0..MaxRequests]
    BY <1>1, <2>1 DEF MarkdownFailed
  <2>3. Viewers
    BY <1>1, <2>1, <2>2 DEF MarkdownFailed
  <2> QED BY <2>1, <2>3
          DEF MarkdownFailed, LibraryInv, LibraryTypeOK, AlbumOfImages, LoadingIsBacked, Waiting, browserVars
<1> QED BY <1>3, <1>4, <1>5, <1>6, <1>7 DEF ViewerStep

LEMMA LibraryKept == LibraryInv /\ [LibraryStep]_libraryVars => LibraryInv'
<1> SUFFICES ASSUME LibraryInv, [LibraryStep]_libraryVars PROVE LibraryInv'
  OBVIOUS
<1>1. CASE LibraryReset
  <2>1. <<>> \in Seq(Query) /\ MaxRequests \in Nat
    BY EmptySeq, LibraryAssumption
  <2>2. fetches' \in [File -> 0..MaxRequests]
    BY <1>1, <2>1 DEF LibraryReset
  <2> QED BY <1>1, <2>1, <2>2
          DEF LibraryReset, LibraryInv, LibraryTypeOK, AlbumOfImages, LoadingIsBacked, Waiting, Closed, Filter
<1>2. CASE UNCHANGED libraryVars
  BY <1>2 DEF libraryVars, browserVars, viewerVars, LibraryInv, LibraryTypeOK, AlbumOfImages,
              LoadingIsBacked, Waiting
<1> QED BY <1>1, <1>2, BrowserKept, ViewerKept DEF LibraryStep

LEMMA LibraryHolds == Spec => []LibraryInv
<1>1. Init => LibraryInv
  <2> SUFFICES ASSUME Init PROVE LibraryInv
    OBVIOUS
  <2>1. <<>> \in Seq(Query) /\ MaxRequests \in Nat
    BY EmptySeq, LibraryAssumption
  <2>2. LibraryInit
    BY DEF Init
  <2>3. fetches \in [File -> 0..MaxRequests]
    BY <2>1, <2>2 DEF LibraryInit
  <2> QED BY <2>1, <2>2, <2>3
          DEF LibraryInit, LibraryInv, LibraryTypeOK, AlbumOfImages, LoadingIsBacked, Waiting, Closed, Filter
<1> QED BY <1>1, ShellLibrary, LibraryKept, PTL DEF Spec

(* An open document that is neither shown nor failed is being fetched, for  *)
(* any number of files and fetches (viewers.rs 119-147, main.rs 5686-5708). *)
THEOREM LoadingCorrect == Spec => []LoadingIsBacked
<1>1. LibraryInv => LoadingIsBacked
  BY DEF LibraryInv
<1> QED BY <1>1, LibraryHolds, PTL

-----------------------------------------------------------------------------
(* Cards *)

CardStep ==
  \/ CardAppears
  \/ \E i \in 1..MaxCards : Press(i)
  \/ \E c \in Conversation :
       CardInBackground(c) \/ SwitchToApp(c) \/ RouteToApp(c) \/ OpenNewApp(c) \/ Resume(c)
  \/ \E a \in asks : HistoryArrives(a)
  \/ ClearChat(Session) /\ asks' \subseteq asks
  \/ asks' = {} /\ UNCHANGED <<fg, open, surface, saved, history>>

LEMMA ShellCards == [Next]_vars => [CardStep]_cardVars
<1> SUFFICES ASSUME [Next]_vars PROVE [CardStep]_cardVars
  OBVIOUS
<1>1. CASE Scan \/ SoloReply \/ LoginOnly \/ Relaunch
  BY <1>1 DEF Scan, SoloReply, Replaced, LoginOnly, Relaunch, CardStep
<1>2. CASE Pick
  BY <1>2, ShellAssumption DEF Pick, CardStep
<1>3. CASE NewChat
  BY <1>3 DEF NewChat, CardStep
<1>4. CASE Connection
  BY <1>4 DEF Connection, CardStep, cardVars, surface
<1>5. CASE CardsOnly
  BY <1>5 DEF CardsOnly, CardStep
<1>6. CASE OpenBrowser \/ ListOnly \/ LibraryOnly \/ ToastsOnly \/ UNCHANGED vars
  BY <1>6 DEF OpenBrowser, ListOnly, LibraryOnly, ToastsOnly, vars
<1> QED BY <1>1, <1>2, <1>3, <1>4, <1>5, <1>6 DEF Next

(* A conversation that is not open has nothing saved; what is saved fits    *)
(* the screen.                                                             *)
SavedOK == \A c \in Conversation :
  Len(saved[c].messages) <= MaxCards /\ (c \notin open => saved[c] = Empty)

CardsInv == CardsTypeOK /\ SavedOK

LEMMA CardsConstants ==
  /\ First \in Boot /\ Boot \subseteq Conversation /\ MaxCards \in Nat /\ 1 <= MaxCards
  /\ Empty \in [messages : Seq(Card), values : Values] /\ Empty.messages = <<>>
  /\ <<>> \in Seq(Card) /\ Len(<<>>) = 0 /\ Blank \in Values
<1>1. <<>> \in Seq(Card) /\ Len(<<>>) = 0
  BY EmptySeq
<1>2. Blank \in Values
  BY DEF Blank, Values
<1> QED BY <1>1, <1>2, CardsAssumption DEF Empty

LEMMA CardsKept == CardsInv /\ [CardStep]_cardVars => CardsInv'
<1> SUFFICES ASSUME CardsInv, [CardStep]_cardVars PROVE CardsInv'
  OBVIOUS
<1> USE DEF CardsInv, CardsTypeOK, SavedOK
<1>1. /\ fg \in open /\ fg \in Conversation /\ open \subseteq Conversation
      /\ messages \in Seq(Card) /\ Len(messages) <= MaxCards /\ values \in Values
      /\ saved \in [Conversation -> [messages : Seq(Card), values : Values]]
      /\ history \in [Conversation -> 0..MaxCards] /\ asks \subseteq Conversation \X (0..MaxCards)
      /\ MaxCards \in Nat
  BY CardsConstants
<1>2. /\ Here \in [messages : Seq(Card), values : Values] /\ Here.messages = messages
      /\ Snapshot \in [Conversation -> [messages : Seq(Card), values : Values]]
      /\ Snapshot[fg] = Here /\ \A c \in Conversation : c # fg => Snapshot[c] = saved[c]
  BY <1>1 DEF Here, Snapshot
<1> HIDE DEF Values, Card, Empty
<1>3. CASE CardAppears
  <2>1. history'[fg] = history[fg] + 1 /\ history[fg] + 1 \in 1..MaxCards
        /\ history' = [history EXCEPT ![fg] = history[fg] + 1]
        /\ messages' = Append(messages, <<fg, history'[fg]>>) /\ Len(messages) < MaxCards
        /\ UNCHANGED <<fg, open, values, saved, asks>>
    BY <1>1, <1>3 DEF CardAppears
  <2>2. <<fg, history'[fg]>> \in Card
    BY <1>1, <2>1 DEF Card
  <2>3. messages' \in Seq(Card) /\ Len(messages') = Len(messages) + 1 /\ Len(messages) \in Nat
    BY <1>1, <2>1, <2>2, AppendProperties, LenProperties
  <2>4. history' \in [Conversation -> 0..MaxCards] /\ Len(messages') <= MaxCards
    BY <1>1, <2>1, <2>3
  <2> QED BY <1>1, <2>1, <2>3, <2>4
<1>4. CASE \E i \in 1..MaxCards : Press(i)
  <2>1. PICK i \in 1..MaxCards : Press(i)
    BY <1>4
  <2>2. messages[i] \in Card
    BY <1>1, <2>1, ElementOfSeq, LenProperties DEF Press
  <2>3. values' \in Values
    <3>1. values \in [1..MaxCards -> SUBSET Card]
      BY <1>1 DEF Values
    <3>2. values[i] \cup {messages[i]} \in SUBSET Card /\ {messages[i]} \in SUBSET Card
      BY <2>1, <2>2, <3>1
    <3>3. PICK v \in SUBSET Card : values' = [values EXCEPT ![i] = v]
      BY <2>1, <3>2 DEF Press
    <3> QED BY <3>1, <3>3 DEF Values
  <2> QED BY <1>1, <2>1, <2>3 DEF Press
<1>5. CASE \E c \in Conversation : CardInBackground(c)
  <2>1. PICK c \in Conversation : CardInBackground(c)
    BY <1>5
  <2>2. history' = [history EXCEPT ![c] = history[c] + 1] /\ history[c] + 1 \in 0..MaxCards
        /\ UNCHANGED <<fg, open, surface, saved, asks>>
    BY <1>1, <2>1 DEF CardInBackground
  <2> QED BY <1>1, <2>2 DEF surface
<1>6. CASE \E c \in Conversation : SwitchToApp(c)
  <2>1. PICK c \in Conversation : SwitchToApp(c)
    BY <1>6
  <2>2. /\ c \in open /\ fg' = c /\ saved' = Snapshot /\ messages' = saved[c].messages
        /\ values' = saved[c].values /\ UNCHANGED <<open, history, asks>>
    BY <2>1 DEF SwitchToApp, Show
  <2> QED BY <1>1, <1>2, <2>2
<1>7. CASE \E c \in Conversation : OpenNewApp(c)
  <2>1. PICK c \in Conversation : OpenNewApp(c)
    BY <1>7
  <2>2. /\ open' = open \cup {c} /\ fg' = c /\ saved' = Snapshot /\ messages' = Empty.messages
        /\ values' = Empty.values /\ UNCHANGED <<history, asks>>
    BY <2>1 DEF OpenNewApp, Show
  <2> QED BY <1>1, <1>2, <2>2, CardsConstants
<1>8. CASE \E c \in Conversation : RouteToApp(c)
  BY <1>1, <1>8 DEF RouteToApp, surface
<1>9. CASE \E c \in Conversation : Resume(c)
  <2>1. PICK c \in Conversation : Resume(c)
    BY <1>9
  <2>2. /\ open' = open \cup {c} /\ fg' = c /\ messages' = Empty.messages
        /\ values' = Empty.values /\ saved' = saved /\ history' = history
        /\ asks' \in {asks, asks \cup {<<c, history[c]>>}}
    BY <2>1 DEF Resume, Show
  <2>3. asks' \subseteq Conversation \X (0..MaxCards)
    BY <1>1, <2>2
  <2> QED BY <1>1, <2>2, <2>3, CardsConstants
<1>10. CASE \E a \in asks : HistoryArrives(a)
  <2>1. PICK a \in asks : HistoryArrives(a)
    BY <1>10
  <2>2. UNCHANGED <<fg, open, values, saved, history>> /\ asks' = asks \ {a}
    BY <2>1 DEF HistoryArrives
  <2>3. messages' \in Seq(Card) /\ Len(messages') <= MaxCards
    <3>1. CASE a[1] = fg
      <4>1. PICK n \in a[2]..history[fg] : messages' = [i \in 1..n |-> <<fg, i>>]
        BY <2>1, <3>1 DEF HistoryArrives
      <4>2. a[2] \in 0..MaxCards /\ history[fg] \in 0..MaxCards
        BY <1>1
      <4>3. n \in Nat /\ n <= MaxCards
        BY <1>1, <4>2
      <4>4. \A i \in 1..n : <<fg, i>> \in Card
        BY <1>1, <4>3 DEF Card
      <4>5. messages' \in [1..n -> Card]
        BY <4>1, <4>4
      <4> QED BY <4>3, <4>5
    <3>2. CASE a[1] # fg
      BY <1>1, <2>1, <3>2 DEF HistoryArrives
    <3> QED BY <3>1, <3>2
  <2> QED BY <1>1, <2>2, <2>3
<1>11. CASE ClearChat(Session) /\ asks' \subseteq asks
  <2>1. /\ fg' = First /\ open' = Boot /\ messages' = Empty.messages /\ values' = Empty.values
        /\ saved' = [c \in Conversation |-> Empty]
        /\ history' = [c \in Conversation |-> IF c \in Session THEN history[c] ELSE 0]
    BY <1>11 DEF ClearChat, Show
  <2>2. history' \in [Conversation -> 0..MaxCards]
    BY <1>1, <2>1
  <2> QED BY <1>1, <1>11, <2>1, <2>2, CardsConstants
<1>12. CASE asks' = {} /\ UNCHANGED <<fg, open, surface, saved, history>>
  BY <1>1, <1>12 DEF surface
<1>13. CASE UNCHANGED cardVars
  BY <1>1, <1>13 DEF cardVars, surface
<1> QED BY <1>3, <1>4, <1>5, <1>6, <1>7, <1>8, <1>9, <1>10, <1>11, <1>12, <1>13 DEF CardStep

LEMMA CardsHold == Spec => []CardsInv
<1>1. Init => CardsInv
  <2> SUFFICES ASSUME Init PROVE CardsInv
    OBVIOUS
  <2>1. /\ fg = First /\ open = Boot /\ messages = <<>> /\ values = Blank
        /\ saved = [c \in Conversation |-> Empty] /\ asks = {}
        /\ history = [c \in Conversation |-> IF c \in Session THEN 1 ELSE 0]
    BY DEF Init, CardsInit
  <2>2. history \in [Conversation -> 0..MaxCards]
    BY <2>1, CardsConstants
  <2> HIDE DEF Values, Card, Empty, Blank
  <2> QED BY <2>1, <2>2, CardsConstants DEF CardsInv, CardsTypeOK, SavedOK
<1> QED BY <1>1, ShellCards, CardsKept, PTL DEF Spec

(* Opening an app or switching to another changes no conversation and no    *)
(* card's state, for any number of apps, cards and states (main.rs         *)
(* 3910-4027).                                                             *)
THEOREM SwitchCorrect == Spec => SwitchKeepsConversations
<1> DEFINE Keeps == (\E c \in Conversation : SwitchToApp(c) \/ OpenNewApp(c)) =>
       \A c \in open : Conversing(c, fg', Here', saved') = Conversing(c, fg, Here, saved)
<1>1. CardsInv => Keeps
  <2> SUFFICES ASSUME CardsInv, NEW d \in Conversation, SwitchToApp(d) \/ OpenNewApp(d), NEW c \in open
               PROVE  Conversing(c, fg', Here', saved') = Conversing(c, fg, Here, saved)
    OBVIOUS
  <2>1. /\ fg \in open /\ open \subseteq Conversation /\ c \in Conversation
        /\ saved \in [Conversation -> [messages : Seq(Card), values : Values]]
    BY DEF CardsInv, CardsTypeOK
  <2>2. fg' = d /\ d # fg /\ saved' = [saved EXCEPT ![fg] = Here]
    BY <2>1 DEF SwitchToApp, OpenNewApp, Snapshot
  <2>3. CASE c = fg
    BY <2>1, <2>2, <2>3 DEF Conversing
  <2>4. CASE c # fg /\ c # d
    BY <2>1, <2>2, <2>4 DEF Conversing
  <2>5. CASE c # fg /\ c = d
    <3>1. messages' = saved[d].messages /\ values' = saved[d].values
      BY <2>5 DEF SwitchToApp, OpenNewApp, Show
    <3>2. saved[d] = [messages |-> saved[d].messages, values |-> saved[d].values]
      BY <2>1, <2>5
    <3>3. Here' = [messages |-> messages', values |-> values']
      BY DEF Here
    <3>4. Here' = saved[d]
      BY <3>1, <3>2, <3>3
    <3> QED BY <2>2, <2>5, <3>4 DEF Conversing
  <2> QED BY <2>3, <2>4, <2>5
<1>2. CardsInv => [Keeps]_cardVars
  BY <1>1
<1>3. Spec => [][Keeps]_cardVars
  BY <1>2, CardsHold, PTL
<1> QED BY <1>3 DEF SwitchKeepsConversations

(* Every step other than a late history keeps the states with their cards.  *)
LEMMA ApartStep ==
  ASSUME CardsInv, Apart, CardStep
  PROVE  Apart' \/ \E a \in asks : HistoryArrives(a)
<1> USE DEF OwnState
<1>1. /\ fg \in open /\ open \subseteq Conversation
      /\ messages \in Seq(Card) /\ values \in [1..MaxCards -> SUBSET Card]
      /\ saved \in [Conversation -> [messages : Seq(Card), values : Values]]
      /\ \A c \in Conversation \ open : saved[c] = Empty
  BY DEF CardsInv, CardsTypeOK, SavedOK, Values
<1>2. OwnState(Here) /\ \A c \in open : OwnState(saved[c])
  BY DEF Apart
<1>3. \A i \in 1..MaxCards : values[i] # {} => i \in DOMAIN messages /\ values[i] = {messages[i]}
  BY <1>1, <1>2 DEF Here
<1>4. OwnState(Empty)
  BY DEF Empty, Blank
<1>5. \A c \in Conversation : OwnState(saved[c])
  BY <1>1, <1>2, <1>4
<1>6. ASSUME OwnState([messages |-> messages', values |-> values']),
             \A c \in open' : OwnState(saved'[c])
      PROVE  Apart'
  BY <1>6 DEF Apart, Here
<1> HIDE DEF OwnState
<1>7. OwnState([messages |-> messages, values |-> values])
  BY <1>2 DEF Here
<1>8. CASE CardAppears
  <2>1. /\ values' = values /\ open' = open /\ saved' = saved
        /\ \E x \in Card : messages' = Append(messages, x)
    <3>1. fg \in Conversation /\ history'[fg] \in 1..MaxCards
      <4>1. fg \in Conversation /\ history \in [Conversation -> 0..MaxCards] /\ MaxCards \in Nat
        BY <1>1, CardsConstants DEF CardsInv, CardsTypeOK
      <4>2. history[fg] \in 0..MaxCards /\ history[fg] < MaxCards
            /\ history' = [history EXCEPT ![fg] = history[fg] + 1]
        BY <1>8, <4>1 DEF CardAppears
      <4> QED BY <4>1, <4>2
    <3>2. <<fg, history'[fg]>> \in Card
      BY <3>1 DEF Card
    <3> QED BY <1>8, <3>2 DEF CardAppears
  <2>2. \A i \in DOMAIN messages : i \in DOMAIN messages' /\ messages'[i] = messages[i]
    <3> HIDE DEF Card
    <3> QED BY <1>1, <2>1, AppendProperties, LenProperties
  <2>3. OwnState([messages |-> messages', values |-> values'])
    BY <1>1, <1>3, <2>1, <2>2 DEF OwnState
  <2> QED BY <1>2, <1>6, <2>1, <2>3
<1>9. CASE \E i \in 1..MaxCards : Press(i)
  <2>1. PICK i \in 1..MaxCards : Press(i)
    BY <1>9
  <2>2. /\ i \in DOMAIN messages /\ messages' = messages /\ open' = open /\ saved' = saved
        /\ \/ values' = [values EXCEPT ![i] = values[i] \cup {messages[i]}]
           \/ values' = [values EXCEPT ![i] = {messages[i]}]
    BY <2>1 DEF Press
  <2>3. values[i] \cup {messages[i]} = {messages[i]}
    BY <1>3
  <2>4. values' = [values EXCEPT ![i] = {messages[i]}]
    BY <2>2, <2>3
  <2>5. \A j \in 1..MaxCards : values'[j] # {} => j \in DOMAIN messages /\ values'[j] = {messages[j]}
    BY <1>1, <1>3, <2>2, <2>4
  <2>6. DOMAIN values' = 1..MaxCards
    BY <1>1, <2>4
  <2>7. OwnState([messages |-> messages', values |-> values'])
    BY <2>2, <2>5, <2>6 DEF OwnState
  <2> QED BY <1>2, <1>6, <2>2, <2>7
<1>10. ASSUME NEW r, OwnState(r), Show(r) PROVE OwnState([messages |-> messages', values |-> values'])
  BY <1>10 DEF Show, OwnState
<1>11. \A c \in Conversation : OwnState(Snapshot[c])
  BY <1>1, <1>2, <1>5 DEF Snapshot
<1>12. CASE \E c \in Conversation : SwitchToApp(c) \/ OpenNewApp(c)
  <2>1. PICK c \in Conversation : SwitchToApp(c) \/ OpenNewApp(c)
    BY <1>12
  <2>2. saved' = Snapshot /\ open' \subseteq Conversation
    BY <1>1, <2>1 DEF SwitchToApp, OpenNewApp
  <2>3. OwnState([messages |-> messages', values |-> values'])
    BY <1>4, <1>5, <1>10, <2>1 DEF SwitchToApp, OpenNewApp
  <2> QED BY <1>6, <1>11, <2>2, <2>3
<1>13. CASE \E c \in Conversation : Resume(c)
  <2>1. PICK c \in Conversation : Resume(c)
    BY <1>13
  <2>2. saved' = saved /\ open' \subseteq Conversation
    BY <1>1, <2>1 DEF Resume
  <2>3. OwnState([messages |-> messages', values |-> values'])
    BY <1>4, <1>10, <2>1 DEF Resume
  <2> QED BY <1>5, <1>6, <2>2, <2>3
<1>14. CASE ClearChat(Session)
  <2>1. \A c \in Conversation : OwnState(saved'[c])
    BY <1>4, <1>14 DEF ClearChat
  <2>2. open' \subseteq Conversation
    BY <1>14, CardsConstants DEF ClearChat
  <2>3. OwnState([messages |-> messages', values |-> values'])
    BY <1>4, <1>10, <1>14 DEF ClearChat
  <2> QED BY <1>6, <2>1, <2>2, <2>3
<1>15. CASE UNCHANGED <<messages, values, saved, open>>
  BY <1>2, <1>6, <1>7, <1>15
<1>16. CASE \E c \in Conversation : CardInBackground(c) \/ RouteToApp(c)
  BY <1>15, <1>16 DEF CardInBackground, RouteToApp, surface
<1>17. CASE asks' = {} /\ UNCHANGED <<fg, open, surface, saved, history>>
  BY <1>15, <1>17 DEF surface
<1> QED BY <1>8, <1>9, <1>12, <1>13, <1>14, <1>16, <1>17 DEF CardStep

(* Cards never share state, on the screen or in a snapshot, until a history *)
(* arrives over other cards, for any number of conversations and cards     *)
(* (main.rs 287-289, 5327-5364).                                           *)
THEOREM MixesCorrect == Spec => OnlyHistoryMixes
<1> DEFINE Stays == Apart => Apart' \/ \E a \in asks : HistoryArrives(a)
<1>1. CardsInv /\ [CardStep]_cardVars => [Stays]_cardVars
  BY ApartStep
<1>2. Spec => [][Stays]_cardVars
  BY <1>1, CardsHold, ShellCards, PTL DEF Spec
<1> QED BY <1>2 DEF OnlyHistoryMixes

-----------------------------------------------------------------------------
(* Every variable of the application keeps its type; in particular the      *)
(* queues stay within their bounds.                                        *)
THEOREM TypeCorrect == Spec => []TypeOK
<1>1. Init => stimuli \in 0..MaxStimuli
  BY ShellAssumption DEF Init
<1>2. stimuli \in 0..MaxStimuli /\ [Next]_vars => (stimuli \in 0..MaxStimuli)'
  BY ShellAssumption
     DEF Next, vars, Scan, SoloReply, Replaced, LoginOnly, Relaunch, Pick, OpenBrowser, NewChat,
         ListOnly, Connection, LibraryOnly, ToastsOnly, CardsOnly, Stimulus
<1>3. Spec => [](stimuli \in 0..MaxStimuli)
  BY <1>1, <1>2, PTL DEF Spec
<1>4. LibraryInv => LibraryTypeOK
  BY DEF LibraryInv
<1>5. CardsInv => CardsTypeOK
  BY DEF CardsInv
<1>6. LoginTypeOK /\ SessionListTypeOK /\ LibraryTypeOK /\ ToastsTypeOK /\ CardsTypeOK
        /\ stimuli \in 0..MaxStimuli => TypeOK
  BY DEF TypeOK
<1> QED BY <1>3, <1>4, <1>5, <1>6, LoginCorrect, ShellSignsIn, ListsHold, LibraryHolds,
           ToastsCorrect, CardsHold, PTL
=============================================================================
