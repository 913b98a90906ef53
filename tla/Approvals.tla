------------------------------ MODULE Approvals ------------------------------
(***************************************************************************)
(* Approval cards: the slice of the store (store/approvals.rs), the pane   *)
(* that draws it and turns clicks into answers (app/approvals.rs), the     *)
(* folding of answers and replies on the UI thread (main.rs), and the task *)
(* that awaits each reply (octos_ui.rs).  A notification and a reply reach *)
(* the UI thread on different paths, so they may arrive in any order.      *)
(*                                                                         *)
(* The server is external: it keeps one decision for each approval and     *)
(* answers a later response with the decision that it recorded.            *)
(***************************************************************************)
EXTENDS Naturals, Sequences

CONSTANTS
  Approval,
  Decision,       \* decisions that the server may record
  Button,         \* decisions that this client can name: approve and deny
  Undecided,      \* stands where there is no decision
  MaxClicks,      \* bound: clicks on the buttons of cards
  EventCap,       \* bound: notifications waiting for the UI thread
  MayLose,        \* may a request or its reply be lost with a socket?
  MayReplace      \* may a login replace the agent?

ASSUME ApprovalsAssumption ==
  /\ Button # {} /\ Button \subseteq Decision
  /\ Undecided \notin Decision
  /\ {"none", "pending", "cancelled"} \cap Decision = {}
  /\ MaxClicks \in Nat /\ EventCap \in Nat
  /\ MayLose \in BOOLEAN /\ MayReplace \in BOOLEAN

VARIABLES
  \* the slice
  state,      \* by_id and state: the lifecycle of each card
  order,      \* pending_order
  \* the UI thread
  shown,      \* the cards as last drawn: which approval, and are there buttons?
  click,      \* a click on a drawn card that the pane has not handled
  posted,     \* Cx::post_action: answers to send and replies to fold
  clicks,     \* how many clicks there were (each answer carries its number)
  \* the agent
  agent,      \* is the transport task alive?
  wire,       \* answers on their way to the server, in order
  replies,    \* replies on their way back
  lost,       \* answers registered with the transport that nobody will answer
  events,     \* notifications that wait for the UI thread
  \* the server
  server      \* per approval, what the server knows

sliceVars == <<state, order>>
uiVars    == <<shown, click, posted, clicks>>
agentVars == <<agent, wire, replies, lost>>
vars == <<sliceVars, uiVars, agentVars, events, server>>

MaybeDecision == Decision \cup {Undecided}
Tag == {"absent", "awaiting", "pending", "decided", "failed"}
CardState == [tag : Tag, d : MaybeDecision]
Card(tag, d) == [tag |-> tag, d |-> d]

Answer == [n : 1..MaxClicks, a : Approval, d : Button]
Outcome == {"accepted", "not_pending", "error"}
Reply == [n : 1..MaxClicks, a : Approval, d : Button,
          outcome : Outcome, rec : MaybeDecision]
Ui == [kind : {"ui"}, n : 1..MaxClicks, a : Approval, d : Button]
Async == [kind : {"async"}, a : Approval, d : Button,
          outcome : Outcome, rec : MaybeDecision]
Notice == [kind : {"requested", "decided", "cancelled"},
           a : Approval, d : MaybeDecision]
NoClick == [i |-> 0, a |-> Undecided, d |-> Undecided]

TypeOK ==
  /\ state \in [Approval -> CardState] /\ order \in Seq(Approval)
  /\ shown \in Seq([a : Approval, open : BOOLEAN])
  /\ click \in [i : Nat \ {0}, a : Approval, d : Button] \cup {NoClick}
  /\ clicks \in 0..MaxClicks /\ (click # NoClick => clicks # 0)
  /\ posted \in Seq(Ui \cup Async)
  /\ agent \in {"up", "down"}
  /\ wire \in Seq(Answer) /\ replies \subseteq Reply /\ lost \subseteq Answer
  /\ events \in Seq(Notice)
  /\ server \in [Approval -> {"none", "pending", "cancelled"} \cup Decision]

Init ==
  /\ state = [a \in Approval |-> Card("absent", Undecided)] /\ order = <<>>
  /\ shown = <<>> /\ click = NoClick /\ posted = <<>> /\ clicks = 0
  /\ agent = "up" /\ wire = <<>> /\ replies = {} /\ lost = {}
  /\ events = <<>>
  /\ server = [a \in Approval |-> "none"]

-----------------------------------------------------------------------------
(* The slice *)

Known(a) == state[a].tag # "absent"
Queued(a) == \E i \in DOMAIN order : order[i] = a

RemoveAt(s, i) == SubSeq(s, 1, i - 1) \o SubSeq(s, i + 1, Len(s))

(* retain: the order never lists an approval twice (SliceShape), so one    *)
(* occurrence is all of them.                                              *)
Retain(s, a) == IF \E i \in DOMAIN s : s[i] = a
                THEN RemoveAt(s, CHOOSE i \in DOMAIN s : s[i] = a)
                ELSE s

(* Mutants of requested: it looks at nothing; it looks at the queue only. *)
requestedAlways(a) ==
  /\ order' = Append(order, a)
  /\ state' = [state EXCEPT ![a] = Card("awaiting", Undecided)]

requestedUnlessQueued(a) ==
  IF Queued(a) THEN UNCHANGED sliceVars ELSE requestedAlways(a)

requested(a) ==
  IF Known(a) THEN UNCHANGED sliceVars
  ELSE /\ order' = Append(order, a)
       /\ state' = [state EXCEPT ![a] = Card("awaiting", Undecided)]

pending_response(a, d) ==
  /\ state' = IF Known(a) THEN [state EXCEPT ![a] = Card("pending", d)] ELSE state
  /\ UNCHANGED order

(* Mutant of decided: a card that left the queue is settled already. *)
decidedIfQueued(a, d) ==
  IF Queued(a)
  THEN /\ state' = [state EXCEPT ![a] = Card("decided", d)]
       /\ order' = Retain(order, a)
  ELSE UNCHANGED sliceVars

decided(a, d) ==
  IF Known(a)
  THEN /\ state' = [state EXCEPT ![a] = Card("decided", d)]
       /\ order' = Retain(order, a)
  ELSE UNCHANGED sliceVars

failed(a) ==
  /\ state' = IF Known(a) THEN [state EXCEPT ![a] = Card("failed", Undecided)] ELSE state
  /\ UNCHANGED order

(* Mutant of cancelled: a cancellation is ignored. *)
cancelledIgnored(a) == UNCHANGED sliceVars

cancelled(a) ==
  IF Known(a)
  THEN /\ state' = [state EXCEPT ![a] = Card("failed", Undecided)]
       /\ order' = Retain(order, a)
  ELSE UNCHANGED sliceVars

-----------------------------------------------------------------------------
(* The UI thread *)

(* Only a card that awaits an answer has buttons: the row of controls is   *)
(* hidden once it failed or was decided, the buttons while it is sent.     *)
HasButtons(a) == state[a].tag = "awaiting"

(* The pane lists the queue, then the other settled cards in the order in  *)
(* which the hash map yields them.                                         *)
Below == {a \in Approval : ~Queued(a) /\ state[a].tag \in {"decided", "failed"}}
CardAt(i) == IF i \in DOMAIN order THEN {order[i]} ELSE Below

(* draw_walk and populate_card: the cards below the queue have no buttons. *)
Draw ==
  /\ shown' = [i \in 1..Len(order) |-> [a |-> order[i], open |-> HasButtons(order[i])]]
  /\ shown' # shown
  /\ UNCHANGED <<sliceVars, click, posted, clicks, agentVars, events, server>>

(* Mutant of Click: cards are counted from 0. *)
ClickFromZero ==
  /\ click = NoClick /\ clicks < MaxClicks /\ clicks' = clicks + 1
  /\ \E i \in DOMAIN shown, d \in Button :
       /\ shown[i].open
       /\ click' = [i |-> i - 1, a |-> shown[i].a, d |-> d]
  /\ UNCHANGED <<sliceVars, shown, posted, agentVars, events, server>>

Click ==
  /\ click = NoClick /\ clicks < MaxClicks /\ clicks' = clicks + 1
  /\ \E i \in DOMAIN shown, d \in Button :
       /\ shown[i].open
       /\ click' = [i |-> i, a |-> shown[i].a, d |-> d]
  /\ UNCHANGED <<sliceVars, shown, posted, agentVars, events, server>>

(* The pane looks the index of the clicked widget up in a list that it     *)
(* collects anew; post_decision refuses a card that is sent or decided.    *)
(* An index past the end of the list is ignored.                           *)
HandleClick ==
  /\ click # NoClick /\ click' = NoClick
  /\ \/ \E a \in CardAt(click.i) :
          posted' = IF state[a].tag \in {"pending", "decided"} THEN posted
                    ELSE Append(posted, [kind |-> "ui", n |-> clicks, a |-> a, d |-> click.d])
     \/ click.i \notin DOMAIN order /\ UNCHANGED posted
  /\ UNCHANGED <<sliceVars, shown, clicks, agentVars, events, server>>

PostReply(q, a, d, outcome, rec) ==
  Append(q, [kind |-> "async", a |-> a, d |-> d, outcome |-> outcome, rec |-> rec])

(* Mutant of Respond: an answer that cannot be sent is dropped silently. *)
RespondSilent(q, u) ==
  /\ wire' = IF agent = "up" THEN Append(wire, [n |-> u.n, a |-> u.a, d |-> u.d])
             ELSE wire
  /\ posted' = q

(* ApprovalHandle::respond: try_send, or a failure posted at once. *)
Respond(q, u) ==
  \/ /\ agent = "up"
     /\ wire' = Append(wire, [n |-> u.n, a |-> u.a, d |-> u.d])
     /\ posted' = q
  \/ /\ agent = "down" \/ MayLose      \* closed, or full
     /\ posted' = PostReply(q, u.a, u.d, "error", Undecided)
     /\ UNCHANGED wire

(* handle_actions folds one batch of posted actions: first every answer in *)
(* it, then every reply, so a reply may be overtaken by a later answer.    *)
FoldAnswer ==
  /\ \E i \in DOMAIN posted :
       /\ posted[i].kind = "ui"
       /\ \A j \in 1..i - 1 : posted[j].kind = "async"
       /\ pending_response(posted[i].a, posted[i].d)
       /\ Respond(RemoveAt(posted, i), posted[i])
  /\ UNCHANGED <<shown, click, clicks, agent, replies, lost, events, server>>

(* Mutant of Recorded: the server's recorded decision is not read. *)
RecordedOwn(r) == r.d

(* parse_recorded_decision, with the answer's own decision as fallback *)
Recorded(r) == IF r.rec \in Button THEN r.rec ELSE r.d

FoldReply ==
  /\ posted # <<>> /\ Head(posted).kind = "async"
  /\ LET r == Head(posted) IN
       CASE r.outcome = "accepted"    -> decided(r.a, r.d)
         [] r.outcome = "not_pending" -> decided(r.a, Recorded(r))
         [] r.outcome = "error"       -> failed(r.a)
  /\ posted' = Tail(posted)
  /\ UNCHANGED <<shown, click, clicks, agentVars, events, server>>

(* The reducer on one notification (state.rs); auto_resolved is decided. *)
FoldNotice ==
  /\ events # <<>>
  /\ LET e == Head(events) IN
       CASE e.kind = "requested" -> requested(e.a)
         [] e.kind = "decided"   -> decided(e.a, e.d)
         [] e.kind = "cancelled" -> cancelled(e.a)
  /\ events' = Tail(events)
  /\ UNCHANGED <<uiVars, agentVars, server>>

-----------------------------------------------------------------------------
(* The agent *)

(* The task spawned for an answer posts its reply. *)
Deliver ==
  /\ \E r \in replies :
       /\ replies' = replies \ {r}
       /\ posted' = PostReply(posted, r.a, r.d, r.outcome, r.rec)
  /\ UNCHANGED <<sliceVars, shown, click, clicks, agent, wire, lost, events, server>>

Unanswered == {wire[i] : i \in DOMAIN wire} \cup lost
Dropped(r) == [n |-> r.n, a |-> r.a, d |-> r.d, outcome |-> "error", rec |-> Undecided]

(* The transport task ends: every sender that it holds is dropped. *)
TransportEnds ==
  /\ MayLose /\ agent = "up" /\ agent' = "down"
  /\ replies' = replies \cup {Dropped(r) : r \in Unanswered}
  /\ wire' = <<>> /\ lost' = {}
  /\ UNCHANGED <<sliceVars, uiVars, events, server>>

(* connect_transport after a login: the old runtime is dropped with its    *)
(* tasks and channels; the cards stay in the store.                        *)
Replace ==
  /\ MayReplace /\ agent' = "up"
  /\ wire' = <<>> /\ replies' = {} /\ lost' = {}
  /\ events' = <<>>
  /\ UNCHANGED <<sliceVars, uiVars, server>>

-----------------------------------------------------------------------------
(* The server (external) *)

Notify(kind, a, d) ==
  /\ agent = "up" /\ Len(events) < EventCap
  /\ events' = Append(events, [kind |-> kind, a |-> a, d |-> d])

Raise == \E a \in Approval :
  /\ server[a] = "none" /\ server' = [server EXCEPT ![a] = "pending"]
  /\ Notify("requested", a, Undecided)
  /\ UNCHANGED <<sliceVars, uiVars, agentVars>>

(* Another client, or a rule of a wider scope, decides. *)
DecideElsewhere == \E a \in Approval, d \in Decision :
  /\ server[a] = "pending" /\ server' = [server EXCEPT ![a] = d]
  /\ Notify("decided", a, d)
  /\ UNCHANGED <<sliceVars, uiVars, agentVars>>

Cancel == \E a \in Approval :
  /\ server[a] = "pending" /\ server' = [server EXCEPT ![a] = "cancelled"]
  /\ Notify("cancelled", a, Undecided)
  /\ UNCHANGED <<sliceVars, uiVars, agentVars>>

(* The ledger is replayed: a notification comes again. *)
Replay == \E a \in Approval :
  /\ \/ server[a] # "none" /\ Notify("requested", a, Undecided)
     \/ server[a] \in Decision /\ Notify("decided", a, server[a])
     \/ server[a] = "cancelled" /\ Notify("cancelled", a, Undecided)
  /\ UNCHANGED <<sliceVars, uiVars, agentVars, server>>

(* What the server makes of a response to approval a. *)
Serve(r, rec, outcome) ==
  IF server[r.a] = "pending"
  THEN outcome = "accepted" /\ rec = Undecided /\ server' = [server EXCEPT ![r.a] = r.d]
  ELSE /\ IF server[r.a] \in Decision
          THEN outcome = "not_pending" /\ rec = server[r.a]
          ELSE outcome = "error" /\ rec = Undecided
       /\ UNCHANGED server

(* The response is served and the reply comes back, or is lost on the way. *)
Reach ==
  /\ wire # <<>> /\ wire' = Tail(wire)
  /\ \E outcome \in Outcome, rec \in MaybeDecision :
       /\ Serve(Head(wire), rec, outcome)
       /\ \/ /\ replies' = replies \cup
                  {[n |-> Head(wire).n, a |-> Head(wire).a, d |-> Head(wire).d,
                    outcome |-> outcome, rec |-> rec]}
             /\ UNCHANGED lost
          \/ MayLose /\ lost' = lost \cup {Head(wire)} /\ UNCHANGED replies
  /\ UNCHANGED <<sliceVars, uiVars, agent, events>>

(* The response never reaches the server. *)
Lose ==
  /\ MayLose /\ wire # <<>> /\ wire' = Tail(wire)
  /\ lost' = lost \cup {Head(wire)}
  /\ UNCHANGED <<sliceVars, uiVars, agent, replies, events, server>>

-----------------------------------------------------------------------------
UiThread == Draw \/ HandleClick \/ FoldAnswer \/ FoldReply \/ FoldNotice
Agent    == Deliver \/ TransportEnds \/ Replace
Server   == Raise \/ DecideElsewhere \/ Cancel \/ Replay \/ Reach \/ Lose

Next == Click \/ UiThread \/ Agent \/ Server

Spec == Init /\ [][Next]_vars

(* Each queue is served: by the UI thread, the reply tasks and the server. *)
Fairness == /\ WF_vars(Draw) /\ WF_vars(HandleClick)
            /\ WF_vars(FoldAnswer) /\ WF_vars(FoldReply) /\ WF_vars(FoldNotice)
            /\ WF_vars(Deliver) /\ WF_vars(Reach)

FairSpec == Spec /\ Fairness

-----------------------------------------------------------------------------
(* Properties *)

(* The queue lists each approval once, every card that awaits an answer is *)
(* in it, and no card that was decided is (store/approvals.rs 30-83).      *)
SliceShape ==
  /\ \A i, j \in DOMAIN order : order[i] = order[j] => i = j
  /\ \A a \in Approval : /\ Queued(a) => Known(a)
                         /\ state[a].tag = "awaiting" => Queued(a)
                         /\ state[a].tag = "decided" => ~Queued(a)

(* A card that says decided says what the server recorded, whatever the    *)
(* user clicked and in whatever order replies and notifications came       *)
(* (main.rs 5494-5533, state.rs 342-382).                                  *)
DecidedAgrees == \A a \in Approval :
  state[a].tag = "decided" => server[a] = state[a].d

InFlight(a) ==
  \/ \E i \in DOMAIN posted : posted[i].a = a
  \/ \E r \in Unanswered \cup replies : r.a = a

(* A card that waits for the server has an answer somewhere, and only a    *)
(* login takes it away: whatever is lost, refused or overtaken, no card is *)
(* left waiting for nothing (octos_ui.rs 757-812, main.rs 5470-5533).      *)
Waits(a) == state[a].tag = "pending"
WaitingKeepsItsAnswer ==
  [][\A a \in Approval :
       (Waits(a) => InFlight(a)) /\ ~Replace => (Waits(a) => InFlight(a))']_vars

(* Once nothing is under way, a card agrees with the server: it awaits an  *)
(* answer only while the server waits for one (nothing being lost).        *)
Quiet == posted = <<>> /\ wire = <<>> /\ replies = {} /\ lost = {} /\ events = <<>>
QuietCardsAgree == Quiet => \A a \in Approval :
  CASE server[a] = "none"      -> state[a].tag = "absent"
    [] server[a] = "pending"   -> state[a].tag = "awaiting"
    [] server[a] = "cancelled" -> state[a].tag = "failed"
    [] server[a] \in Decision  -> state[a] = Card("decided", server[a])

(* Why it holds, with nothing lost: a card that is still to appear is       *)
(* announced, a fresh one has no answer under way and hears how the server *)
(* settled its approval, a waiting one has an answer under way, and only a *)
(* cancelled one fails.                                                    *)
Told(a) == \E i \in DOMAIN events : events[i].a = a
Announced(a) == \E i \in DOMAIN events :
  /\ events[i].a = a /\ events[i].kind = "requested"
  /\ \A j \in DOMAIN events : j < i => events[j].a # a

Settled(a) == server[a] \notin {"none", "pending"}
NoticeOf(a) == IF server[a] = "cancelled" THEN "cancelled" ELSE "decided"
Noticed(a) == \E i \in DOMAIN events : events[i].a = a /\ events[i].kind = NoticeOf(a)

Fresh(a) == state[a].tag \in {"absent", "awaiting"}
Asked(a) == \E i \in DOMAIN posted : posted[i].a = a
Answered(a) == \/ \E i \in DOMAIN wire : wire[i].a = a
               \/ \E r \in replies : r.a = a
               \/ \E i \in DOMAIN posted : posted[i].kind = "async" /\ posted[i].a = a

CardFollows(a) ==
  /\ Known(a) \/ Told(a) => server[a] # "none"
  /\ server[a] # "none" => Known(a) \/ Announced(a)
  /\ Asked(a) => Known(a)
  /\ Answered(a) => ~Fresh(a)
  /\ Fresh(a) /\ Settled(a) => Noticed(a)
  /\ Waits(a) => InFlight(a)
  /\ state[a].tag = "failed" => server[a] = "cancelled"

ErrsOnCancelled(r) == r.outcome = "error" => server[r.a] = "cancelled"

CardsFollow ==
  /\ agent = "up" /\ lost = {}
  /\ \A a \in Approval : CardFollows(a)
  /\ \A r \in replies : ErrsOnCancelled(r)
  /\ \A i \in DOMAIN posted : posted[i].kind = "async" => ErrsOnCancelled(posted[i])
  /\ \A i \in DOMAIN events :
       events[i].kind = "cancelled" => server[events[i].a] = "cancelled"

(* A card leaves the queue for good and never asks again, however often    *)
(* the ledger is replayed (store/approvals.rs 41-50).                      *)
SettledStays ==
  [][\A a \in Approval : Known(a) /\ ~Queued(a) => ~Queued(a)' /\ Known(a)']_vars

(* The cards implement ApprovalLedger: each one appears once, says decided *)
(* only what the server ruled, and fails only when its approval was        *)
(* cancelled or something was lost (store/approvals.rs 30-83, main.rs      *)
(* 5470-5533).                                                             *)
Ledger == INSTANCE ApprovalLedger WITH card <- state, ruling <- server
ImplementsLedger == Ledger!Spec

(* Why it holds: what is on its way belongs to a card that is there, and   *)
(* an error comes from a cancelled approval unless something was lost.     *)
UnderWay(a) == \/ Asked(a) \/ Answered(a)
               \/ \E r \in lost : r.a = a
Grounded ==
  /\ \A a \in Approval : /\ Known(a) \/ Told(a) => server[a] # "none"
                         /\ UnderWay(a) => Known(a)
  /\ \A i \in DOMAIN events :
       events[i].kind = "cancelled" => server[events[i].a] = "cancelled"
  /\ ~MayLose =>
       /\ agent = "up" /\ lost = {}
       /\ \A r \in replies : ErrsOnCancelled(r)
       /\ \A i \in DOMAIN posted : posted[i].kind = "async" => ErrsOnCancelled(posted[i])

(* An answer is settled: the buttons stay disabled only until the reply.   *)
AnswerSettles == \A a \in Approval :
  Waits(a) ~> ~Waits(a)

(* "each instance receives its snapshot from the parent pane during        *)
(* draw_walk" (app/approvals.rs 252-253): a click answers the drawn card.  *)
ClickAnswersShownCard ==
  [][posted' # posted /\ HandleClick =>
       posted'[Len(posted')].a = click.a]_vars
=============================================================================
