------------------------------ MODULE Transport ------------------------------
(***************************************************************************)
(* The WebSocket transport of octos-app: the task run_state_machine        *)
(* (ws/mod.rs) with the protocol core it shares with the stdio transport   *)
(* (proto.rs), its bounded command and event channels, the forwarder that  *)
(* wakes the UI thread, the socket and the server at its other end, and    *)
(* the UI thread as the client that posts commands and drains events.      *)
(*                                                                         *)
(* A durable notification is its session and its sequence number in that   *)
(* session's server-side ledger; 0 stands for an absent cursor.  Payloads  *)
(* and method names are abstracted to the kinds that the code tells apart. *)
(***************************************************************************)
EXTENDS Naturals, Sequences, FiniteSets

CONSTANTS
  Session,          \* session keys
  Caller,           \* requests that carry a oneshot reply channel
  Ops,              \* the commands this instance's client issues
  ChannelBuffer,    \* depth of each bounded channel (64 in the code)
  ReconnectBudget,  \* cumulative backoff allowed in one outage, seconds
  DelayMax,         \* cap on one backoff delay, seconds
  ExpMax,           \* cap on the backoff exponent (5 in the code)
  AttemptMax,       \* where the attempt counter saturates (u32::MAX in the code)
  Seed,             \* TransportConfig.cursor, 0 when absent
  MaxLedger,        \* bound: durable events per session
  StoredMax,        \* bound: the cursors that the cursor file holds at start
  MaxId,            \* bound: requests sent
  WireCap           \* bound: frames in flight in each direction

CommandOps == {"open", "fresh", "turn", "ask", "list", "disconnect"}

ASSUME TransportAssumption ==
  /\ Session # {}
  /\ Ops \subseteq CommandOps
  /\ ChannelBuffer \in Nat \ {0}
  /\ ReconnectBudget \in Nat /\ DelayMax \in Nat
  /\ ExpMax \in Nat /\ AttemptMax \in Nat \ {0}
  /\ (AttemptMax - 1) * DelayMax > ReconnectBudget
  /\ MaxLedger \in Nat /\ Seed \in 0..MaxLedger /\ StoredMax \in 0..MaxLedger
  /\ MaxId \in Nat /\ WireCap \in Nat \ {0}

VARIABLES
  \* the client (the UI thread)
  caller,     \* what became of each oneshot request
  view,       \* the last ConnectionState the client folded
  applied,    \* per session, the last durable event folded into the store,
              \* or the stored cursor it starts after
  \* the channels
  cmds,       \* commands: client to task
  inner,      \* events: task to forwarder
  outer,      \* events: forwarder to client
  \* the task
  pc,         \* where the task is: dial, run, blocked, sleep, done
  announced,  \* the last ConnectionState the task tried to emit
  attempt, totalWait,
  nextId, pending, cursors, pendingInitial,
  held,       \* the event a blocked task is waiting to enqueue
  \* the socket and the server
  up, down, ledger, pos

clientVars  == <<caller, view, applied>>
chanVars    == <<cmds, inner, outer>>
protoVars   == <<nextId, pending, cursors, pendingInitial>>
taskVars    == <<pc, announced, attempt, totalWait, held>>
serverVars  == <<up, down, ledger, pos>>
vars == <<clientVars, chanVars, protoVars, taskVars, serverVars>>

-----------------------------------------------------------------------------
(* Values *)

ConnectionState ==
  {"Idle", "Dialing", "Handshaking", "Live", "Reconnecting", "Failed"}

Seq0 == 0..MaxLedger            \* a sequence number, or 0 for "no cursor"
Detached == MaxLedger + 1       \* pos of a session the server does not push

Command ==
  [op : {"open", "fresh"}, s : Session]
    \cup [op : {"ask"}, c : Caller]
    \cup [op : {"turn", "list", "disconnect"}]

(* What goes on the wire: everything but a disconnect. *)
Request == {cmd \in Command : cmd.op # "disconnect"}

StateEvent(v)    == [kind |-> "state", state |-> v]
DurableEvent(s, n) == [kind |-> "durable", s |-> s, n |-> n]
PlainEvent(k)    == [kind |-> k]

Event ==
  [kind : {"state"}, state : ConnectionState]
    \cup [kind : {"durable"}, s : Session, n : 1..MaxLedger]
    \cup [kind : {"delta", "caps", "opened", "result", "listed", "rpcError"}]

Frame ==
  [t : {"response", "error"}, id : 0..MaxId, cmd : Request]
    \cup [t : {"durable"}, s : Session, n : 1..MaxLedger]
    \cup [t : {"delta", "stray"}]

NoEvent == PlainEvent("none")
Least(a, b) == IF a <= b THEN a ELSE b

(* Mutant of TryEmit: the channel is not bounded.                          *)
TryEmitUnbounded(evts) == inner' = inner \o evts

(* try_emit on a run of events: they are queued in order until the channel *)
(* is full and the rest is dropped.  No await separates them and the       *)
(* runtime has one worker, so the forwarder cannot make room in between.   *)
TryEmit(evts) ==
  inner' = inner \o SubSeq(evts, 1, Least(Len(evts), ChannelBuffer - Len(inner)))

(* Every oneshot sender in S is dropped unsent. *)
Drop(S) == [c \in Caller |-> IF c \in S /\ caller[c] = "waiting"
                             THEN "dropped" ELSE caller[c]]

Without(f, x) == [y \in DOMAIN f \ {x} |-> f[y]]
PendingCallers == {c \in Caller : \E id \in DOMAIN pending :
                     pending[id] = [op |-> "ask", c |-> c]}
QueuedCallers  == {c \in Caller : \E i \in DOMAIN cmds :
                     cmds[i] = [op |-> "ask", c |-> c]}

ClientOK ==
  /\ caller \in [Caller -> {"idle", "waiting", "answered", "failed",
                            "refused", "dropped"}]
  /\ view \in ConnectionState
  /\ applied \in [Session -> Seq0]

ChannelOK ==
  /\ cmds \in Seq(Command) /\ Len(cmds) <= ChannelBuffer
  /\ inner \in Seq(Event) /\ Len(inner) <= ChannelBuffer
  /\ outer \in Seq(Event) /\ Len(outer) <= ChannelBuffer + 1

ProtoOK ==
  /\ nextId \in 0..MaxId /\ nextId + Len(cmds) <= MaxId
  /\ DOMAIN pending \subseteq 0..MaxId
  /\ \A id \in DOMAIN pending : pending[id] \in Request
  /\ cursors \in [Session -> Seq0]
  /\ pendingInitial \in Seq0

TaskOK ==
  /\ pc \in {"dial", "run", "blocked", "sleep", "done"}
  /\ announced \in ConnectionState
  /\ attempt \in 0..AttemptMax
  /\ totalWait \in Nat
  /\ held \in IF pc = "blocked" THEN Event ELSE {NoEvent}

WireOK ==
  /\ up \in Seq([id : 0..MaxId, cmd : Request, after : Seq0])
  /\ down \in Seq(Frame)
  /\ ledger \in [Session -> Seq0]
  /\ pos \in [Session -> Seq0 \cup {Detached}]

TypeOK == ClientOK /\ ChannelOK /\ ProtoOK /\ TaskOK /\ WireOK

(* A fresh task: run_state_machine emits Idle, then Dialing, and dials.    *)
(* The cursors are those of the cursor file, an earlier process's; the     *)
(* store starts after them, since the server replays no earlier event.     *)
Init ==
  /\ caller = [c \in Caller |-> "idle"]
  /\ view = "Idle"
  /\ cursors \in [Session -> 0..StoredMax] /\ applied = cursors
  /\ cmds = <<>>
  /\ inner = SubSeq(<<StateEvent("Idle"), StateEvent("Dialing")>>,
                    1, Least(2, ChannelBuffer))
  /\ outer = <<>>
  /\ pc = "dial" /\ announced = "Dialing"
  /\ attempt = 0 /\ totalWait = 0
  /\ nextId = 0
  /\ pending = [id \in {} |-> [op |-> "list"]]
  /\ pendingInitial = Seed
  /\ held = NoEvent
  /\ up = <<>> /\ down = <<>>
  /\ ledger = cursors
  /\ pos = [s \in Session |-> Detached]

-----------------------------------------------------------------------------
(* The client: OctosUiAgent and its oneshot handles, on the UI thread. *)

ChannelOpen == pc # "done"
Enqueue(cmd) == cmds' = IF ChannelOpen /\ Len(cmds) < ChannelBuffer
                        THEN Append(cmds, cmd) ELSE cmds

(* The client opens a session with a replay bracket while it is not open   *)
(* and no open is on its way.                                              *)
Closed(s) == /\ pos[s] = Detached
             /\ \A i \in DOMAIN cmds : cmds[i] # [op |-> "open", s |-> s]
             /\ \A i \in DOMAIN up : up[i].cmd # [op |-> "open", s |-> s]

(* post: try_send; a full or closed channel drops the command. *)
Post == \E op \in Ops \ {"ask"} :
  /\ nextId + Len(cmds) < MaxId
  /\ \/ op \in {"turn", "list", "disconnect"} /\ Enqueue([op |-> op])
     \/ op = "open" /\ \E s \in Session : Closed(s) /\ Enqueue([op |-> op, s |-> s])
     \/ op = "fresh" /\ \E s \in Session : Enqueue([op |-> op, s |-> s])
  /\ UNCHANGED <<clientVars, inner, outer, protoVars, taskVars, serverVars>>

(* respond and read: a refused command is answered "transport unavailable". *)
Ask == \E c \in Caller :
  /\ "ask" \in Ops /\ caller[c] = "idle" /\ nextId + Len(cmds) < MaxId
  /\ Enqueue([op |-> "ask", c |-> c])
  /\ caller' = [caller EXCEPT ![c] = IF cmds' = cmds THEN "refused" ELSE "waiting"]
  /\ UNCHANGED <<view, applied, inner, outer, protoVars, taskVars, serverVars>>

(* handle_event and translate: one event is folded into the store. *)
Drain ==
  /\ outer # <<>>
  /\ outer' = Tail(outer)
  /\ LET e == Head(outer) IN
       /\ view' = IF e.kind = "state" THEN e.state ELSE view
       /\ applied' = IF e.kind = "durable" THEN [applied EXCEPT ![e.s] = e.n]
                                           ELSE applied
  /\ UNCHANGED <<caller, cmds, inner, protoVars, taskVars, serverVars>>

(* Mutant of Forward: try_send, which drops the event when outer is full. *)
ForwardDrops ==
  /\ inner # <<>> /\ inner' = Tail(inner)
  /\ outer' = IF Len(outer) < ChannelBuffer THEN Append(outer, Head(inner)) ELSE outer
  /\ UNCHANGED <<clientVars, cmds, protoVars, taskVars, serverVars>>

(* The forwarder: it holds one event while the outer channel is full. *)
Forward ==
  /\ inner # <<>> /\ Len(outer) <= ChannelBuffer
  /\ inner' = Tail(inner) /\ outer' = Append(outer, Head(inner))
  /\ UNCHANGED <<clientVars, cmds, protoVars, taskVars, serverVars>>

-----------------------------------------------------------------------------
(* Leaving: the task clears the pending map and drains the command queue,  *)
(* which drops the oneshot senders in both.                                *)

NoPending == [id \in {} |-> [op |-> "list"]]

(* Mutant of Exit: the pending map is not cleared. *)
ExitKeepsPending ==
  /\ pc' = "done"
  /\ cmds' = <<>> /\ caller' = Drop(QueuedCallers)
  /\ UNCHANGED pending

Exit ==
  /\ pc' = "done"
  /\ pending' = NoPending /\ cmds' = <<>>
  /\ caller' = Drop(PendingCallers \cup QueuedCallers)

(* The socket is gone, with every frame in flight.                         *)
SocketGone == /\ up' = <<>> /\ down' = <<>>
              /\ pos' = [s \in Session |-> Detached]
              /\ UNCHANGED ledger

Announce(v) == announced' = v /\ TryEmit(<<StateEvent(v)>>)

(* next_backoff: full jitter under an exponential, capped delay. *)
Backoff(a) == {Least(j, DelayMax) : j \in 0..(2^Least(a - 1, ExpMax) - 1)}

(* run_reconnect, with rest the commands left in the queue and lost the    *)
(* callers whose sender went with the socket.  A request that was sent     *)
(* stays in the pending map.                                               *)
RunReconnect(rest, lost) ==
  /\ attempt' = Least(attempt + 1, AttemptMax)
  /\ \E d \in Backoff(attempt') : totalWait' = totalWait + d
  /\ \/ totalWait' > ReconnectBudget /\ Announce("Failed") /\ Exit
     \/ /\ totalWait' <= ReconnectBudget /\ Announce("Reconnecting")
        /\ pc' = "sleep" /\ cmds' = rest /\ caller' = Drop(lost)
        /\ UNCHANGED pending
  /\ UNCHANGED <<view, applied, outer, cursors, held>>

-----------------------------------------------------------------------------
(* The task: connecting *)

(* build_request fails on a bad configuration, hence on the first dial. *)
BadRequest ==
  /\ pc = "dial" /\ attempt = 0
  /\ Announce("Failed") /\ Exit
  /\ UNCHANGED <<view, applied, outer, nextId, cursors, pendingInitial,
                 attempt, totalWait, held, serverVars>>

DialFail ==
  /\ pc = "dial"
  /\ RunReconnect(cmds, {})
  /\ UNCHANGED <<nextId, pendingInitial, serverVars>>

(* Mutant of DialOk: the wait of this outage counts in the next. *)
DialOkKeepsWait ==
  /\ pc = "dial"
  /\ pc' = "run" /\ attempt' = 0
  /\ Announce("Handshaking")
  /\ UNCHANGED <<clientVars, cmds, outer, protoVars, totalWait, held, serverVars>>

DialOk ==
  /\ pc = "dial"
  /\ pc' = "run" /\ attempt' = 0 /\ totalWait' = 0
  /\ Announce("Handshaking")
  /\ UNCHANGED <<clientVars, cmds, outer, protoVars, held, serverVars>>

Wake ==
  /\ pc = "sleep"
  /\ pc' = "dial" /\ Announce("Dialing")
  /\ UNCHANGED <<clientVars, cmds, outer, protoVars, attempt, totalWait, held,
                 serverVars>>

-----------------------------------------------------------------------------
(* The task: run_live, the command arm of the biased select *)

(* build_outbound consumes an id for every command.  An open without a     *)
(* stored cursor takes the one-shot seed.                                  *)
FreshId == nextId

(* Mutant of After: the furthest cursor of any session. *)
AfterAnySession(cmd) ==
  IF cmd.op # "open" THEN 0
  ELSE CHOOSE n \in {cursors[s] : s \in Session} :
         \A s \in Session : cursors[s] <= n

After(cmd) == IF cmd.op # "open" THEN 0
              ELSE IF cursors[cmd.s] # 0 THEN cursors[cmd.s] ELSE pendingInitial

(* Mutant of TakeCommand: the id counter is read and not advanced. *)
TakeCommandSameId ==
  /\ pc = "run" /\ cmds # <<>>
  /\ nextId' = nextId
  /\ pendingInitial' = IF Head(cmds).op = "open" /\ cursors[Head(cmds).s] = 0
                       THEN 0 ELSE pendingInitial

TakeCommand ==
  /\ pc = "run" /\ cmds # <<>>
  /\ nextId' = nextId + 1
  /\ pendingInitial' = IF Head(cmds).op = "open" /\ cursors[Head(cmds).s] = 0
                       THEN 0 ELSE pendingInitial

HandleSend ==
  /\ TakeCommand /\ Head(cmds).op # "disconnect" /\ Len(up) < WireCap
  /\ LET cmd == Head(cmds) IN
       /\ up' = Append(up, [id |-> FreshId, cmd |-> cmd, after |-> After(cmd)])
       /\ pending' = [id \in DOMAIN pending \cup {FreshId} |->
                        IF id = FreshId THEN cmd ELSE pending[id]]
  /\ cmds' = Tail(cmds)
  /\ UNCHANGED <<clientVars, inner, outer, cursors, taskVars, down, ledger, pos>>

HandleSendFails ==
  /\ TakeCommand /\ Head(cmds).op # "disconnect"
  /\ RunReconnect(Tail(cmds), {c \in Caller : Head(cmds) = [op |-> "ask", c |-> c]})
  /\ SocketGone

HandleDisconnect ==
  /\ TakeCommand /\ Head(cmds).op = "disconnect"
  /\ Exit /\ SocketGone
  /\ UNCHANGED <<view, applied, inner, outer, cursors, announced, attempt,
                 totalWait, held>>

-----------------------------------------------------------------------------
(* The task: run_live, the socket arm; it runs when no command is queued *)

Reading(t) ==
  /\ pc = "run" /\ cmds = <<>>
  /\ down # <<>> /\ Head(down).t = t
  /\ down' = Tail(down)
  /\ UNCHANGED <<view, applied, cmds, outer, nextId, pendingInitial, attempt,
                 totalWait, up, ledger, pos>>

Opens(cmd) == cmd.op \in {"open", "fresh"}

ResultEvents(cmd) ==
  CASE Opens(cmd)       -> <<PlainEvent("caps"), PlainEvent("opened")>>
                           \o IF announced = "Live" THEN <<>>
                              ELSE <<StateEvent("Live")>>
    [] cmd.op = "turn"  -> <<PlainEvent("result")>>
    [] cmd.op = "list"  -> <<PlainEvent("listed")>>
    [] cmd.op = "ask"   -> <<>>

(* The pending entry is removed and its oneshot, if it has one, is sent. *)
Settle(id, outcome) ==
  /\ id \in DOMAIN pending
  /\ pending' = Without(pending, id)
  /\ caller' = [c \in Caller |-> IF pending[id] = [op |-> "ask", c |-> c]
                                 THEN outcome ELSE caller[c]]

ReadResponse ==
  /\ Reading("response")
  /\ LET id == Head(down).id IN
       /\ Settle(id, "answered")
       /\ TryEmit(ResultEvents(pending[id]))
       /\ announced' = IF Opens(pending[id]) THEN "Live" ELSE announced
  /\ UNCHANGED <<cursors, pc, held>>

ReadError ==
  /\ Reading("error")
  /\ Settle(Head(down).id, "failed")
  /\ TryEmit(<<PlainEvent("rpcError")>>)
  /\ UNCHANGED <<cursors, pc, announced, held>>

(* A result of an unexpected shape: a oneshot is told, nothing is emitted. *)
ReadUndecodable ==
  /\ Reading("response")
  /\ Settle(Head(down).id, "failed")
  /\ UNCHANGED <<inner, cursors, pc, announced, held>>

ReadDelta ==
  /\ Reading("delta")
  /\ TryEmit(<<PlainEvent("delta")>>)
  /\ UNCHANGED <<caller, pending, cursors, pc, announced, held>>

(* Heartbeats, unknown methods, errors without an id, server requests. *)
ReadStray ==
  /\ Reading("stray")
  /\ UNCHANGED <<caller, inner, pending, cursors, pc, announced, held>>

(* Mutant of EmitDurable: it is dropped when the channel is full. *)
EmitDurableDrops(e) ==
  /\ inner' = IF Len(inner) < ChannelBuffer THEN Append(inner, e) ELSE inner
  /\ UNCHANGED <<pc, held>>

(* A durable notification: the cursor moves first, then the event is sent  *)
(* to a channel that may be full, in which case the task waits.            *)
EmitDurable(e) ==
  \/ /\ Len(inner) < ChannelBuffer
     /\ inner' = Append(inner, e) /\ UNCHANGED <<pc, held>>
  \/ /\ Len(inner) = ChannelBuffer
     /\ pc' = "blocked" /\ held' = e /\ UNCHANGED inner

(* Mutant of ReadDurable: the cursor moves only when there was room. *)
ReadDurableWithRoom ==
  /\ Reading("durable")
  /\ LET f == Head(down) IN
       /\ cursors' = IF Len(inner) < ChannelBuffer
                     THEN [cursors EXCEPT ![f.s] = f.n] ELSE cursors
       /\ EmitDurable(DurableEvent(f.s, f.n))
  /\ UNCHANGED <<caller, pending, announced>>

ReadDurable ==
  /\ Reading("durable")
  /\ LET f == Head(down) IN
       /\ cursors' = [cursors EXCEPT ![f.s] = f.n]
       /\ EmitDurable(DurableEvent(f.s, f.n))
  /\ UNCHANGED <<caller, pending, announced>>

FinishEmit ==
  /\ pc = "blocked" /\ Len(inner) < ChannelBuffer
  /\ inner' = Append(inner, held) /\ held' = NoEvent /\ pc' = "run"
  /\ UNCHANGED <<clientVars, cmds, outer, protoVars, announced, attempt,
                 totalWait, serverVars>>

(* The stream ends, a read fails or a heartbeat cannot be written. *)
SocketDrop ==
  /\ pc = "run" /\ cmds = <<>>
  /\ RunReconnect(cmds, {})
  /\ SocketGone
  /\ UNCHANGED <<nextId, pendingInitial>>

-----------------------------------------------------------------------------
(* The server, as the transport relies on it (not in this repository). *)

Connected == pc \in {"run", "blocked"}

Produce == \E s \in Session :
  /\ ledger[s] < MaxLedger
  /\ ledger' = [ledger EXCEPT ![s] = @ + 1]
  /\ UNCHANGED <<clientVars, chanVars, protoVars, taskVars, up, down, pos>>

Push == \E s \in Session :
  /\ Connected /\ pos[s] < ledger[s] /\ Len(down) < WireCap
  /\ pos' = [pos EXCEPT ![s] = @ + 1]
  /\ down' = Append(down, [t |-> "durable", s |-> s, n |-> pos[s] + 1])
  /\ UNCHANGED <<clientVars, chanVars, protoVars, taskVars, up, ledger>>

Noise == \E t \in {"delta", "stray"} :
  /\ Connected /\ Len(down) < WireCap
  /\ down' = Append(down, [t |-> t])
  /\ UNCHANGED <<clientVars, chanVars, protoVars, taskVars, up, ledger, pos>>

(* An open after a cursor replays what follows it; one without a cursor    *)
(* subscribes to what comes next.                                          *)
Attach(cmd, after) ==
  pos' = IF after # 0 THEN [pos EXCEPT ![cmd.s] = after]
         ELSE IF pos[cmd.s] = Detached THEN [pos EXCEPT ![cmd.s] = ledger[cmd.s]]
         ELSE pos

Answer ==
  /\ Connected /\ up # <<>>
  /\ up' = Tail(up)
  /\ LET r == Head(up)
         reply(t) == Append(down, [t |-> t, id |-> r.id, cmd |-> r.cmd]) IN
       \/ down' = reply("error") /\ UNCHANGED pos
       \/ /\ ~Opens(r.cmd)
          /\ down' = reply("response") /\ UNCHANGED pos
       \/ /\ Opens(r.cmd) /\ r.after <= ledger[r.cmd.s]
          /\ down' = reply("response") /\ Attach(r.cmd, r.after)
  /\ UNCHANGED <<clientVars, chanVars, protoVars, taskVars, ledger>>

-----------------------------------------------------------------------------
Client == Post \/ Ask \/ Drain
Connecting == BadRequest \/ DialFail \/ DialOk \/ Wake
Commands == HandleSend \/ HandleSendFails \/ HandleDisconnect
Frames == ReadResponse \/ ReadError \/ ReadUndecodable \/ ReadDelta \/ ReadStray
            \/ ReadDurable \/ FinishEmit \/ SocketDrop
Server == Produce \/ Push \/ Noise \/ Answer

Next == Client \/ Forward \/ Connecting \/ Commands \/ Frames \/ Server

Spec == Init /\ [][Next]_vars

(* The scheduler runs the task, the forwarder and the UI thread whenever   *)
(* they can run.  Nothing is promised of the network, the server or the    *)
(* user.                                                                   *)
Fairness == /\ WF_vars(Forward) /\ WF_vars(Drain) /\ WF_vars(FinishEmit)
            /\ WF_vars(Wake)

FairSpec == Spec /\ Fairness

(* What a good network adds: a dial that keeps being possible succeeds, a  *)
(* frame sent is received, and the server answers.                         *)
GoodNetwork == /\ SF_vars(DialOk) /\ WF_vars(Commands) /\ WF_vars(Frames)
               /\ WF_vars(Answer) /\ WF_vars(Push)

ServedSpec == FairSpec /\ GoodNetwork

-----------------------------------------------------------------------------
(* Properties *)

Reply(f) == f.t \in {"response", "error"}

(* A reply on its way belongs to the request its id was given to, and that *)
(* request is still pending: ids are never reused, across reconnects too,  *)
(* so no oneshot gets another request's answer (proto.rs 100, 219, 228).   *)
ReplyMatchesRequest ==
  /\ \A i \in DOMAIN up : /\ up[i].id \in DOMAIN pending
                          /\ pending[up[i].id] = up[i].cmd
  /\ \A i \in DOMAIN down : Reply(down[i]) =>
       /\ down[i].id \in DOMAIN pending
       /\ pending[down[i].id] = down[i].cmd

(* Why it holds: an id is on the wire once, ids are handed out in order,   *)
(* and nothing is on the wire without a socket.                            *)
RequestIds ==
  /\ ReplyMatchesRequest
  /\ \A id \in DOMAIN pending : id < nextId
  /\ \A i, j \in DOMAIN up : up[i].id = up[j].id => i = j
  /\ \A i, j \in DOMAIN down :
       Reply(down[i]) /\ Reply(down[j]) /\ down[i].id = down[j].id => i = j
  /\ \A i \in DOMAIN up, j \in DOMAIN down :
       Reply(down[j]) => up[i].id # down[j].id
  /\ ~Connected => up = <<>> /\ down = <<>>

(* The sender of every awaited oneshot is in exactly one place, the        *)
(* command queue or the pending map, and nobody waits for a task that has  *)
(* ended: a request whose sender is lost or kept for ever would leave its  *)
(* approval card pending (octos_ui.rs 767-811, ws/mod.rs 171-184).         *)
CallerAccounted ==
  \A c \in Caller :
    /\ pc = "done" => caller[c] # "waiting"
    /\ Cardinality({i \in DOMAIN cmds : cmds[i] = [op |-> "ask", c |-> c]})
         + Cardinality({id \in DOMAIN pending : pending[id] = [op |-> "ask", c |-> c]})
       = IF caller[c] = "waiting" THEN 1 ELSE 0

(* Why it holds: each sender is one command or one pending entry, and a    *)
(* task that has ended has neither.                                        *)
Awaits(cmd, c) == cmd = [op |-> "ask", c |-> c]
OneSender ==
  /\ pc = "done" => cmds = <<>> /\ DOMAIN pending = {}
  /\ \A c \in Caller :
       /\ \A i, j \in DOMAIN cmds : Awaits(cmds[i], c) /\ Awaits(cmds[j], c) => i = j
       /\ \A i, j \in DOMAIN pending :
            Awaits(pending[i], c) /\ Awaits(pending[j], c) => i = j
       /\ \A i \in DOMAIN cmds, j \in DOMAIN pending :
            ~(Awaits(cmds[i], c) /\ Awaits(pending[j], c))
       /\ caller[c] = "waiting" <=> \/ \E i \in DOMAIN cmds : Awaits(cmds[i], c)
                                   \/ \E i \in DOMAIN pending : Awaits(pending[i], c)

(* A stored cursor is the last durable event of its session on the way to  *)
(* the store, or the last one folded when none is on the way: no durable   *)
(* event is lost or overtaken between the cursor and the UI                *)
(* (proto.rs 376-386, ws/mod.rs 62-75).                                    *)
Stream == outer \o inner \o IF held = NoEvent THEN <<>> ELSE <<held>>
LastOf(s, i) == /\ Stream[i].kind = "durable" /\ Stream[i].s = s
                /\ \A j \in (i + 1)..Len(Stream) :
                     ~(Stream[j].kind = "durable" /\ Stream[j].s = s)
CursorTracksStream ==
  \A s \in Session :
    IF \E i \in DOMAIN Stream : LastOf(s, i)
    THEN \A i \in DOMAIN Stream : LastOf(s, i) => Stream[i].n = cursors[s]
    ELSE cursors[s] = applied[s]

(* Why it holds.  Of the elements of q that are in D, the last is number   *)
(* b; if there is none, nothing has moved since a.                         *)
EventsOf(s) == [kind : {"durable"}, s : {s}, n : 1..MaxLedger]
FramesOf(s) == [t : {"durable"}, s : {s}, n : 1..MaxLedger]

NoneIn(q, D) == \A i \in DOMAIN q : q[i] \notin D
LastIn(q, D, i) == q[i] \in D /\ \A j \in DOMAIN q : j > i => q[j] \notin D
Ends(q, D, a, b) == \/ NoneIn(q, D) /\ a = b
                    \/ \E i \in DOMAIN q : LastIn(q, D, i) /\ q[i].n = b

StreamEnds == \A s \in Session : Ends(Stream, EventsOf(s), applied[s], cursors[s])

(* An open replays its own session from no later than what this transport  *)
(* has received of it, unless it spends the configured seed: sessions that *)
(* are open together do not share a cursor (proto.rs 103-113).             *)
OpensFromItsOwnCursor ==
  \A i \in DOMAIN up :
    up[i].after # 0 => \/ up[i].after <= cursors[up[i].cmd.s]
                       \/ up[i].after = Seed /\ pendingInitial = 0

(* Why it holds: while an open of a session is on its way, at most a fresh *)
(* open has subscribed it on this socket, from the end of its ledger, so   *)
(* that its cursor only grows.                                             *)
Open(s) == [op |-> "open", s |-> s]
Opening(s) == \/ \E i \in DOMAIN cmds : cmds[i] = Open(s)
              \/ \E i \in DOMAIN up : up[i].cmd = Open(s)

OneOpen == \A s \in Session :
  /\ \A i, j \in DOMAIN cmds : cmds[i] = Open(s) /\ cmds[j] = Open(s) => i = j
  /\ \A i, j \in DOMAIN up : up[i].cmd = Open(s) /\ up[j].cmd = Open(s) => i = j
  /\ \A i \in DOMAIN cmds, j \in DOMAIN up : ~(cmds[i] = Open(s) /\ up[j].cmd = Open(s))

DetachedIsQuiet == \A s \in Session : pos[s] = Detached => NoneIn(down, FramesOf(s))

InLedger == \A s \in Session :
  /\ cursors[s] <= ledger[s]
  /\ pos[s] # Detached => pos[s] <= ledger[s]
  /\ \A i \in DOMAIN down : down[i] \in FramesOf(s) => down[i].n <= ledger[s]

Ahead(s) ==
  /\ pos[s] # Detached => cursors[s] <= pos[s]
  /\ \A i \in DOMAIN down : down[i] \in FramesOf(s) =>
       /\ cursors[s] < down[i].n /\ down[i].n <= pos[s]
       /\ \A j \in DOMAIN down : i < j /\ down[j] \in FramesOf(s) => down[i].n < down[j].n

OwnCursors ==
  /\ OneOpen /\ DetachedIsQuiet /\ InLedger
  /\ \A s \in Session : Opening(s) => Ahead(s)
  /\ pendingInitial \in {0, Seed}
  /\ \A i \in DOMAIN up : up[i].after # 0 => up[i].cmd.op = "open"
  /\ OpensFromItsOwnCursor

(* The task gives up only when the delays of the present outage exceed the *)
(* budget: the retries after the first, which is immediate, could not have *)
(* stayed within it.  Waits of earlier outages do not count (ws/mod.rs     *)
(* 164-165, 297-302).                                                      *)
GiveUpOnlyWhenExhausted ==
  announced = "Failed" /\ attempt > 0 =>
    (attempt - 1) * DelayMax > ReconnectBudget

(* Why it holds: a connected task has a fresh budget, and the k-th retry   *)
(* of an outage has waited at most k - 1 times the longest delay.          *)
OutageBudget ==
  /\ Connected => attempt = 0
  /\ attempt = 0 => totalWait = 0
  /\ attempt \in 1..(AttemptMax - 1) => totalWait <= (attempt - 1) * DelayMax
  /\ announced = "Failed" => pc = "done"
  /\ announced = "Failed" /\ attempt > 0 => totalWait > ReconnectBudget

(* The transport is a lossless queue from cursor to store: through full    *)
(* channels and dropped sockets, with either way to open a session, each   *)
(* durable event that a cursor records is folded once and in that order,   *)
(* and nothing else is folded (proto.rs 376-386, ws/mod.rs 62-75).         *)
PlainEvents == {e \in Event : e.kind # "durable"}
Feed == INSTANCE EventFeed WITH received <- cursors, folded <- applied,
                                road <- Stream, Other <- PlainEvents
ImplementsFeed == Feed!Spec

(* An event whose receipt the cursor records is folded in the end, through *)
(* full channels and dropped sockets.                                      *)
EveryCursorIsApplied ==
  \A s \in Session, n \in 1..MaxLedger : cursors[s] = n ~> applied[s] >= n

(* A session with a cursor is subscribed again after a drop, on a good     *)
(* network ("Reconnect succeeds: transport sends session/open").           *)
ReconnectReopens ==
  \A s \in Session :
    pc = "sleep" /\ cursors[s] # 0 ~> pos[s] # Detached \/ pc = "done"
=============================================================================
