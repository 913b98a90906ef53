--------------------------- MODULE Transport_proofs ---------------------------
(***************************************************************************)
(* What the transport guarantees for every number of sessions, callers,    *)
(* commands and ledger events, and for every channel depth and budget.     *)
(***************************************************************************)
EXTENDS Transport, SequenceTheorems, FiniteSetTheorems, TLAPS

(* A queue that loses its head keeps its elements. *)
LEMMA QueueTail ==
  ASSUME NEW S, NEW q \in Seq(S), q # <<>>
  PROVE  Head(q) \in S /\ Tail(q) \in Seq(S) /\ Len(Tail(q)) = Len(q) - 1
         /\ Len(q) \in Nat \ {0}
BY HeadTailProperties, EmptySeq

(* A queue that gains an element keeps the others. *)
LEMMA QueueAppend ==
  ASSUME NEW S, NEW q \in Seq(S), NEW e \in S
  PROVE  Append(q, e) \in Seq(S) /\ Len(Append(q, e)) = Len(q) + 1
         /\ Len(q) \in Nat
BY AppendProperties, LenProperties

(* try_emit never overfills the event channel. *)
LEMMA TryEmitOK ==
  ASSUME TransportAssumption, ChannelOK, NEW evts \in Seq(Event), TryEmit(evts)
  PROVE  inner' \in Seq(Event) /\ Len(inner') <= ChannelBuffer
<1> DEFINE room == Least(Len(evts), ChannelBuffer - Len(inner))
<1>1. Len(evts) \in Nat /\ Len(inner) \in Nat /\ inner \in Seq(Event)
      /\ Len(inner) <= ChannelBuffer /\ ChannelBuffer \in Nat
  BY LenProperties DEF ChannelOK, TransportAssumption
<1>2. room \in Nat /\ room <= Len(evts) /\ room <= ChannelBuffer - Len(inner)
  BY <1>1 DEF Least
<1>3. SubSeq(evts, 1, room) \in Seq(Event) /\ Len(SubSeq(evts, 1, room)) = room
  <2>1. CASE room = 0
    BY <2>1, SubSeqEmpty, <1>1, EmptySeq
  <2>2. CASE room # 0
    <3>1. 1 \in 1..Len(evts) + 1 /\ room \in 0..Len(evts) /\ 1 <= room + 1
      BY <1>1, <1>2, <2>2
    <3> QED BY <3>1, SubSeqProperties, <1>1, <1>2
  <2> QED BY <2>1, <2>2
<1> QED BY <1>1, <1>2, <1>3, ConcatProperties DEF TryEmit

(* The events the task builds are events. *)
LEMMA EventsOK ==
  /\ \A v \in ConnectionState : StateEvent(v) \in Event /\ <<StateEvent(v)>> \in Seq(Event)
  /\ \A s \in Session, n \in 1..MaxLedger : DurableEvent(s, n) \in Event
  /\ \A k \in {"delta", "caps", "opened", "result", "listed", "rpcError"} :
       PlainEvent(k) \in Event /\ <<PlainEvent(k)>> \in Seq(Event)
BY DEF StateEvent, DurableEvent, PlainEvent, Event

(* An event or a frame of a kind has the fields of that kind. *)
LEMMA FieldsOK ==
  /\ \A e \in Event : e.kind = "durable" => e.s \in Session /\ e.n \in 1..MaxLedger
  /\ \A e \in Event : e.kind = "state" => e.state \in ConnectionState
  /\ \A f \in Frame : f.t = "durable" => f.s \in Session /\ f.n \in 1..MaxLedger
  /\ \A cmd \in Command : cmd.op \in {"open", "fresh"} => cmd.s \in Session
BY DEF Event, Frame, Command

(* A connection-state announcement keeps the event channel in bounds. *)
LEMMA AnnounceOK ==
  ASSUME TransportAssumption, ChannelOK, NEW v \in ConnectionState, Announce(v)
  PROVE  /\ announced' \in ConnectionState
         /\ inner' \in Seq(Event) /\ Len(inner') <= ChannelBuffer
BY EventsOK, TryEmitOK DEF Announce

(* Dropping senders leaves every caller with an outcome. *)
LEMMA DropOK ==
  ASSUME ClientOK, NEW S
  PROVE  Drop(S) \in [Caller -> {"idle", "waiting", "answered", "failed",
                                 "refused", "dropped"}]
BY DEF Drop, ClientOK

(* The way out leaves empty queues. *)
LEMMA ExitOK ==
  ASSUME TypeOK, Exit
  PROVE  /\ pc' = "done" /\ cmds' = <<>> /\ Len(cmds') = 0 /\ cmds' \in Seq(Command)
         /\ DOMAIN pending' = {}
         /\ caller' \in [Caller -> {"idle", "waiting", "answered", "failed",
                                    "refused", "dropped"}]
BY DropOK, EmptySeq DEF Exit, NoPending, TypeOK

(* Backoff delays are counts of seconds, capped by DelayMax. *)
LEMMA BackoffOK ==
  ASSUME TransportAssumption, NEW a, NEW d \in Backoff(a)
  PROVE  d \in Nat /\ d <= DelayMax
BY DEF Backoff, Least, TransportAssumption

(* A reconnect keeps the types, wherever the task came from. *)
LEMMA ReconnectOK ==
  ASSUME TransportAssumption, TypeOK, pc # "blocked",
         NEW rest \in Seq(Command), Len(rest) <= Len(cmds), NEW lost,
         nextId' \in 0..MaxId, nextId' + Len(rest) <= MaxId,
         pendingInitial' \in Seq0,
         RunReconnect(rest, lost)
  PROVE  ClientOK' /\ ChannelOK' /\ ProtoOK' /\ TaskOK'
<1>0. Len(rest) \in Nat /\ Len(cmds) \in Nat
  BY LenProperties DEF TypeOK, ChannelOK
<1>1. UNCHANGED <<view, applied, outer, cursors, held>>
  BY DEF RunReconnect
<1>2. attempt' \in 0..AttemptMax /\ totalWait' \in Nat
  <2>1. attempt' = Least(attempt + 1, AttemptMax)
        /\ \E d \in Backoff(attempt') : totalWait' = totalWait + d
    BY DEF RunReconnect
  <2>2. PICK d \in Backoff(attempt') : totalWait' = totalWait + d
    BY <2>1
  <2> QED BY <2>1, <2>2, BackoffOK DEF TypeOK, TaskOK, Least, TransportAssumption
<1>3. announced' \in ConnectionState /\ inner' \in Seq(Event)
      /\ Len(inner') <= ChannelBuffer
  BY AnnounceOK DEF RunReconnect, TypeOK, ConnectionState
<1>4. CASE Exit
  BY <1>0, <1>1, <1>2, <1>3, <1>4, ExitOK
     DEF TypeOK, ClientOK, ChannelOK, ProtoOK, TaskOK, TransportAssumption
<1>5. CASE /\ pc' = "sleep" /\ cmds' = rest /\ caller' = Drop(lost)
           /\ UNCHANGED pending
  BY <1>0, <1>1, <1>2, <1>3, <1>5, DropOK
     DEF TypeOK, ClientOK, ChannelOK, ProtoOK, TaskOK, TransportAssumption
<1> QED BY <1>4, <1>5 DEF RunReconnect

-----------------------------------------------------------------------------
(* Type correctness, one lemma for each part of Next. *)

(* The UI thread and the forwarder. *)
LEMMA ClientTypes == TransportAssumption /\ TypeOK /\ (Client \/ Forward) => TypeOK'
<1> SUFFICES ASSUME TransportAssumption, TypeOK, Client \/ Forward
             PROVE  TypeOK'
  OBVIOUS
<1> USE DEF TypeOK, ClientOK, ChannelOK, ProtoOK, TaskOK, WireOK
<1>1. ASSUME NEW cmd \in Command, Enqueue(cmd), nextId + Len(cmds) < MaxId,
             UNCHANGED nextId
      PROVE  /\ cmds' \in Seq(Command) /\ Len(cmds') <= ChannelBuffer
             /\ nextId' + Len(cmds') <= MaxId
  <2>1. Append(cmds, cmd) \in Seq(Command) /\ Len(Append(cmds, cmd)) = Len(cmds) + 1
        /\ Len(cmds) \in Nat
    BY QueueAppend
  <2> QED BY <1>1, <2>1 DEF Enqueue, TransportAssumption
<1>2. CASE Post
  <2>1. \E cmd \in Command : Enqueue(cmd)
    BY <1>2 DEF Post, Command
  <2>2. nextId + Len(cmds) < MaxId
        /\ UNCHANGED <<clientVars, inner, outer, protoVars, taskVars, serverVars>>
    BY <1>2 DEF Post
  <2>3. UNCHANGED nextId
    BY <2>2 DEF protoVars
  <2>4. /\ cmds' \in Seq(Command) /\ Len(cmds') <= ChannelBuffer
        /\ nextId' + Len(cmds') <= MaxId
    BY <1>1, <2>1, <2>2, <2>3
  <2> QED BY <2>2, <2>4 DEF clientVars, protoVars, taskVars, serverVars
<1>3. CASE Ask
  <2>1. PICK c \in Caller :
          /\ nextId + Len(cmds) < MaxId /\ Enqueue([op |-> "ask", c |-> c])
          /\ caller' = [caller EXCEPT ![c] = IF cmds' = cmds THEN "refused" ELSE "waiting"]
          /\ UNCHANGED <<view, applied, inner, outer, protoVars, taskVars, serverVars>>
    BY <1>3 DEF Ask
  <2>2. [op |-> "ask", c |-> c] \in Command
    BY DEF Command
  <2>3. UNCHANGED nextId
    BY <2>1 DEF protoVars
  <2>4. /\ cmds' \in Seq(Command) /\ Len(cmds') <= ChannelBuffer
        /\ nextId' + Len(cmds') <= MaxId
    BY <1>1, <2>1, <2>2, <2>3
  <2>5. caller' \in [Caller -> {"idle", "waiting", "answered", "failed",
                                "refused", "dropped"}]
    BY <2>1
  <2>6. UNCHANGED <<view, applied, inner, outer, protoVars, taskVars, serverVars>>
    BY <2>1
  <2>7. ClientOK'
    BY <2>5, <2>6
  <2>8. ChannelOK'
    BY <2>4, <2>6
  <2>9. ProtoOK'
    BY <2>4, <2>6 DEF protoVars
  <2>10. TaskOK'
    BY <2>6 DEF taskVars
  <2>11. WireOK'
    BY <2>6 DEF serverVars
  <2> QED BY <2>7, <2>8, <2>9, <2>10, <2>11
<1>4. CASE Drain
  <2>1. Head(outer) \in Event /\ Tail(outer) \in Seq(Event)
        /\ Len(Tail(outer)) = Len(outer) - 1 /\ Len(outer) \in Nat
    BY <1>4, QueueTail DEF Drain
  <2>2. view' \in ConnectionState
    BY <1>4, <2>1 DEF Drain, Event
  <2>3. applied' \in [Session -> Seq0]
    <3>1. CASE Head(outer).kind = "durable"
      <4>1. Head(outer).s \in Session /\ Head(outer).n \in Seq0
        BY <2>1, <3>1, FieldsOK DEF Seq0, TransportAssumption
      <4>2. applied' = [applied EXCEPT ![Head(outer).s] = Head(outer).n]
        BY <1>4, <3>1 DEF Drain
      <4> QED BY <4>1, <4>2
    <3>2. CASE Head(outer).kind # "durable"
      BY <1>4, <3>2 DEF Drain
    <3> QED BY <3>1, <3>2
  <2> QED BY <1>4, <2>1, <2>2, <2>3
          DEF Drain, protoVars, taskVars, serverVars, TransportAssumption
<1>5. CASE Forward
  <2>1. Head(inner) \in Event /\ Tail(inner) \in Seq(Event)
        /\ Len(Tail(inner)) = Len(inner) - 1 /\ Len(inner) \in Nat
    BY <1>5, QueueTail DEF Forward
  <2>2. Append(outer, Head(inner)) \in Seq(Event)
        /\ Len(Append(outer, Head(inner))) = Len(outer) + 1
    BY <2>1, QueueAppend
  <2>3. Len(outer) \in Nat
    BY LenProperties
  <2> QED BY <1>5, <2>1, <2>2, <2>3
          DEF Forward, clientVars, protoVars, taskVars, serverVars, TransportAssumption
<1> QED BY <1>2, <1>3, <1>4, <1>5 DEF Client

(* Dialing, waiting and giving up. *)
LEMMA ConnectingTypes == TransportAssumption /\ TypeOK /\ Connecting => TypeOK'
<1> SUFFICES ASSUME TransportAssumption, TypeOK, Connecting
             PROVE  TypeOK'
  OBVIOUS
<1>0. Len(cmds) \in Nat
  BY LenProperties DEF TypeOK, ChannelOK
<1>1. CASE BadRequest
  <2>1. announced' \in ConnectionState /\ inner' \in Seq(Event)
        /\ Len(inner') <= ChannelBuffer
    BY <1>1, AnnounceOK DEF BadRequest, TypeOK, ConnectionState
  <2> QED BY <1>0, <1>1, <2>1, ExitOK
          DEF BadRequest, TypeOK, ClientOK, ChannelOK, ProtoOK, TaskOK, WireOK,
              serverVars, TransportAssumption
<1>2. CASE DialFail
  <2>1. /\ pc # "blocked" /\ cmds \in Seq(Command) /\ Len(cmds) <= Len(cmds)
        /\ nextId' \in 0..MaxId /\ nextId' + Len(cmds) <= MaxId
        /\ pendingInitial' \in Seq0 /\ RunReconnect(cmds, {})
    BY <1>2, <1>0 DEF DialFail, TypeOK, ChannelOK, ProtoOK
  <2>2. ClientOK' /\ ChannelOK' /\ ProtoOK' /\ TaskOK'
    BY <2>1, ReconnectOK
  <2> QED BY <1>2, <2>2 DEF DialFail, TypeOK, WireOK, serverVars
<1>3. CASE DialOk
  <2>1. announced' \in ConnectionState /\ inner' \in Seq(Event)
        /\ Len(inner') <= ChannelBuffer
    BY <1>3, AnnounceOK DEF DialOk, TypeOK, ConnectionState
  <2> QED BY <1>3, <2>1
          DEF DialOk, TypeOK, ClientOK, ChannelOK, ProtoOK, TaskOK, WireOK,
              clientVars, protoVars, serverVars, TransportAssumption
<1>4. CASE Wake
  <2>1. announced' \in ConnectionState /\ inner' \in Seq(Event)
        /\ Len(inner') <= ChannelBuffer
    BY <1>4, AnnounceOK DEF Wake, TypeOK, ConnectionState
  <2> QED BY <1>4, <2>1
          DEF Wake, TypeOK, ClientOK, ChannelOK, ProtoOK, TaskOK, WireOK,
              clientVars, protoVars, serverVars, TransportAssumption
<1> QED BY <1>1, <1>2, <1>3, <1>4 DEF Connecting

(* The command arm of the select. *)
LEMMA CommandsTypes == TransportAssumption /\ TypeOK /\ Commands => TypeOK'
<1> SUFFICES ASSUME TransportAssumption, TypeOK, Commands
             PROVE  TypeOK'
  OBVIOUS
<1> DEFINE cmd == Head(cmds)
<1>0. TakeCommand
  BY DEF Commands, HandleSend, HandleSendFails, HandleDisconnect
<1>1. /\ cmd \in Command /\ Tail(cmds) \in Seq(Command)
      /\ Len(Tail(cmds)) = Len(cmds) - 1 /\ Len(cmds) \in Nat \ {0}
  BY <1>0, QueueTail DEF TakeCommand, TypeOK, ChannelOK
<1>2. /\ nextId' \in 0..MaxId /\ nextId' + Len(Tail(cmds)) <= MaxId
      /\ nextId \in 0..MaxId /\ pendingInitial' \in Seq0
  BY <1>0, <1>1 DEF TakeCommand, TypeOK, ProtoOK, Seq0, TransportAssumption
<1>3. After(cmd) \in Seq0
  BY <1>1 DEF After, TypeOK, ProtoOK, Seq0, Command, TransportAssumption
<1>4. up' \in Seq([id : 0..MaxId, cmd : Request, after : Seq0]) \/ up' = <<>>
  <2>1. CASE HandleSend
    <3>1. [id |-> FreshId, cmd |-> cmd, after |-> After(cmd)]
            \in [id : 0..MaxId, cmd : Request, after : Seq0]
      BY <1>1, <1>2, <1>3, <2>1 DEF HandleSend, FreshId, Request
    <3> QED BY <2>1, <3>1, QueueAppend DEF HandleSend, TypeOK, WireOK
  <2> QED BY <2>1 DEF Commands, HandleSendFails, HandleDisconnect, SocketGone
<1>5. WireOK'
  BY <1>4, EmptySeq
     DEF Commands, HandleSend, HandleSendFails, HandleDisconnect, SocketGone,
         TypeOK, WireOK
<1>6. CASE HandleSend
  <2>1. /\ DOMAIN pending' \subseteq 0..MaxId
        /\ \A id \in DOMAIN pending' : pending'[id] \in Request
    BY <1>1, <1>2, <1>6 DEF HandleSend, FreshId, Request, TypeOK, ProtoOK
  <2>2. ChannelOK'
    BY <1>1, <1>6 DEF HandleSend, TypeOK, ChannelOK, TransportAssumption
  <2>3. ProtoOK'
    BY <1>1, <1>2, <1>6, <2>1 DEF HandleSend, TypeOK, ProtoOK
  <2>4. ClientOK' /\ TaskOK'
    BY <1>6 DEF HandleSend, TypeOK, ClientOK, TaskOK, clientVars, taskVars
  <2> QED BY <1>5, <2>2, <2>3, <2>4 DEF TypeOK
<1>7. CASE HandleSendFails
  <2>1. pc # "blocked" /\ Len(Tail(cmds)) <= Len(cmds)
    BY <1>0, <1>1 DEF TakeCommand
  <2>2. ClientOK' /\ ChannelOK' /\ ProtoOK' /\ TaskOK'
    BY <1>1, <1>2, <1>7, <2>1, ReconnectOK DEF HandleSendFails
  <2> QED BY <1>5, <2>2 DEF TypeOK
<1>8. CASE HandleDisconnect
  BY <1>0, <1>1, <1>2, <1>5, <1>8, ExitOK
     DEF HandleDisconnect, TakeCommand, TypeOK, ClientOK, ChannelOK, ProtoOK,
         TaskOK, TransportAssumption
<1> QED BY <1>6, <1>7, <1>8 DEF Commands

(* The socket arm of the select. *)
LEMMA FramesTypes == TransportAssumption /\ TypeOK /\ Frames => TypeOK'
<1> SUFFICES ASSUME TransportAssumption, TypeOK, Frames
             PROVE  TypeOK'
  OBVIOUS
<1>1. ASSUME NEW t, Reading(t), TaskOK', ProtoOK', ClientOK',
             inner' \in Seq(Event) /\ Len(inner') <= ChannelBuffer
      PROVE  TypeOK'
  <2>1. Tail(down) \in Seq(Frame)
    BY <1>1, QueueTail DEF Reading, TypeOK, WireOK
  <2> QED BY <1>1, <2>1 DEF Reading, TypeOK, ChannelOK, WireOK
<1>2. ASSUME NEW t, Reading(t)
      PROVE  Head(down) \in Frame /\ Head(down).t = t /\ pc = "run"
  BY <1>2, QueueTail DEF Reading, TypeOK, WireOK
<1>3. ASSUME NEW t, Reading(t), NEW id, NEW out \in {"answered", "failed"},
             Settle(id, out), UNCHANGED cursors
      PROVE  ProtoOK' /\ ClientOK' /\ pending[id] \in Request
  <2>1. pending[id] \in Request
    BY <1>3 DEF Settle, TypeOK, ProtoOK
  <2>2. /\ DOMAIN pending' \subseteq 0..MaxId
        /\ \A i \in DOMAIN pending' : pending'[i] \in Request
    BY <1>3 DEF Settle, Without, TypeOK, ProtoOK
  <2>3. ClientOK'
    BY <1>3 DEF Settle, Reading, TypeOK, ClientOK
  <2> QED BY <1>3, <2>1, <2>2, <2>3 DEF Reading, TypeOK, ProtoOK
<1>4. CASE ReadResponse
  <2> DEFINE id == Head(down).id
  <2>1. Reading("response") /\ Settle(id, "answered")
        /\ TryEmit(ResultEvents(pending[id])) /\ UNCHANGED <<cursors, pc, held>>
        /\ announced' = IF Opens(pending[id]) THEN "Live" ELSE announced
    BY <1>4 DEF ReadResponse
  <2>2. ProtoOK' /\ ClientOK' /\ pending[id] \in Request
    BY <1>3, <2>1
  <2>3. ResultEvents(pending[id]) \in Seq(Event)
    <3>1. StateEvent("Live") \in Event /\ PlainEvent("caps") \in Event
          /\ PlainEvent("opened") \in Event /\ PlainEvent("result") \in Event
          /\ PlainEvent("listed") \in Event
      BY EventsOK DEF ConnectionState
    <3>2. <<PlainEvent("caps"), PlainEvent("opened")>> \in Seq(Event)
          /\ <<StateEvent("Live")>> \in Seq(Event) /\ <<>> \in Seq(Event)
          /\ <<PlainEvent("result")>> \in Seq(Event)
          /\ <<PlainEvent("listed")>> \in Seq(Event)
      BY <3>1
    <3>3. <<PlainEvent("caps"), PlainEvent("opened")>>
            \o (IF announced = "Live" THEN <<>> ELSE <<StateEvent("Live")>>) \in Seq(Event)
      BY <3>2, ConcatProperties
    <3>4. pending[id].op \in {"open", "fresh", "ask", "turn", "list"}
      BY <2>2 DEF Request, Command
    <3> QED BY <3>2, <3>3, <3>4 DEF ResultEvents, Opens
  <2>4. inner' \in Seq(Event) /\ Len(inner') <= ChannelBuffer
    BY <2>1, <2>3, TryEmitOK DEF TypeOK
  <2>5. TaskOK'
    BY <2>1 DEF Reading, TypeOK, TaskOK, ConnectionState
  <2> QED BY <1>1, <2>1, <2>2, <2>4, <2>5
<1>5. CASE ReadError
  <2>1. Reading("error") /\ Settle(Head(down).id, "failed")
        /\ TryEmit(<<PlainEvent("rpcError")>>)
        /\ UNCHANGED <<cursors, pc, announced, held>>
    BY <1>5 DEF ReadError
  <2>2. ProtoOK' /\ ClientOK'
    BY <1>3, <2>1
  <2>3. inner' \in Seq(Event) /\ Len(inner') <= ChannelBuffer
    BY <2>1, EventsOK, TryEmitOK DEF TypeOK
  <2>4. TaskOK'
    BY <2>1 DEF Reading, TypeOK, TaskOK
  <2> QED BY <1>1, <2>1, <2>2, <2>3, <2>4
<1>6. CASE ReadDelta
  <2>1. Reading("delta") /\ TryEmit(<<PlainEvent("delta")>>)
        /\ UNCHANGED <<caller, pending, cursors, pc, announced, held>>
    BY <1>6 DEF ReadDelta
  <2>2. inner' \in Seq(Event) /\ Len(inner') <= ChannelBuffer
    BY <2>1, EventsOK, TryEmitOK DEF TypeOK
  <2>3. ProtoOK' /\ ClientOK' /\ TaskOK'
    BY <2>1 DEF Reading, TypeOK, ProtoOK, ClientOK, TaskOK
  <2> QED BY <1>1, <2>1, <2>2, <2>3
<1>7. CASE ReadStray
  <2>1. Reading("stray")
        /\ UNCHANGED <<caller, inner, pending, cursors, pc, announced, held>>
    BY <1>7 DEF ReadStray
  <2>2. ProtoOK' /\ ClientOK' /\ TaskOK'
        /\ inner' \in Seq(Event) /\ Len(inner') <= ChannelBuffer
    BY <2>1 DEF Reading, TypeOK, ChannelOK, ProtoOK, ClientOK, TaskOK
  <2> QED BY <1>1, <2>1, <2>2
<1>8. CASE ReadDurable
  <2> DEFINE f == Head(down)
             e == DurableEvent(f.s, f.n)
  <2>1. Reading("durable") /\ cursors' = [cursors EXCEPT ![f.s] = f.n]
        /\ EmitDurable(e) /\ UNCHANGED <<caller, pending, announced>>
    BY <1>8 DEF ReadDurable
  <2>2. f.s \in Session /\ f.n \in 1..MaxLedger /\ pc = "run"
    BY <1>2, <2>1, FieldsOK
  <2>3. e \in Event
    BY <2>2, EventsOK
  <2>4. cursors' \in [Session -> Seq0]
    BY <2>1, <2>2 DEF TypeOK, ProtoOK, Seq0, TransportAssumption
  <2>5. ProtoOK' /\ ClientOK'
    BY <2>1, <2>4 DEF Reading, TypeOK, ProtoOK, ClientOK
  <2>6. inner' \in Seq(Event) /\ Len(inner') <= ChannelBuffer
    <3>1. inner \in Seq(Event) /\ Len(inner) <= ChannelBuffer /\ ChannelBuffer \in Nat
      BY DEF TypeOK, ChannelOK, TransportAssumption
    <3>2. Append(inner, e) \in Seq(Event) /\ Len(Append(inner, e)) = Len(inner) + 1
          /\ Len(inner) \in Nat
      BY <2>3, <3>1, QueueAppend
    <3> QED BY <2>1, <3>1, <3>2 DEF EmitDurable
  <2>7. TaskOK'
    BY <2>1, <2>2, <2>3 DEF Reading, EmitDurable, TypeOK, TaskOK
  <2> QED BY <1>1, <2>1, <2>5, <2>6, <2>7
<1>9. CASE FinishEmit
  <2>1. held \in Event /\ pc = "blocked" /\ Len(inner) < ChannelBuffer
        /\ inner' = Append(inner, held) /\ held' = NoEvent /\ pc' = "run"
        /\ UNCHANGED <<clientVars, cmds, outer, protoVars, announced, attempt,
                       totalWait, serverVars>>
    BY <1>9 DEF FinishEmit, TypeOK, TaskOK
  <2>2. inner' \in Seq(Event) /\ Len(inner') <= ChannelBuffer
    BY <2>1, QueueAppend DEF TypeOK, ChannelOK, TransportAssumption
  <2>3. ClientOK' /\ ProtoOK' /\ TaskOK' /\ WireOK'
    BY <2>1 DEF TypeOK, ClientOK, ProtoOK, TaskOK, WireOK,
                clientVars, protoVars, serverVars
  <2> QED BY <2>1, <2>2, <2>3 DEF TypeOK, ChannelOK, clientVars
<1>10. CASE SocketDrop
  <2>1. /\ pc # "blocked" /\ cmds \in Seq(Command) /\ Len(cmds) <= Len(cmds)
        /\ nextId' \in 0..MaxId /\ nextId' + Len(cmds) <= MaxId
        /\ pendingInitial' \in Seq0 /\ RunReconnect(cmds, {}) /\ SocketGone
    BY <1>10, LenProperties DEF SocketDrop, TypeOK, ChannelOK, ProtoOK
  <2>2. ClientOK' /\ ChannelOK' /\ ProtoOK' /\ TaskOK'
    BY <2>1, ReconnectOK
  <2> QED BY <2>1, <2>2, EmptySeq DEF SocketGone, TypeOK, WireOK
<1>11. CASE ReadUndecodable
  <2>1. Reading("response") /\ Settle(Head(down).id, "failed")
        /\ UNCHANGED <<inner, cursors, pc, announced, held>>
    BY <1>11 DEF ReadUndecodable
  <2>2. ProtoOK' /\ ClientOK'
    BY <1>3, <2>1
  <2>3. TaskOK' /\ inner' \in Seq(Event) /\ Len(inner') <= ChannelBuffer
    BY <2>1 DEF Reading, TypeOK, ChannelOK, TaskOK
  <2> QED BY <1>1, <2>1, <2>2, <2>3
<1> QED BY <1>4, <1>5, <1>6, <1>7, <1>8, <1>9, <1>10, <1>11 DEF Frames

(* The server. *)
LEMMA ServerTypes == TransportAssumption /\ TypeOK /\ Server => TypeOK'
<1> SUFFICES ASSUME TransportAssumption, TypeOK, Server
             PROVE  TypeOK'
  OBVIOUS
<1>1. WireOK'
  <2>1. CASE Produce
    BY <2>1 DEF Produce, TypeOK, WireOK, Seq0, TransportAssumption
  <2>2. CASE Push
    <3>1. PICK s \in Session :
            /\ pos[s] < ledger[s]
            /\ pos' = [pos EXCEPT ![s] = @ + 1]
            /\ down' = Append(down, [t |-> "durable", s |-> s, n |-> pos[s] + 1])
            /\ UNCHANGED <<up, ledger>>
      BY <2>2 DEF Push
    <3>2. pos[s] \in 0..(MaxLedger + 1) /\ ledger[s] \in 0..MaxLedger
      BY <3>1 DEF TypeOK, WireOK, Seq0, Detached, TransportAssumption
    <3>3. pos[s] + 1 \in 1..MaxLedger
      BY <3>1, <3>2 DEF TransportAssumption
    <3>4. down' \in Seq(Frame)
      BY <3>1, <3>3, QueueAppend DEF Frame, TypeOK, WireOK
    <3> QED BY <3>1, <3>3, <3>4 DEF TypeOK, WireOK, Seq0
  <2>3. CASE Noise
    BY <2>3, QueueAppend DEF Noise, Frame, TypeOK, WireOK
  <2>4. CASE Answer
    <3> DEFINE r == Head(up)
    <3>1. /\ r \in [id : 0..MaxId, cmd : Request, after : Seq0]
          /\ up' \in Seq([id : 0..MaxId, cmd : Request, after : Seq0])
      BY <2>4, QueueTail DEF Answer, TypeOK, WireOK
    <3>2. \A t \in {"response", "error"} : [t |-> t, id |-> r.id, cmd |-> r.cmd] \in Frame
      BY <3>1 DEF Frame
    <3>3. down' \in Seq(Frame)
      <4>1. \E t \in {"response", "error"} :
              down' = Append(down, [t |-> t, id |-> r.id, cmd |-> r.cmd])
        BY <2>4 DEF Answer
      <4>2. down \in Seq(Frame)
        BY DEF TypeOK, WireOK
      <4> QED BY <4>1, <4>2, <3>2, QueueAppend
    <3>4. pos' \in [Session -> Seq0 \cup {Detached}]
      <4>1. CASE UNCHANGED pos
        BY <4>1 DEF TypeOK, WireOK
      <4>2. CASE Opens(r.cmd) /\ Attach(r.cmd, r.after)
        <5>1. r.cmd.s \in Session /\ r.after \in Seq0
          BY <3>1, <4>2, FieldsOK DEF Request, Opens
        <5>2. ledger[r.cmd.s] \in Seq0
          BY <5>1 DEF TypeOK, WireOK
        <5> QED BY <4>2, <5>1, <5>2 DEF Attach, TypeOK, WireOK
      <4> QED BY <2>4, <4>1, <4>2 DEF Answer
    <3> QED BY <2>4, <3>1, <3>3, <3>4 DEF Answer, TypeOK, WireOK
  <2> QED BY <2>1, <2>2, <2>3, <2>4 DEF Server
<1> QED BY <1>1 DEF Server, Produce, Push, Noise, Answer, clientVars, chanVars, protoVars,
               taskVars, TypeOK, ClientOK, ChannelOK, ProtoOK, TaskOK
-----------------------------------------------------------------------------
(* The variables keep their types, for every instance: the channels never  *)
(* exceed their depth, request ids stay in range and a task waits with an  *)
(* event in hand exactly when it is blocked (proto.rs 173-197, ws/mod.rs   *)
(* 62-75).                                                                 *)
THEOREM TypeCorrect == Spec => []TypeOK
<1> USE TransportAssumption
<1>1. Init => TypeOK
  <2> SUFFICES ASSUME Init PROVE TypeOK
    OBVIOUS
  <2>1. /\ StateEvent("Idle") \in Event /\ StateEvent("Dialing") \in Event
    BY EventsOK DEF ConnectionState
  <2>2. inner \in Seq(Event) /\ Len(inner) <= ChannelBuffer
    <3> DEFINE e == <<StateEvent("Idle"), StateEvent("Dialing")>>
               m == Least(2, ChannelBuffer)
    <3>1. m \in 1..2 /\ m <= ChannelBuffer
      BY DEF Least, TransportAssumption
    <3>2. e \in Seq(Event) /\ Len(e) = 2 /\ \A i \in 1..m : e[i] \in Event
      BY <2>1, <3>1
    <3>3. inner = SubSeq(e, 1, m)
      BY DEF Init
    <3> HIDE DEF e, m
    <3> QED BY <3>1, <3>2, <3>3, SubSeqProperties DEF TransportAssumption
  <2>3. cursors \in [Session -> Seq0] /\ applied = cursors /\ ledger = cursors
    <3>1. 0..StoredMax \subseteq Seq0
      BY DEF Seq0, TransportAssumption
    <3> QED BY <3>1 DEF Init
  <2>4. ClientOK /\ ProtoOK
    BY <2>3 DEF Init, ClientOK, ProtoOK, Seq0, ConnectionState, TransportAssumption
  <2>5. ChannelOK
    <3>1. <<>> \in Seq(Command) /\ <<>> \in Seq(Event) /\ Len(<<>>) = 0
      BY EmptySeq
    <3>2. 0 <= ChannelBuffer /\ 0 <= ChannelBuffer + 1
      BY DEF TransportAssumption
    <3>3. cmds = <<>> /\ outer = <<>>
      BY DEF Init
    <3> QED BY <2>2, <3>1, <3>2, <3>3 DEF ChannelOK
  <2>6. TaskOK
    BY DEF Init, TaskOK, ConnectionState, TransportAssumption
  <2>7. WireOK
    BY <2>3, EmptySeq DEF Init, WireOK
  <2> QED BY <2>4, <2>5, <2>6, <2>7 DEF TypeOK
<1>2. TypeOK /\ [Next]_vars => TypeOK'
  <2> SUFFICES ASSUME TypeOK, [Next]_vars PROVE TypeOK'
    OBVIOUS
  <2>1. CASE UNCHANGED vars
    BY <2>1 DEF vars, clientVars, chanVars, protoVars, taskVars, serverVars,
                TypeOK, ClientOK, ChannelOK, ProtoOK, TaskOK, WireOK
  <2> QED BY <2>1, ClientTypes, ConnectingTypes, CommandsTypes, FramesTypes,
             ServerTypes DEF Next
<1> QED BY <1>1, <1>2, PTL DEF Spec

-----------------------------------------------------------------------------
(* The reconnect budget. *)

(* A window of one second, which ends before its first second. *)
LEMMA FirstWindow == \A n \in Int : n = 0 => 2^n - 1 = 0
<1> SUFFICES ASSUME NEW n \in Int, n = 0 PROVE 2^n - 1 = 0
  OBVIOUS
<1>1. 2^0 = 1
  BY SMT
<1> QED BY <1>1

(* The first retry is immediate. *)
LEMMA FirstBackoff == ASSUME TransportAssumption PROVE Backoff(1) = {0}
<1>1. Least(1 - 1, ExpMax) \in Int /\ Least(1 - 1, ExpMax) = 0
      /\ Least(0, DelayMax) = 0
  BY DEF Least, TransportAssumption
<1>2. 2^Least(1 - 1, ExpMax) - 1 = 0
  BY <1>1, FirstWindow
<1>3. \A k : k = 0 => 0..k = {0}
  OBVIOUS
<1>4. 0..(2^Least(1 - 1, ExpMax) - 1) = {0}
  BY <1>2, <1>3
<1> QED BY <1>1, <1>4 DEF Backoff

(* One more wait fits under one more delay. *)
LEMMA OneMoreDelay ==
  \A a, d, w \in Nat : w <= (a - 1) * d => w + d <= (a + 1 - 1) * d
BY SMT

(* A step of run_reconnect accounts for its wait in the present outage. *)
LEMMA ReconnectBudgetOK ==
  ASSUME TransportAssumption, TypeOK, OutageBudget, pc \in {"run", "dial"},
         NEW rest, NEW lost, RunReconnect(rest, lost)
  PROVE  OutageBudget'
<1>1. PICK d \in Backoff(attempt') : totalWait' = totalWait + d
  BY DEF RunReconnect
<1>2. d \in Nat /\ d <= DelayMax
  BY <1>1, BackoffOK
<1>3. /\ attempt' = Least(attempt + 1, AttemptMax)
      /\ attempt \in 0..AttemptMax /\ totalWait \in Nat
      /\ AttemptMax \in Nat \ {0} /\ DelayMax \in Nat /\ ReconnectBudget \in Nat
  BY DEF RunReconnect, TypeOK, TaskOK, TransportAssumption
<1>4. attempt' >= 1 /\ attempt' \in 1..AttemptMax
  BY <1>3 DEF Least
<1>5. attempt' \in 1..(AttemptMax - 1) => totalWait' <= (attempt' - 1) * DelayMax
  <2> SUFFICES ASSUME attempt' \in 1..(AttemptMax - 1)
               PROVE  totalWait' <= (attempt' - 1) * DelayMax
    OBVIOUS
  <2>1. attempt' = attempt + 1
    BY <1>3 DEF Least
  <2>2. CASE attempt = 0
    <3>1. d = 0 /\ totalWait = 0
      BY <1>1, <2>1, <2>2, FirstBackoff DEF OutageBudget
    <3> QED BY <1>1, <1>3, <2>1, <2>2, <3>1
  <2>3. CASE attempt # 0
    <3>1. totalWait <= (attempt - 1) * DelayMax
      BY <1>3, <2>1, <2>3 DEF OutageBudget
    <3>2. totalWait + DelayMax <= (attempt + 1 - 1) * DelayMax
      BY <1>3, <3>1, OneMoreDelay
    <3>3. (attempt + 1 - 1) * DelayMax \in Nat
      BY <1>3
    <3> QED BY <1>1, <1>2, <1>3, <2>1, <3>2, <3>3
  <2> QED BY <2>2, <2>3
<1>6. \/ totalWait' > ReconnectBudget /\ announced' = "Failed" /\ pc' = "done"
      \/ announced' = "Reconnecting" /\ pc' = "sleep"
  BY DEF RunReconnect, Announce, Exit
<1> QED BY <1>4, <1>5, <1>6 DEF OutageBudget, Connected

(* The budget of the present outage is an invariant. *)
LEMMA BudgetStep ==
  ASSUME TransportAssumption, TypeOK, OutageBudget, [Next]_vars
  PROVE  OutageBudget'
<1>1. CASE UNCHANGED <<pc, announced, attempt, totalWait>>
  BY <1>1 DEF OutageBudget, Connected
<1>2. CASE BadRequest
  BY <1>2 DEF BadRequest, Announce, Exit, OutageBudget, Connected
<1>3. CASE DialFail
  BY <1>3, ReconnectBudgetOK DEF DialFail
<1>4. CASE DialOk
  BY <1>4 DEF DialOk, Announce, OutageBudget, Connected
<1>5. CASE Wake
  BY <1>5 DEF Wake, Announce, OutageBudget, Connected
<1>6. CASE HandleSendFails
  BY <1>6, ReconnectBudgetOK DEF HandleSendFails, TakeCommand
<1>7. CASE HandleDisconnect
  BY <1>7 DEF HandleDisconnect, TakeCommand, Exit, OutageBudget, Connected
<1>8. CASE SocketDrop
  BY <1>8, ReconnectBudgetOK DEF SocketDrop
<1>9. CASE ReadResponse
  <2>1. pc = "run" /\ UNCHANGED <<pc, attempt, totalWait>>
        /\ announced' \in {"Live", announced}
    BY <1>9 DEF ReadResponse, Reading
  <2> QED BY <2>1 DEF OutageBudget, Connected
<1>10. CASE ReadDurable
  <2>1. pc = "run" /\ pc' \in {"run", "blocked"}
        /\ UNCHANGED <<announced, attempt, totalWait>>
    BY <1>10 DEF ReadDurable, Reading, EmitDurable
  <2> QED BY <2>1 DEF OutageBudget, Connected
<1>11. CASE FinishEmit
  BY <1>11 DEF FinishEmit, OutageBudget, Connected
<1>12. CASE Client \/ Forward \/ HandleSend \/ ReadError \/ ReadUndecodable
            \/ ReadDelta \/ ReadStray \/ Server \/ UNCHANGED vars
  <2>1. UNCHANGED <<pc, announced, attempt, totalWait>>
    BY <1>12 DEF Client, Post, Ask, Drain, Forward, HandleSend, ReadError,
                 ReadUndecodable, ReadDelta, ReadStray, Reading, Server, Produce, Push, Noise, Answer, vars, taskVars
  <2> QED BY <1>1, <2>1
<1> QED BY <1>2, <1>3, <1>4, <1>5, <1>6, <1>7, <1>8, <1>9, <1>10, <1>11, <1>12
        DEF Next, Connecting, Commands, Frames

(* For every budget and delay cap: the task announces Failed only when the *)
(* waits of the present outage, without those of earlier ones, exceed the  *)
(* budget (ws/mod.rs 292-313).                                             *)
THEOREM GiveUpCorrect == Spec => []GiveUpOnlyWhenExhausted
<1> USE TransportAssumption
<1>1. Init => OutageBudget
  BY DEF Init, OutageBudget, Connected
<1>2. TypeOK /\ OutageBudget /\ [Next]_vars => OutageBudget'
  BY BudgetStep
<1>3. TypeOK /\ OutageBudget => GiveUpOnlyWhenExhausted
  <2> SUFFICES ASSUME TypeOK, OutageBudget, announced = "Failed", attempt > 0
               PROVE  (attempt - 1) * DelayMax > ReconnectBudget
    BY DEF GiveUpOnlyWhenExhausted
  <2>1. /\ attempt \in 1..AttemptMax /\ totalWait \in Nat /\ DelayMax \in Nat
        /\ ReconnectBudget \in Nat /\ totalWait > ReconnectBudget
    BY DEF TypeOK, TaskOK, OutageBudget, TransportAssumption
  <2>2. CASE attempt = AttemptMax
    BY <2>2 DEF TransportAssumption
  <2>3. CASE attempt # AttemptMax
    <3>1. totalWait <= (attempt - 1) * DelayMax /\ (attempt - 1) * DelayMax \in Nat
      BY <2>1, <2>3 DEF OutageBudget, TransportAssumption
    <3> QED BY <2>1, <3>1
  <2> QED BY <2>2, <2>3
<1> QED BY <1>1, <1>2, <1>3, TypeCorrect, PTL DEF Spec

-----------------------------------------------------------------------------
(* Request ids. *)

(* The elements of a queue that lost its head. *)
LEMMA TailAt ==
  ASSUME NEW S, NEW q \in Seq(S), q # <<>>
  PROVE  /\ 1 \in DOMAIN q /\ Head(q) = q[1]
         /\ \A i \in DOMAIN Tail(q) : i + 1 \in DOMAIN q /\ i + 1 # 1
                                      /\ i \in Nat /\ Tail(q)[i] = q[i + 1]
<1>1. Tail(q) \in Seq(S) /\ Len(Tail(q)) = Len(q) - 1 /\ Len(q) \in Nat \ {0}
      /\ \A i \in 1..Len(Tail(q)) : Tail(q)[i] = q[i + 1]
  BY HeadTailProperties, EmptySeq
<1>2. DOMAIN q = 1..Len(q) /\ DOMAIN Tail(q) = 1..Len(Tail(q))
  BY <1>1, LenProperties
<1>3. Head(q) = q[1]
  OBVIOUS
<1> QED BY <1>1, <1>2, <1>3

(* The elements of a queue that gained one. *)
LEMMA AppendAt ==
  ASSUME NEW S, NEW q \in Seq(S), NEW e \in S
  PROVE  \A i \in DOMAIN Append(q, e) :
           \/ i \in DOMAIN q /\ Append(q, e)[i] = q[i]
           \/ i = Len(q) + 1 /\ i \notin DOMAIN q /\ Append(q, e)[i] = e
<1>1. /\ Append(q, e) \in Seq(S) /\ Len(Append(q, e)) = Len(q) + 1
      /\ \A i \in 1..Len(q) : Append(q, e)[i] = q[i]
      /\ Append(q, e)[Len(q) + 1] = e
  BY AppendProperties
<1>2. DOMAIN q = 1..Len(q) /\ DOMAIN Append(q, e) = 1..Len(Append(q, e))
      /\ Len(q) \in Nat
  BY <1>1, LenProperties
<1> QED BY <1>1, <1>2

(* Without a socket only the order of the ids is left to check. *)
LEMMA GoneOK ==
  ASSUME TypeOK, TypeOK', RequestIds, up' = <<>>, down' = <<>>,
         nextId' >= nextId,
         DOMAIN pending' = {} \/ pending' = pending
  PROVE  RequestIds'
<1>1. \A id \in DOMAIN pending' : id < nextId'
  BY DEF RequestIds, TypeOK, ProtoOK
<1>2. DOMAIN up' = {} /\ DOMAIN down' = {}
  OBVIOUS
<1> QED BY <1>1, <1>2 DEF RequestIds, ReplyMatchesRequest

(* A frame that is no reply leaves the queue. *)
LEMMA PassedOverOK ==
  ASSUME TypeOK, RequestIds, NEW t, t \notin {"response", "error"}, Reading(t),
         UNCHANGED pending, Connected'
  PROVE  RequestIds'
<1>1. /\ down \in Seq(Frame) /\ down # <<>> /\ down' = Tail(down)
      /\ UNCHANGED <<up, nextId>>
  BY DEF Reading, TypeOK, WireOK
<1>2. \A i \in DOMAIN down' : i + 1 \in DOMAIN down /\ i \in Nat
                              /\ down'[i] = down[i + 1]
  BY <1>1, TailAt
<1> QED BY <1>1, <1>2 DEF RequestIds, ReplyMatchesRequest, Reply

(* A reply leaves the queue with its pending entry: no other frame had its *)
(* id.                                                                     *)
LEMMA SettledOK ==
  ASSUME TypeOK, RequestIds, NEW t, t \in {"response", "error"}, Reading(t),
         NEW out, Settle(Head(down).id, out), UNCHANGED pc
  PROVE  RequestIds'
<1> DEFINE id == Head(down).id
<1>1. /\ down \in Seq(Frame) /\ down # <<>> /\ down' = Tail(down)
      /\ UNCHANGED <<up, nextId>> /\ Reply(down[1]) /\ id = down[1].id
      /\ 1 \in DOMAIN down /\ Connected'
  BY TailAt DEF Reading, TypeOK, WireOK, Reply, Connected
<1>2. \A i \in DOMAIN down' : i + 1 \in DOMAIN down /\ i + 1 # 1 /\ i \in Nat
                              /\ down'[i] = down[i + 1]
  BY <1>1, TailAt
<1>3. /\ DOMAIN pending' = DOMAIN pending \ {id}
      /\ \A x \in DOMAIN pending \ {id} : pending'[x] = pending[x]
  BY DEF Settle, Without
<1>4. \A i \in DOMAIN up : up[i].id # id
  BY <1>1 DEF RequestIds
<1>5. \A i \in DOMAIN down' : Reply(down'[i]) => down'[i].id # id
  BY <1>1, <1>2 DEF RequestIds
<1>6. ReplyMatchesRequest'
  BY <1>1, <1>2, <1>3, <1>4, <1>5 DEF RequestIds, ReplyMatchesRequest
<1>7. \A i, j \in DOMAIN down' :
        Reply(down'[i]) /\ Reply(down'[j]) /\ down'[i].id = down'[j].id => i = j
  BY <1>2 DEF RequestIds
<1>8. \A i \in DOMAIN up', j \in DOMAIN down' :
        Reply(down'[j]) => up'[i].id # down'[j].id
  BY <1>1, <1>2 DEF RequestIds
<1>9. \A x \in DOMAIN pending' : x < nextId'
  BY <1>1, <1>3 DEF RequestIds
<1> QED BY <1>1, <1>6, <1>7, <1>8, <1>9 DEF RequestIds, Reply

(* A request goes out under an id that no frame carries. *)
LEMMA SentOK ==
  ASSUME TypeOK, RequestIds, HandleSend
  PROVE  RequestIds'
<1> DEFINE cmd == Head(cmds)
           new == [id |-> nextId, cmd |-> cmd, after |-> After(cmd)]
<1>1. /\ up' = Append(up, new) /\ nextId' = nextId + 1 /\ nextId \in Nat
      /\ UNCHANGED <<down, pc>> /\ pc = "run"
      /\ pending' = [id \in DOMAIN pending \cup {nextId} |->
                       IF id = nextId THEN cmd ELSE pending[id]]
  BY DEF HandleSend, TakeCommand, FreshId, taskVars, TypeOK, ProtoOK
<1>2. up \in Seq([id : 0..MaxId, cmd : Request, after : Seq0])
  BY DEF TypeOK, WireOK
<1>3. up \in Seq({up[i] : i \in DOMAIN up} \cup {new})
  BY <1>2, LenProperties
<1>4. \A i \in DOMAIN up' : \/ i \in DOMAIN up /\ up'[i] = up[i]
                            \/ i = Len(up) + 1 /\ i \notin DOMAIN up /\ up'[i] = new
  BY <1>1, <1>3, AppendAt
<1>5. /\ \A i \in DOMAIN up : up[i].id # nextId
      /\ \A i \in DOMAIN down : Reply(down[i]) => down[i].id # nextId
      /\ nextId \notin DOMAIN pending
  <2>1. \A id \in DOMAIN pending : id # nextId
    BY <1>1 DEF RequestIds, TypeOK, ProtoOK
  <2> QED BY <2>1 DEF RequestIds, ReplyMatchesRequest
<1>6. \A x \in DOMAIN pending' : x < nextId'
  BY <1>1 DEF RequestIds, TypeOK, ProtoOK
<1>7. ReplyMatchesRequest'
  BY <1>1, <1>4, <1>5 DEF RequestIds, ReplyMatchesRequest
<1>8. \A i, j \in DOMAIN up' : up'[i].id = up'[j].id => i = j
  BY <1>4, <1>5 DEF RequestIds
<1>9. \A i \in DOMAIN up', j \in DOMAIN down' :
        Reply(down'[j]) => up'[i].id # down'[j].id
  BY <1>1, <1>4, <1>5 DEF RequestIds
<1> QED BY <1>1, <1>6, <1>7, <1>8, <1>9 DEF RequestIds, Connected, Reply

(* The server pushes a frame that is no reply. *)
LEMMA PushedOK ==
  ASSUME TypeOK, RequestIds, NEW f, f.t \notin {"response", "error"}, Connected,
         down' = Append(down, f), UNCHANGED <<up, pending, nextId, pc>>
  PROVE  RequestIds'
<1>1. down \in Seq({down[i] : i \in DOMAIN down} \cup {f})
  BY LenProperties DEF TypeOK, WireOK
<1>2. \A i \in DOMAIN down' : \/ i \in DOMAIN down /\ down'[i] = down[i]
                              \/ ~Reply(down'[i])
  BY <1>1, AppendAt DEF Reply
<1> QED BY <1>2 DEF RequestIds, ReplyMatchesRequest, Connected

(* The server moves an id from a request to its reply. *)
LEMMA AnsweredOK ==
  ASSUME TypeOK, RequestIds, Answer
  PROVE  RequestIds'
<1> DEFINE r == Head(up)
<1>1. PICK t \in {"response", "error"} :
        down' = Append(down, [t |-> t, id |-> r.id, cmd |-> r.cmd])
  BY DEF Answer
<1> DEFINE f == [t |-> t, id |-> r.id, cmd |-> r.cmd]
<1>2. /\ up # <<>> /\ up' = Tail(up) /\ Connected
      /\ UNCHANGED <<pending, nextId, pc>>
  BY DEF Answer, protoVars, taskVars
<1>3. up \in Seq([id : 0..MaxId, cmd : Request, after : Seq0])
  BY DEF TypeOK, WireOK
<1>4. 1 \in DOMAIN up /\ r = up[1]
      /\ \A i \in DOMAIN up' : i + 1 \in DOMAIN up /\ i + 1 # 1 /\ i \in Nat
                               /\ up'[i] = up[i + 1]
  BY <1>2, <1>3, TailAt
<1>5. down \in Seq({down[i] : i \in DOMAIN down} \cup {f})
  BY LenProperties DEF TypeOK, WireOK
<1>6. \A i \in DOMAIN down' :
        \/ i \in DOMAIN down /\ down'[i] = down[i]
        \/ i = Len(down) + 1 /\ i \notin DOMAIN down /\ down'[i] = f
  BY <1>1, <1>5, AppendAt
<1>7. /\ f.id = up[1].id /\ f.cmd = up[1].cmd
      /\ f.id \in DOMAIN pending /\ pending[f.id] = f.cmd
      /\ \A i \in DOMAIN up' : up'[i].id # f.id
      /\ \A i \in DOMAIN down : Reply(down[i]) => down[i].id # f.id
  BY <1>4 DEF RequestIds, ReplyMatchesRequest
<1> HIDE DEF f
<1>8. ReplyMatchesRequest'
  BY <1>2, <1>4, <1>6, <1>7 DEF RequestIds, ReplyMatchesRequest, Reply
<1>9. \A i, j \in DOMAIN down' :
        Reply(down'[i]) /\ Reply(down'[j]) /\ down'[i].id = down'[j].id => i = j
  BY <1>6, <1>7 DEF RequestIds
<1>10. \A i \in DOMAIN up', j \in DOMAIN down' :
         Reply(down'[j]) => up'[i].id # down'[j].id
  BY <1>4, <1>6, <1>7 DEF RequestIds
<1>11. \A i, j \in DOMAIN up' : up'[i].id = up'[j].id => i = j
  BY <1>4 DEF RequestIds
<1>12. \A x \in DOMAIN pending' : x < nextId'
  BY <1>2 DEF RequestIds
<1> QED BY <1>2, <1>8, <1>9, <1>10, <1>11, <1>12 DEF RequestIds, Connected, Reply

(* Every step keeps the ids apart. *)
LEMMA RequestIdsStep ==
  ASSUME TransportAssumption, TypeOK, TypeOK', RequestIds, [Next]_vars
  PROVE  RequestIds'
<1>1. CASE UNCHANGED <<up, down, pending, nextId>> /\ (Connected' \/ ~Connected)
  BY <1>1 DEF RequestIds, ReplyMatchesRequest
<1>2. CASE BadRequest \/ DialFail
  <2>1. up' = <<>> /\ down' = <<>>
    BY <1>2 DEF BadRequest, DialFail, serverVars, RequestIds, Connected
  <2>2. nextId' = nextId /\ (DOMAIN pending' = {} \/ pending' = pending)
    BY <1>2 DEF BadRequest, DialFail, RunReconnect, Exit, NoPending
  <2> QED BY <2>1, <2>2, GoneOK DEF TypeOK, ProtoOK
<1>3. CASE HandleSendFails \/ HandleDisconnect \/ SocketDrop
  <2>1. up' = <<>> /\ down' = <<>>
    BY <1>3 DEF HandleSendFails, HandleDisconnect, SocketDrop, SocketGone
  <2>2. nextId' \in {nextId, nextId + 1}
        /\ (DOMAIN pending' = {} \/ pending' = pending)
    BY <1>3 DEF HandleSendFails, HandleDisconnect, SocketDrop, TakeCommand,
                RunReconnect, Exit, NoPending
  <2>3. nextId' >= nextId
    BY <2>2 DEF TypeOK, ProtoOK
  <2> QED BY <2>1, <2>2, <2>3, GoneOK
<1>4. CASE HandleSend
  BY <1>4, SentOK
<1>5. CASE ReadResponse \/ ReadError \/ ReadUndecodable
  <2>1. \E t, out : /\ t \in {"response", "error"} /\ Reading(t)
                    /\ Settle(Head(down).id, out) /\ UNCHANGED pc
    BY <1>5 DEF ReadResponse, ReadError, ReadUndecodable
  <2> QED BY <2>1, SettledOK
<1>6. CASE ReadDelta \/ ReadStray \/ ReadDurable
  <2>1. \E t : t \in {"delta", "stray", "durable"} /\ Reading(t)
    BY <1>6 DEF ReadDelta, ReadStray, ReadDurable
  <2>2. UNCHANGED pending /\ Connected'
    BY <1>6 DEF ReadDelta, ReadStray, ReadDurable, Reading, EmitDurable, Connected
  <2> QED BY <2>1, <2>2, PassedOverOK
<1>7. CASE Push \/ Noise
  <2>1. Connected /\ UNCHANGED <<up, pending, nextId, pc>>
    BY <1>7 DEF Push, Noise, protoVars, taskVars
  <2>2. \E f : f.t \notin {"response", "error"} /\ down' = Append(down, f)
    BY <1>7 DEF Push, Noise
  <2> QED BY <2>1, <2>2, PushedOK
<1>8. CASE Answer
  BY <1>8, AnsweredOK
<1>9. CASE Client \/ Forward \/ DialOk \/ Wake \/ FinishEmit \/ Produce \/ UNCHANGED vars
  <2>1. UNCHANGED <<up, down, pending, nextId>> /\ (Connected' \/ ~Connected)
    BY <1>9 DEF Client, Post, Ask, Drain, Forward, DialOk, Wake, FinishEmit, Produce,
                vars, protoVars, serverVars, taskVars, Connected
  <2> QED BY <1>1, <2>1
<1> QED BY <1>2, <1>3, <1>4, <1>5, <1>6, <1>7, <1>8, <1>9
        DEF Next, Connecting, Commands, Frames, Server

(* For every number of callers, reconnects and requests in flight: a reply *)
(* on the wire belongs to the pending request its id names, so no oneshot  *)
(* is sent another request's answer (proto.rs 100, 219-239).               *)
THEOREM RepliesMatch == Spec => []ReplyMatchesRequest
<1> USE TransportAssumption
<1>1. Init => RequestIds
  BY DEF Init, RequestIds, ReplyMatchesRequest, Connected
<1>2. TypeOK /\ TypeOK' /\ RequestIds /\ [Next]_vars => RequestIds'
  BY RequestIdsStep
<1>3. RequestIds => ReplyMatchesRequest
  BY DEF RequestIds
<1> QED BY <1>1, <1>2, <1>3, TypeCorrect, PTL DEF Spec

-----------------------------------------------------------------------------
(* Awaited requests. *)

(* The elements of a queue after it has lost its head. *)
LEMMA TailBack ==
  ASSUME NEW S, NEW q \in Seq(S), q # <<>>
  PROVE  \A j \in DOMAIN q : j = 1 \/ (j - 1 \in DOMAIN Tail(q) /\ Tail(q)[j - 1] = q[j])
<1>1. DOMAIN q = 1..Len(q) /\ DOMAIN Tail(q) = 1..Len(q) - 1 /\ Len(q) \in Nat
  BY HeadTailProperties, LenProperties
<1> SUFFICES ASSUME NEW j \in DOMAIN q, j # 1
             PROVE  j - 1 \in DOMAIN Tail(q) /\ Tail(q)[j - 1] = q[j]
  OBVIOUS
<1>2. j - 1 \in DOMAIN Tail(q) /\ (j - 1) + 1 = j
  BY <1>1
<1> QED BY <1>2, TailAt

(* A request leaves the queue, to the pending map or for good. *)
LEMMA SenderLeavesQueue ==
  ASSUME TypeOK, OneSender, cmds # <<>>, cmds' = Tail(cmds), pending' = pending,
         pc' # "done",
         \A c \in Caller : caller'[c] = "waiting" <=>
           caller[c] = "waiting" /\ ~Awaits(Head(cmds), c)
  PROVE  OneSender'
<1>1. 1 \in DOMAIN cmds /\ Head(cmds) = cmds[1]
      /\ \A i \in DOMAIN cmds' : i + 1 \in DOMAIN cmds /\ i + 1 # 1 /\ i \in Nat
                                 /\ cmds'[i] = cmds[i + 1]
  BY TailAt DEF TypeOK, ChannelOK
<1>2. \A j \in DOMAIN cmds : j = 1 \/ (j - 1 \in DOMAIN cmds' /\ cmds'[j - 1] = cmds[j])
  BY TailBack DEF TypeOK, ChannelOK
<1> SUFFICES ASSUME NEW c \in Caller
    PROVE /\ \A i, j \in DOMAIN cmds' : Awaits(cmds'[i], c) /\ Awaits(cmds'[j], c) => i = j
          /\ \A i, j \in DOMAIN pending :
               Awaits(pending[i], c) /\ Awaits(pending[j], c) => i = j
          /\ \A i \in DOMAIN cmds', j \in DOMAIN pending :
               ~(Awaits(cmds'[i], c) /\ Awaits(pending[j], c))
          /\ caller'[c] = "waiting" <=> \/ \E i \in DOMAIN cmds' : Awaits(cmds'[i], c)
                                        \/ \E i \in DOMAIN pending : Awaits(pending[i], c)
  BY DEF OneSender, Awaits
<1>3. /\ \A i, j \in DOMAIN cmds : Awaits(cmds[i], c) /\ Awaits(cmds[j], c) => i = j
      /\ \A i, j \in DOMAIN pending : Awaits(pending[i], c) /\ Awaits(pending[j], c) => i = j
      /\ \A i \in DOMAIN cmds, j \in DOMAIN pending :
           ~(Awaits(cmds[i], c) /\ Awaits(pending[j], c))
      /\ caller[c] = "waiting" <=> \/ \E i \in DOMAIN cmds : Awaits(cmds[i], c)
                                   \/ \E i \in DOMAIN pending : Awaits(pending[i], c)
  BY DEF OneSender
<1>4. \A i, j \in DOMAIN cmds' : Awaits(cmds'[i], c) /\ Awaits(cmds'[j], c) => i = j
  BY <1>1, <1>3
<1>5. \A i \in DOMAIN cmds', j \in DOMAIN pending :
        ~(Awaits(cmds'[i], c) /\ Awaits(pending[j], c))
  BY <1>1, <1>3
<1>6. CASE Awaits(Head(cmds), c)
  <2>1. \A i \in DOMAIN cmds' : ~Awaits(cmds'[i], c)
    BY <1>1, <1>3, <1>6
  <2>2. \A i \in DOMAIN pending : ~Awaits(pending[i], c)
    BY <1>1, <1>3, <1>6
  <2> QED BY <1>4, <1>5, <1>3, <1>6, <2>1, <2>2
<1>7. CASE ~Awaits(Head(cmds), c)
  <2>1. (\E i \in DOMAIN cmds' : Awaits(cmds'[i], c))
          <=> \E i \in DOMAIN cmds : Awaits(cmds[i], c)
    BY <1>1, <1>2, <1>7
  <2> QED BY <1>4, <1>5, <1>3, <1>7, <2>1
<1> QED BY <1>6, <1>7

(* The task ends: nobody waits any more. *)
LEMMA SendersEnd == ASSUME TypeOK, OneSender, Exit PROVE OneSender'
<1>1. cmds' = <<>> /\ DOMAIN cmds' = {} /\ DOMAIN pending' = {}
  BY DEF Exit, NoPending
<1>2. \A c \in Caller : caller[c] = "waiting" => c \in PendingCallers \cup QueuedCallers
  BY DEF OneSender, Awaits, PendingCallers, QueuedCallers
<1>3. \A c \in Caller : caller'[c] # "waiting"
  BY <1>2 DEF Exit, Drop
<1> QED BY <1>1, <1>3 DEF OneSender

(* A reconnect loses at most the sender that went with the socket. *)
LEMMA SendersReconnect ==
  ASSUME TypeOK, OneSender, pc # "done", NEW rest, NEW lost, RunReconnect(rest, lost),
         \/ rest = cmds /\ lost = {}
         \/ /\ cmds # <<>> /\ rest = Tail(cmds)
            /\ lost = {c \in Caller : Awaits(Head(cmds), c)}
  PROVE  OneSender'
<1>1. CASE Exit
  BY <1>1, SendersEnd
<1>2. CASE /\ pc' = "sleep" /\ cmds' = rest /\ caller' = Drop(lost)
           /\ UNCHANGED pending
  <2>1. CASE rest = cmds /\ lost = {}
    <3>1. caller' = caller
      BY <1>2, <2>1 DEF Drop, TypeOK, ClientOK
    <3> QED BY <1>2, <2>1, <3>1 DEF OneSender
  <2>2. CASE /\ cmds # <<>> /\ rest = Tail(cmds)
             /\ lost = {c \in Caller : Awaits(Head(cmds), c)}
    <3>1. \A c \in Caller : caller'[c] = "waiting" <=>
            caller[c] = "waiting" /\ ~Awaits(Head(cmds), c)
      BY <1>2, <2>2 DEF Drop
    <3> QED BY <1>2, <2>2, <3>1, SenderLeavesQueue
  <2> QED BY <2>1, <2>2
<1> QED BY <1>1, <1>2 DEF RunReconnect

(* A request goes on the wire and its sender into the pending map. *)
LEMMA SenderSent ==
  ASSUME TypeOK, RequestIds, OneSender, HandleSend
  PROVE  OneSender'
<1> DEFINE cmd == Head(cmds)
<1>1. /\ cmds # <<>> /\ cmds' = Tail(cmds) /\ pc = "run" /\ UNCHANGED <<pc, caller>>
      /\ pending' = [id \in DOMAIN pending \cup {nextId} |->
                       IF id = nextId THEN cmd ELSE pending[id]]
  BY DEF HandleSend, TakeCommand, FreshId, clientVars, taskVars
<1>2. nextId \notin DOMAIN pending
  <2>1. \A id \in DOMAIN pending : id # nextId
    BY DEF RequestIds, TypeOK, ProtoOK
  <2> QED BY <2>1
<1>3. /\ DOMAIN pending' = DOMAIN pending \cup {nextId} /\ pending'[nextId] = cmd
      /\ \A id \in DOMAIN pending : pending'[id] = pending[id]
  BY <1>1, <1>2
<1>4. 1 \in DOMAIN cmds /\ cmd = cmds[1]
      /\ \A i \in DOMAIN cmds' : i + 1 \in DOMAIN cmds /\ i + 1 # 1 /\ i \in Nat
                                 /\ cmds'[i] = cmds[i + 1]
  BY <1>1, TailAt DEF TypeOK, ChannelOK
<1>5. \A j \in DOMAIN cmds : j = 1 \/ (j - 1 \in DOMAIN cmds' /\ cmds'[j - 1] = cmds[j])
  BY <1>1, TailBack DEF TypeOK, ChannelOK
<1> HIDE DEF cmd
<1> SUFFICES ASSUME NEW c \in Caller
    PROVE /\ \A i, j \in DOMAIN cmds' : Awaits(cmds'[i], c) /\ Awaits(cmds'[j], c) => i = j
          /\ \A i, j \in DOMAIN pending' :
               Awaits(pending'[i], c) /\ Awaits(pending'[j], c) => i = j
          /\ \A i \in DOMAIN cmds', j \in DOMAIN pending' :
               ~(Awaits(cmds'[i], c) /\ Awaits(pending'[j], c))
          /\ caller[c] = "waiting" <=> \/ \E i \in DOMAIN cmds' : Awaits(cmds'[i], c)
                                       \/ \E i \in DOMAIN pending' : Awaits(pending'[i], c)
  BY <1>1 DEF OneSender, Awaits
<1>6. /\ \A i, j \in DOMAIN cmds : Awaits(cmds[i], c) /\ Awaits(cmds[j], c) => i = j
      /\ \A i, j \in DOMAIN pending : Awaits(pending[i], c) /\ Awaits(pending[j], c) => i = j
      /\ \A i \in DOMAIN cmds, j \in DOMAIN pending :
           ~(Awaits(cmds[i], c) /\ Awaits(pending[j], c))
      /\ caller[c] = "waiting" <=> \/ \E i \in DOMAIN cmds : Awaits(cmds[i], c)
                                   \/ \E i \in DOMAIN pending : Awaits(pending[i], c)
  BY DEF OneSender
<1> HIDE DEF Awaits
<1>7. \A i, j \in DOMAIN cmds' : Awaits(cmds'[i], c) /\ Awaits(cmds'[j], c) => i = j
  BY <1>4, <1>6
<1>8. \A i, j \in DOMAIN pending' : Awaits(pending'[i], c) /\ Awaits(pending'[j], c) => i = j
  BY <1>3, <1>4, <1>6
<1>9. \A i \in DOMAIN cmds', j \in DOMAIN pending' :
        ~(Awaits(cmds'[i], c) /\ Awaits(pending'[j], c))
  BY <1>3, <1>4, <1>6
<1>10. ((\E i \in DOMAIN cmds' : Awaits(cmds'[i], c))
          \/ \E i \in DOMAIN pending' : Awaits(pending'[i], c))
       <=> ((\E i \in DOMAIN cmds : Awaits(cmds[i], c))
             \/ \E i \in DOMAIN pending : Awaits(pending[i], c))
  BY <1>3, <1>4, <1>5
<1> QED BY <1>6, <1>7, <1>8, <1>9, <1>10

(* A reply takes its pending entry and tells the caller. *)
LEMMA SenderTold ==
  ASSUME TypeOK, OneSender, UNCHANGED cmds, pc' # "done", NEW id,
         NEW out \in {"answered", "failed"}, Settle(id, out)
  PROVE  OneSender'
<1>1. /\ id \in DOMAIN pending /\ DOMAIN pending' = DOMAIN pending \ {id}
      /\ \A x \in DOMAIN pending \ {id} : pending'[x] = pending[x]
      /\ \A c \in Caller : caller'[c] = IF Awaits(pending[id], c) THEN out ELSE caller[c]
  BY DEF Settle, Without, Awaits
<1>2. \A c \in Caller : caller'[c] = "waiting" <=>
        caller[c] = "waiting" /\ ~Awaits(pending[id], c)
  BY <1>1
<1> QED BY <1>1, <1>2 DEF OneSender

(* A command is queued; a refused request is answered at once. *)
LEMMA SenderQueued ==
  ASSUME TypeOK, OneSender, Post \/ Ask
  PROVE  OneSender'
<1>1. CASE Post
  <2>1. PICK cmd \in Command : Enqueue(cmd) /\ \A c \in Caller : ~Awaits(cmd, c)
    <3>1. \E cmd \in Command : Enqueue(cmd) /\ cmd.op # "ask"
      <4> HIDE DEF Enqueue
      <4>1. \E op \in Ops \ {"ask"} :
              \/ op \in {"turn", "list", "disconnect"} /\ Enqueue([op |-> op])
              \/ op \in {"open", "fresh"} /\ \E s \in Session : Enqueue([op |-> op, s |-> s])
        BY <1>1 DEF Post
      <4>2. \A op \in {"turn", "list", "disconnect"} :
              [op |-> op] \in Command /\ [op |-> op].op # "ask"
        BY DEF Command
      <4>3. \A op \in {"open", "fresh"}, s \in Session :
              [op |-> op, s |-> s] \in Command /\ [op |-> op, s |-> s].op # "ask"
        BY DEF Command
      <4> QED BY <4>1, <4>2, <4>3
    <3> QED BY <3>1 DEF Awaits
  <2>2. UNCHANGED <<pending, pc, caller>>
    BY <1>1 DEF Post, clientVars, protoVars, taskVars
  <2>3. CASE cmds' = cmds
    BY <2>2, <2>3 DEF OneSender
  <2>4. CASE cmds' = Append(cmds, cmd) /\ pc # "done"
    <3>1. \A i \in DOMAIN cmds' : \/ i \in DOMAIN cmds /\ cmds'[i] = cmds[i]
                                  \/ cmds'[i] = cmd
      BY <2>4, AppendAt DEF TypeOK, ChannelOK
    <3>2. \A i \in DOMAIN cmds : i \in DOMAIN cmds' /\ cmds'[i] = cmds[i]
      BY <2>4, AppendProperties, LenProperties DEF TypeOK, ChannelOK
    <3> QED BY <2>1, <2>2, <2>4, <3>1, <3>2 DEF OneSender
  <2> QED BY <2>1, <2>3, <2>4 DEF Enqueue, ChannelOpen
<1>2. CASE Ask
  <2>1. PICK c \in Caller :
          /\ caller[c] = "idle" /\ Enqueue([op |-> "ask", c |-> c])
          /\ caller' = [caller EXCEPT ![c] = IF cmds' = cmds THEN "refused" ELSE "waiting"]
          /\ UNCHANGED <<pending, pc>>
    BY <1>2 DEF Ask, protoVars, taskVars
  <2> DEFINE cmd == [op |-> "ask", c |-> c]
  <2>2. /\ cmd \in Command /\ Awaits(cmd, c)
        /\ \A d \in Caller : Awaits(cmd, d) => d = c
    BY DEF Command, Awaits
  <2>3. /\ \A d \in Caller \ {c} : caller'[d] = caller[d]
        /\ caller'[c] = IF cmds' = cmds THEN "refused" ELSE "waiting"
    BY <2>1 DEF TypeOK, ClientOK
  <2>4. /\ \A i \in DOMAIN cmds : ~Awaits(cmds[i], c)
        /\ \A i \in DOMAIN pending : ~Awaits(pending[i], c)
    BY <2>1 DEF OneSender
  <2> HIDE DEF cmd
  <2>5. CASE cmds' = cmds
    BY <2>1, <2>3, <2>4, <2>5 DEF OneSender
  <2>6. CASE cmds' = Append(cmds, cmd) /\ pc # "done"
    <3>1. \A i \in DOMAIN cmds' : \/ i \in DOMAIN cmds /\ cmds'[i] = cmds[i]
                                  \/ i = Len(cmds) + 1 /\ i \notin DOMAIN cmds /\ cmds'[i] = cmd
      BY <2>2, <2>6, AppendAt DEF TypeOK, ChannelOK
    <3>2. /\ \A i \in DOMAIN cmds : i \in DOMAIN cmds' /\ cmds'[i] = cmds[i]
          /\ Len(cmds) + 1 \in DOMAIN cmds' /\ cmds'[Len(cmds) + 1] = cmd
          /\ cmds' # cmds
      BY <2>2, <2>6, AppendProperties, LenProperties DEF TypeOK, ChannelOK
    <3>3. ASSUME NEW d \in Caller \ {c}
          PROVE  /\ \A i \in DOMAIN cmds' : Awaits(cmds'[i], d) =>
                      i \in DOMAIN cmds /\ Awaits(cmds[i], d)
                 /\ \A i \in DOMAIN cmds : Awaits(cmds[i], d) =>
                      i \in DOMAIN cmds' /\ Awaits(cmds'[i], d)
      BY <2>2, <3>1, <3>2
    <3>4. \A i \in DOMAIN cmds' : Awaits(cmds'[i], c) => i = Len(cmds) + 1
      BY <2>4, <3>1
    <3>5. caller'[c] = "waiting" /\ Awaits(cmds'[Len(cmds) + 1], c)
      BY <2>2, <2>3, <3>2
    <3> QED BY <2>1, <2>3, <2>4, <2>6, <3>2, <3>3, <3>4, <3>5 DEF OneSender
  <2> QED BY <2>1, <2>5, <2>6 DEF Enqueue, ChannelOpen, cmd
<1> QED BY <1>1, <1>2

(* Every step keeps each sender in one place. *)
LEMMA OneSenderStep ==
  ASSUME TypeOK, RequestIds, OneSender, [Next]_vars
  PROVE  OneSender'
<1>1. CASE UNCHANGED <<cmds, pending, caller>> /\ (pc' = "done" => pc = "done")
  BY <1>1 DEF OneSender
<1>2. CASE Post \/ Ask
  BY <1>2, SenderQueued
<1>3. CASE BadRequest \/ HandleDisconnect
  BY <1>3, SendersEnd DEF BadRequest, HandleDisconnect
<1>4. CASE DialFail \/ SocketDrop
  BY <1>4, SendersReconnect DEF DialFail, SocketDrop
<1>5. CASE HandleSendFails
  BY <1>5, SendersReconnect DEF HandleSendFails, TakeCommand, Awaits
<1>6. CASE HandleSend
  BY <1>6, SenderSent
<1>7. CASE ReadResponse \/ ReadError \/ ReadUndecodable
  <2>1. /\ UNCHANGED <<cmds, pc>> /\ pc = "run"
        /\ \E out \in {"answered", "failed"} : Settle(Head(down).id, out)
    BY <1>7 DEF ReadResponse, ReadError, ReadUndecodable, Reading
  <2> QED BY <2>1, SenderTold
<1>8. CASE Drain \/ Forward \/ DialOk \/ Wake \/ ReadDelta \/ ReadStray \/ ReadDurable
           \/ FinishEmit \/ Server \/ UNCHANGED vars
  <2>1. UNCHANGED <<cmds, pending, caller>> /\ (pc' = "done" => pc = "done")
    BY <1>8 DEF Drain, Forward, DialOk, Wake, ReadDelta, ReadStray, ReadDurable, Reading,
                EmitDurable, FinishEmit, Server, Produce, Push, Noise, Answer,
                vars, clientVars, chanVars, protoVars, taskVars
  <2> QED BY <1>1, <2>1
<1> QED BY <1>2, <1>3, <1>4, <1>5, <1>6, <1>7, <1>8
        DEF Next, Client, Connecting, Commands, Frames

(* For every number of callers, channel depth and outage: a oneshot that   *)
(* is awaited has its sender in exactly one place, so that it is answered, *)
(* refused or dropped and never forgotten, and nobody waits for a task     *)
(* that has ended (ws/mod.rs 171-184, octos_ui.rs 767-811).                *)
THEOREM CallersAccounted == Spec => []CallerAccounted
<1> USE TransportAssumption
<1>1. Init => OneSender
  BY DEF Init, OneSender, NoPending
<1>2. TypeOK /\ RequestIds /\ OneSender /\ [Next]_vars => OneSender'
  BY OneSenderStep
<1>3. OneSender => CallerAccounted
  <2> SUFFICES ASSUME OneSender, NEW c \in Caller
               PROVE  /\ pc = "done" => caller[c] # "waiting"
                      /\ Cardinality({i \in DOMAIN cmds : Awaits(cmds[i], c)})
                           + Cardinality({i \in DOMAIN pending : Awaits(pending[i], c)})
                         = IF caller[c] = "waiting" THEN 1 ELSE 0
    BY DEF CallerAccounted, Awaits
  <2> DEFINE Q == {i \in DOMAIN cmds : Awaits(cmds[i], c)}
             P == {i \in DOMAIN pending : Awaits(pending[i], c)}
  <2>1. pc = "done" => caller[c] # "waiting"
    BY DEF OneSender
  <2>2. /\ \A i, j \in Q : i = j
        /\ \A i, j \in P : i = j
        /\ Q = {} \/ P = {}
        /\ caller[c] = "waiting" <=> Q # {} \/ P # {}
    BY DEF OneSender
  <2> HIDE DEF Q, P
  <2>3. \A S : S # {} /\ (\A i, j \in S : i = j) => \E x : S = {x}
    OBVIOUS
  <2>4. \A S : S = {} => Cardinality(S) = 0
    BY FS_EmptySet
  <2>5. \A S : S # {} /\ (\A i, j \in S : i = j) => Cardinality(S) = 1
    BY <2>3, FS_Singleton
  <2>6. Cardinality(Q) + Cardinality(P) = IF caller[c] = "waiting" THEN 1 ELSE 0
    BY <2>2, <2>4, <2>5
  <2> QED BY <2>1, <2>6 DEF Q, P
<1>4. Init => RequestIds
  BY DEF Init, RequestIds, ReplyMatchesRequest, Connected
<1>5. TypeOK /\ TypeOK' /\ RequestIds /\ [Next]_vars => RequestIds'
  BY RequestIdsStep
<1> QED BY <1>1, <1>2, <1>3, <1>4, <1>5, TypeCorrect, PTL DEF Spec
=============================================================================
