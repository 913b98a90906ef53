------------------------- MODULE TransportFeed_proofs -------------------------
(***************************************************************************)
(* What happens to a durable event between the socket and the store: every *)
(* stored cursor is the end of the stream of events on their way, an open  *)
(* replays from its own cursor, and the transport implements EventFeed,    *)
(* for every number of sessions and events and every depth of the channels.*)
(***************************************************************************)
EXTENDS Transport_proofs

-----------------------------------------------------------------------------
(* Queues of numbered elements. *)

(* A queue that gains elements outside D ends where it did. *)
LEMMA EndsQuiet ==
  ASSUME NEW S, NEW q \in Seq(S), NEW r \in Seq(S), NEW D, NEW a, NEW b,
         NoneIn(r, D), Ends(q, D, a, b)
  PROVE  Ends(q \o r, D, a, b)
<1>1. /\ DOMAIN q = 1..Len(q) /\ DOMAIN r = 1..Len(r)
      /\ DOMAIN (q \o r) = 1..(Len(q) + Len(r))
      /\ Len(q) \in Nat /\ Len(r) \in Nat
      /\ \A i \in 1..(Len(q) + Len(r)) :
           (q \o r)[i] = IF i <= Len(q) THEN q[i] ELSE r[i - Len(q)]
  BY ConcatProperties, LenProperties
<1>2. \A i \in DOMAIN (q \o r) : \/ i \in DOMAIN q /\ (q \o r)[i] = q[i]
                                 \/ i \notin DOMAIN q /\ (q \o r)[i] \notin D
  BY <1>1 DEF NoneIn
<1>3. \A i \in DOMAIN q : i \in DOMAIN (q \o r) /\ (q \o r)[i] = q[i]
  BY <1>1
<1> QED BY <1>2, <1>3 DEF Ends, NoneIn, LastIn

(* A queue that gains an element of D ends with it. *)
LEMMA EndsWith ==
  ASSUME NEW S, NEW q \in Seq(S), NEW e \in S, NEW D, NEW a, e \in D
  PROVE  Ends(Append(q, e), D, a, e.n)
<1> DEFINE q2 == Append(q, e)
<1>1. /\ DOMAIN q2 = 1..(Len(q) + 1) /\ Len(q) \in Nat
      /\ q2[Len(q) + 1] = e
  BY AppendProperties, LenProperties
<1>2. LastIn(q2, D, Len(q) + 1)
  BY <1>1 DEF LastIn
<1> QED BY <1>1, <1>2 DEF Ends

(* A queue that loses a head outside D ends where it did. *)
LEMMA EndsSkip ==
  ASSUME NEW S, NEW q \in Seq(S), q # <<>>, NEW D, NEW a, NEW b,
         Head(q) \notin D, Ends(q, D, a, b)
  PROVE  Ends(Tail(q), D, a, b)
<1>1. /\ 1 \in DOMAIN q /\ Head(q) = q[1]
      /\ DOMAIN q = 1..Len(q) /\ DOMAIN Tail(q) = 1..Len(q) - 1 /\ Len(q) \in Nat
      /\ \A i \in DOMAIN Tail(q) : i + 1 \in DOMAIN q /\ Tail(q)[i] = q[i + 1]
      /\ \A j \in DOMAIN q : j = 1 \/ (j - 1 \in DOMAIN Tail(q) /\ Tail(q)[j - 1] = q[j])
  BY TailAt, TailBack, HeadTailProperties, LenProperties
<1>2. CASE NoneIn(q, D) /\ a = b
  BY <1>1, <1>2 DEF Ends, NoneIn
<1>3. ASSUME NEW i \in DOMAIN q, LastIn(q, D, i), q[i].n = b
      PROVE  Ends(Tail(q), D, a, b)
  <2>1. i # 1 /\ i - 1 \in DOMAIN Tail(q) /\ Tail(q)[i - 1] = q[i]
    BY <1>1, <1>3 DEF LastIn
  <2>2. \A j \in DOMAIN Tail(q) : j > i - 1 => Tail(q)[j] \notin D
    BY <1>1, <1>3 DEF LastIn
  <2> QED BY <1>3, <2>1, <2>2 DEF Ends, LastIn
<1> QED BY <1>2, <1>3 DEF Ends

(* A queue that loses a head in D goes on from that head. *)
LEMMA EndsTake ==
  ASSUME NEW S, NEW q \in Seq(S), q # <<>>, NEW D, NEW a, NEW b,
         Head(q) \in D, Ends(q, D, a, b)
  PROVE  Ends(Tail(q), D, Head(q).n, b)
<1>1. /\ 1 \in DOMAIN q /\ Head(q) = q[1]
      /\ DOMAIN q = 1..Len(q) /\ DOMAIN Tail(q) = 1..Len(q) - 1 /\ Len(q) \in Nat
      /\ \A i \in DOMAIN Tail(q) : i + 1 \in DOMAIN q /\ Tail(q)[i] = q[i + 1]
      /\ \A j \in DOMAIN q : j = 1 \/ (j - 1 \in DOMAIN Tail(q) /\ Tail(q)[j - 1] = q[j])
  BY TailAt, TailBack, HeadTailProperties, LenProperties
<1>2. PICK i \in DOMAIN q : LastIn(q, D, i) /\ q[i].n = b
  BY <1>1 DEF Ends, NoneIn
<1>3. CASE i = 1
  <2>1. \A j \in DOMAIN Tail(q) : Tail(q)[j] \notin D
    BY <1>1, <1>2, <1>3 DEF LastIn
  <2> QED BY <1>1, <1>2, <1>3, <2>1 DEF Ends, NoneIn
<1>4. CASE i # 1
  <2>1. i - 1 \in DOMAIN Tail(q) /\ Tail(q)[i - 1] = q[i]
    BY <1>1, <1>4
  <2>2. \A j \in DOMAIN Tail(q) : j > i - 1 => Tail(q)[j] \notin D
    BY <1>1, <1>2 DEF LastIn
  <2> QED BY <1>2, <2>1, <2>2 DEF Ends, LastIn
<1> QED BY <1>3, <1>4

-----------------------------------------------------------------------------
(* The stream of events on their way to the store. *)

(* The stream is a queue of events, and an idle task holds none. *)
LEMMA StreamIsEvents ==
  ASSUME TypeOK
  PROVE  /\ outer \o inner \in Seq(Event)
         /\ pc # "blocked" => held = NoEvent /\ Stream = outer \o inner
         /\ pc = "blocked" => held \in Event /\ Stream = (outer \o inner) \o <<held>>
         /\ Stream \in Seq(Event)
<1>1. outer \o inner \in Seq(Event)
  BY ConcatProperties DEF TypeOK, ChannelOK
<1>2. NoEvent \notin Event
  BY DEF NoEvent, PlainEvent, Event
<1>3. pc # "blocked" => held = NoEvent /\ Stream = outer \o inner
  BY <1>1, ConcatEmptySeq DEF TypeOK, TaskOK, Stream
<1>4. pc = "blocked" => held \in Event /\ Stream = (outer \o inner) \o <<held>>
  BY <1>2 DEF TypeOK, TaskOK, Stream
<1>5. pc = "blocked" => <<held>> \in Seq(Event)
  BY <1>4
<1>6. Stream \in Seq(Event)
  BY <1>1, <1>3, <1>4, <1>5, ConcatProperties
<1> QED BY <1>1, <1>3, <1>4, <1>6

(* A queue and one more element, written both ways. *)
LEMMA AppendOne ==
  ASSUME NEW S, NEW q \in Seq(S), NEW e \in S
  PROVE  Append(q, e) = q \o <<e>> /\ <<e>> \in Seq(S)
         /\ DOMAIN <<e>> = {1} /\ <<e>>[1] = e
<1>1. <<e>> \in Seq(S) /\ Len(<<e>>) = 1 /\ <<e>>[1] = e
  OBVIOUS
<1>2. /\ Append(q, e) \in Seq(S) /\ Len(Append(q, e)) = Len(q) + 1
      /\ \A i \in 1..Len(q) : Append(q, e)[i] = q[i]
      /\ Append(q, e)[Len(q) + 1] = e
      /\ Len(q) \in Nat
  BY AppendProperties, LenProperties
<1>3. /\ q \o <<e>> \in Seq(S) /\ Len(q \o <<e>>) = Len(q) + 1
      /\ \A i \in 1..(Len(q) + 1) :
           (q \o <<e>>)[i] = IF i <= Len(q) THEN q[i] ELSE <<e>>[i - Len(q)]
  BY <1>1, ConcatProperties
<1>4. \A i \in 1..Len(Append(q, e)) : Append(q, e)[i] = (q \o <<e>>)[i]
  BY <1>1, <1>2, <1>3
<1>5. Append(q, e) = q \o <<e>>
  BY <1>2, <1>3, <1>4, SeqEqual
<1>6. DOMAIN <<e>> = {1}
  BY <1>1, LenProperties
<1> QED BY <1>1, <1>5, <1>6

(* Moving the head of one queue to the end of the one before it. *)
LEMMA MoveHead ==
  ASSUME NEW S, NEW p \in Seq(S), NEW q \in Seq(S), q # <<>>
  PROVE  Append(p, Head(q)) \o Tail(q) = p \o q
<1>1. Head(q) \in S /\ Tail(q) \in Seq(S)
  BY HeadTailProperties
<1>2. Append(p, Head(q)) = p \o <<Head(q)>> /\ <<Head(q)>> \in Seq(S)
  BY <1>1, AppendOne
<1>3. q = <<Head(q)>> \o Tail(q)
  <2>1. /\ Len(q) \in Nat \ {0} /\ Head(q) = q[1]
        /\ Len(Tail(q)) = Len(q) - 1
        /\ \A i \in 1..Len(Tail(q)) : Tail(q)[i] = q[i + 1]
    BY HeadTailProperties, EmptySeq, TailAt
  <2>2. Len(<<Head(q)>>) = 1 /\ <<Head(q)>>[1] = q[1]
    BY <2>1
  <2>3. /\ <<Head(q)>> \o Tail(q) \in Seq(S)
        /\ Len(<<Head(q)>> \o Tail(q)) = Len(q)
        /\ \A i \in 1..Len(q) : (<<Head(q)>> \o Tail(q))[i]
             = IF i <= 1 THEN <<Head(q)>>[i] ELSE Tail(q)[i - 1]
    BY <1>1, <1>2, <2>1, <2>2, ConcatProperties
  <2>4. ASSUME NEW i \in 1..Len(q)
        PROVE  (<<Head(q)>> \o Tail(q))[i] = q[i]
    <3>1. CASE i = 1
      BY <2>2, <2>3, <3>1
    <3>2. CASE i # 1
      <4>1. i - 1 \in 1..Len(Tail(q)) /\ (i - 1) + 1 = i /\ ~(i <= 1)
        BY <2>1, <3>2
      <4>2. Tail(q)[i - 1] = q[(i - 1) + 1]
        BY <2>1, <4>1
      <4> QED BY <2>3, <4>1, <4>2
    <3> QED BY <3>1, <3>2
  <2> QED BY <2>3, <2>4, SeqEqual
<1> QED BY <1>1, <1>2, <1>3, ConcatAssociative

(* The head of two queues in a row. *)
LEMMA FrontHead ==
  ASSUME NEW S, NEW p \in Seq(S), NEW q \in Seq(S), p # <<>>
  PROVE  p \o q # <<>> /\ Head(p \o q) = Head(p) /\ Tail(p \o q) = Tail(p) \o q
<1>1. /\ Head(p) \in S /\ Tail(p) \in Seq(S) /\ Len(p) \in Nat \ {0} /\ Len(q) \in Nat
      /\ Len(Tail(p)) = Len(p) - 1 /\ Head(p) = p[1]
      /\ \A i \in 1..Len(Tail(p)) : Tail(p)[i] = p[i + 1]
  BY HeadTailProperties, EmptySeq, TailAt, LenProperties
<1>2. /\ p \o q \in Seq(S) /\ Len(p \o q) = Len(p) + Len(q)
      /\ \A i \in 1..(Len(p) + Len(q)) :
           (p \o q)[i] = IF i <= Len(p) THEN p[i] ELSE q[i - Len(p)]
  BY ConcatProperties
<1>3. p \o q # <<>>
  BY <1>1, <1>2, EmptySeq
<1>4. Head(p \o q) = Head(p)
  <2>1. Head(p \o q) = (p \o q)[1]
    BY <1>2, <1>3, TailAt
  <2> QED BY <1>1, <1>2, <2>1
<1>5. /\ Tail(p \o q) \in Seq(S) /\ Len(Tail(p \o q)) = Len(p) + Len(q) - 1
      /\ \A i \in 1..Len(Tail(p \o q)) : Tail(p \o q)[i] = (p \o q)[i + 1]
  BY <1>2, <1>3, HeadTailProperties
<1>6. /\ Tail(p) \o q \in Seq(S) /\ Len(Tail(p) \o q) = Len(p) - 1 + Len(q)
      /\ \A i \in 1..(Len(p) - 1 + Len(q)) :
           (Tail(p) \o q)[i] = IF i <= Len(p) - 1 THEN Tail(p)[i] ELSE q[i - (Len(p) - 1)]
  BY <1>1, ConcatProperties
<1>7. ASSUME NEW i \in 1..Len(Tail(p \o q))
      PROVE  Tail(p \o q)[i] = (Tail(p) \o q)[i]
  <2>1. i \in 1..(Len(p) + Len(q) - 1) /\ i + 1 \in 1..(Len(p) + Len(q))
    BY <1>1, <1>5
  <2>2. CASE i <= Len(p) - 1
    <3>1. i \in 1..Len(Tail(p)) /\ i + 1 <= Len(p)
      BY <1>1, <2>1, <2>2
    <3> QED BY <1>1, <1>2, <1>5, <1>6, <2>1, <2>2, <3>1
  <2>3. CASE ~(i <= Len(p) - 1)
    <3>1. ~(i + 1 <= Len(p)) /\ (i + 1) - Len(p) = i - (Len(p) - 1)
          /\ i \in 1..(Len(p) - 1 + Len(q))
      BY <1>1, <2>1, <2>3
    <3>2. (p \o q)[i + 1] = q[(i + 1) - Len(p)]
      BY <1>2, <2>1, <3>1
    <3>3. (Tail(p) \o q)[i] = q[i - (Len(p) - 1)]
      BY <1>6, <2>3, <3>1
    <3> QED BY <1>5, <3>1, <3>2, <3>3
  <2> QED BY <2>2, <2>3
<1>8. Tail(p \o q) = Tail(p) \o q
  <2>1. Len(Tail(p \o q)) = Len(Tail(p) \o q)
    BY <1>1, <1>5, <1>6
  <2> QED BY <1>5, <1>6, <1>7, <2>1, SeqEqual
<1> QED BY <1>3, <1>4, <1>8

(* The forwarder moves an event and the stream is the same. *)
LEMMA ForwardKeepsStream == ASSUME TypeOK, Forward PROVE Stream' = Stream
<1>1. inner # <<>> /\ outer' = Append(outer, Head(inner)) /\ inner' = Tail(inner)
      /\ held' = held
  BY DEF Forward, taskVars
<1>2. outer' \o inner' = outer \o inner
  BY <1>1, MoveHead DEF TypeOK, ChannelOK
<1> QED BY <1>1, <1>2 DEF Stream

(* So does a blocked task that gets rid of the event it held. *)
LEMMA FinishKeepsStream == ASSUME TypeOK, FinishEmit PROVE Stream' = Stream
<1>1. /\ pc = "blocked" /\ inner' = Append(inner, held) /\ pc' = "run" /\ outer' = outer
      /\ inner \in Seq(Event) /\ outer \in Seq(Event)
  BY DEF FinishEmit, TypeOK, ChannelOK
<1>2. held \in Event /\ Stream = (outer \o inner) \o <<held>>
  BY <1>1, StreamIsEvents
<1>3. inner' = inner \o <<held>> /\ <<held>> \in Seq(Event)
  BY <1>1, <1>2, AppendOne
<1>4. outer \o inner' \in Seq(Event)
  BY <1>1, <1>2, <1>3, ConcatProperties
<1>5. Stream' = outer \o inner'
  BY <1>1, <1>4, ConcatEmptySeq DEF Stream, FinishEmit
<1>6. outer \o (inner \o <<held>>) = (outer \o inner) \o <<held>>
  BY <1>1, <1>3, ConcatAssociative
<1> QED BY <1>2, <1>3, <1>5, <1>6

(* try_emit adds the events that fit. *)
LEMMA TryEmitExtends ==
  ASSUME TransportAssumption, TypeOK, pc # "blocked", UNCHANGED <<outer, held>>,
         NEW evts \in Seq(Event), \A i \in DOMAIN evts : evts[i].kind # "durable",
         TryEmit(evts)
  PROVE  \E r \in Seq(Event) : /\ Stream' = Stream \o r
                               /\ \A i \in DOMAIN r : r[i].kind # "durable"
<1> DEFINE room == Least(Len(evts), ChannelBuffer - Len(inner))
           r == SubSeq(evts, 1, room)
<1>1. /\ DOMAIN evts = 1..Len(evts) /\ Len(evts) \in Nat /\ Len(inner) \in Nat
      /\ Len(inner) <= ChannelBuffer /\ ChannelBuffer \in Nat
  BY LenProperties DEF TypeOK, ChannelOK, TransportAssumption
<1>2. room \in Nat /\ room <= Len(evts)
  BY <1>1 DEF Least
<1> HIDE DEF room
<1>3. \A i \in 1..room : i \in DOMAIN evts /\ evts[i] \in Event
  BY <1>1, <1>2, ElementOfSeq
<1>4. /\ r \in Seq(Event) /\ Len(r) = IF 1 <= room THEN room - 1 + 1 ELSE 0
      /\ \A i \in 1..(room - 1 + 1) : r[i] = evts[1 + i - 1]
  BY <1>2, <1>3, SubSeqProperties
<1>5. \A i \in DOMAIN r : r[i].kind # "durable"
  <2>1. DOMAIN r = 1..Len(r) /\ Len(r) = room
    BY <1>2, <1>4, LenProperties
  <2>2. \A i \in 1..room : r[i] = evts[i]
    BY <1>2, <1>4
  <2> QED BY <1>3, <2>1, <2>2
<1>6. inner' = inner \o r
  BY DEF TryEmit, room
<1>7. held = NoEvent /\ Stream = outer \o inner
  BY StreamIsEvents
<1> HIDE DEF r
<1>8. outer \o (inner \o r) = (outer \o inner) \o r
  <2>1. outer \in Seq(Event) /\ inner \in Seq(Event) /\ r \in Seq(Event)
    BY <1>4 DEF TypeOK, ChannelOK
  <2> QED BY <2>1, ConcatAssociative
<1>9. (outer \o inner) \o r \in Seq(Event)
  BY <1>4, StreamIsEvents, ConcatProperties
<1>10. Stream' = (outer \o inner) \o r
  BY <1>6, <1>7, <1>8, <1>9, ConcatEmptySeq DEF Stream
<1> QED BY <1>4, <1>5, <1>7, <1>10

(* What a step may do to the stream: gain events that are not durable, pass *)
(* its head to the store, or gain the durable event that was just read.    *)
Gains == /\ UNCHANGED <<cursors, applied>>
         /\ \E r \in Seq(Event) : /\ Stream' = Stream \o r
                                  /\ \A i \in DOMAIN r : r[i].kind # "durable"
Passes == /\ UNCHANGED cursors
          /\ Stream # <<>> /\ Stream' = Tail(Stream)
          /\ applied' = IF Head(Stream).kind = "durable"
                        THEN [applied EXCEPT ![Head(Stream).s] = Head(Stream).n]
                        ELSE applied
Reads == /\ UNCHANGED applied
         /\ pc = "run" /\ down # <<>> /\ down' = Tail(down) /\ Head(down).t = "durable"
         /\ cursors' = [cursors EXCEPT ![Head(down).s] = Head(down).n]
         /\ Stream' = Append(Stream, DurableEvent(Head(down).s, Head(down).n))

(* Steps that emit nothing of their own leave the stream alone. *)
LEMMA SameStreamGains ==
  ASSUME TypeOK, UNCHANGED <<cursors, applied>>, Stream' = Stream
  PROVE  Gains
<1>1. Stream' = Stream \o <<>> /\ <<>> \in Seq(Event) /\ DOMAIN <<>> = {}
  BY StreamIsEvents, ConcatEmptySeq, EmptySeq
<1> QED BY <1>1 DEF Gains

(* An announcement adds its state event or nothing. *)
LEMMA AnnounceGains ==
  ASSUME TransportAssumption, TypeOK, pc # "blocked", NEW v \in ConnectionState,
         Announce(v), UNCHANGED <<outer, held, cursors, applied>>
  PROVE  Gains
<1>1. <<StateEvent(v)>> \in Seq(Event) /\ DOMAIN <<StateEvent(v)>> = {1}
      /\ <<StateEvent(v)>>[1].kind # "durable"
  BY EventsOK, AppendOne DEF StateEvent
<1> QED BY <1>1, TryEmitExtends DEF Announce, Gains

(* A reconnect announces and nothing else. *)
LEMMA ReconnectGains ==
  ASSUME TransportAssumption, TypeOK, pc # "blocked", NEW rest, NEW lost,
         RunReconnect(rest, lost)
  PROVE  Gains
<1>1. /\ UNCHANGED <<outer, held, cursors, applied>>
      /\ Announce("Failed") \/ Announce("Reconnecting")
  BY DEF RunReconnect
<1>2. "Failed" \in ConnectionState /\ "Reconnecting" \in ConnectionState
  BY DEF ConnectionState
<1> QED BY <1>1, <1>2, AnnounceGains

(* No result of a request is a durable event. *)
LEMMA ResultsAreNotDurable ==
  ASSUME NEW cmd \in Request
  PROVE  /\ ResultEvents(cmd) \in Seq(Event)
         /\ \A i \in DOMAIN ResultEvents(cmd) : ResultEvents(cmd)[i].kind # "durable"
<1> DEFINE E == {PlainEvent("caps"), PlainEvent("opened"), PlainEvent("result"),
                 PlainEvent("listed"), StateEvent("Live")}
<1>1. E \subseteq Event /\ \A e \in E : e.kind # "durable"
  BY EventsOK DEF ConnectionState, PlainEvent, StateEvent
<1>2. ResultEvents(cmd) \in Seq(E)
  <2>1. /\ <<>> \in Seq(E) /\ <<PlainEvent("result")>> \in Seq(E)
        /\ <<PlainEvent("listed")>> \in Seq(E) /\ <<StateEvent("Live")>> \in Seq(E)
        /\ <<PlainEvent("caps"), PlainEvent("opened")>> \in Seq(E)
    OBVIOUS
  <2>2. /\ <<PlainEvent("caps"), PlainEvent("opened")>> \o <<>> \in Seq(E)
        /\ <<PlainEvent("caps"), PlainEvent("opened")>> \o <<StateEvent("Live")>> \in Seq(E)
    BY <2>1, ConcatProperties
  <2>3. cmd.op \in {"open", "fresh", "turn", "list", "ask"}
    BY DEF Request, Command
  <2> HIDE DEF E
  <2> QED BY <2>1, <2>2, <2>3 DEF ResultEvents, Opens
<1> HIDE DEF E
<1> QED BY <1>1, <1>2, SeqMonotonic, ElementOfSeq, LenProperties

(* The stream, step by step. *)
LEMMA StreamStep ==
  ASSUME TransportAssumption, TypeOK, [Next]_vars
  PROVE  Gains \/ Passes \/ Reads
<1>1. CASE Post \/ Ask \/ HandleSend \/ HandleDisconnect \/ ReadUndecodable \/ ReadStray
           \/ Server \/ UNCHANGED vars
  <2>1. UNCHANGED <<outer, inner, held, cursors, applied>>
    BY <1>1 DEF Post, Ask, HandleSend, HandleDisconnect, ReadUndecodable, ReadStray,
                Reading, Settle, Server, Produce, Push, Noise, Answer,
                vars, clientVars, chanVars, protoVars, taskVars
  <2>2. Stream' = Stream
    BY <2>1 DEF Stream
  <2> QED BY <2>1, <2>2, SameStreamGains
<1>2. CASE Forward
  <2>1. UNCHANGED <<cursors, applied>>
    BY <1>2 DEF Forward, clientVars, protoVars
  <2> QED BY <1>2, <2>1, ForwardKeepsStream, SameStreamGains
<1>3. CASE FinishEmit
  <2>1. UNCHANGED <<cursors, applied>>
    BY <1>3 DEF FinishEmit, clientVars, protoVars
  <2> QED BY <1>3, <2>1, FinishKeepsStream, SameStreamGains
<1>4. CASE BadRequest \/ DialOk \/ Wake
  <2>1. /\ UNCHANGED <<outer, held, cursors, applied>> /\ pc # "blocked"
        /\ Announce("Failed") \/ Announce("Handshaking") \/ Announce("Dialing")
    BY <1>4 DEF BadRequest, DialOk, Wake, clientVars, protoVars
  <2>2. {"Failed", "Handshaking", "Dialing"} \subseteq ConnectionState
    BY DEF ConnectionState
  <2> QED BY <2>1, <2>2, AnnounceGains
<1>5. CASE DialFail \/ HandleSendFails \/ SocketDrop
  <2>1. pc # "blocked" /\ \E rest, lost : RunReconnect(rest, lost)
    BY <1>5 DEF DialFail, HandleSendFails, SocketDrop, TakeCommand
  <2> QED BY <2>1, ReconnectGains
<1>6. CASE ReadResponse
  <2> DEFINE evts == ResultEvents(pending[Head(down).id])
  <2>1. /\ UNCHANGED <<outer, held, cursors, applied>> /\ pc # "blocked"
        /\ TryEmit(evts) /\ pending[Head(down).id] \in Request
    <3>1. UNCHANGED <<outer, held, cursors>> /\ pc # "blocked" /\ TryEmit(evts)
          /\ Head(down).id \in DOMAIN pending
      BY <1>6 DEF ReadResponse, Reading, Settle
    <3>2. UNCHANGED applied
      BY <1>6 DEF ReadResponse, Reading
    <3> QED BY <3>1, <3>2 DEF TypeOK, ProtoOK
  <2>2. evts \in Seq(Event) /\ \A i \in DOMAIN evts : evts[i].kind # "durable"
    BY <2>1, ResultsAreNotDurable
  <2> HIDE DEF evts
  <2> QED BY <2>1, <2>2, TryEmitExtends DEF Gains
<1>7. CASE ReadError \/ ReadDelta
  <2>1. /\ UNCHANGED <<outer, held, cursors, applied>> /\ pc # "blocked"
        /\ TryEmit(<<PlainEvent("rpcError")>>) \/ TryEmit(<<PlainEvent("delta")>>)
    BY <1>7 DEF ReadError, ReadDelta, Reading, Settle
  <2>2. ASSUME NEW k \in {"rpcError", "delta"}
        PROVE  /\ <<PlainEvent(k)>> \in Seq(Event) /\ DOMAIN <<PlainEvent(k)>> = {1}
               /\ <<PlainEvent(k)>>[1].kind # "durable"
    BY EventsOK, AppendOne DEF PlainEvent
  <2> QED BY <2>1, <2>2, TryEmitExtends DEF Gains
<1>8. CASE Drain
  <2>1. /\ outer # <<>> /\ outer' = Tail(outer) /\ UNCHANGED <<inner, held, cursors>>
        /\ applied' = IF Head(outer).kind = "durable"
                      THEN [applied EXCEPT ![Head(outer).s] = Head(outer).n]
                      ELSE applied
    BY <1>8 DEF Drain, protoVars, taskVars
  <2> DEFINE rest == IF held = NoEvent THEN <<>> ELSE <<held>>
  <2>2. rest \in Seq(Event) /\ inner \in Seq(Event) /\ outer \in Seq(Event)
        /\ Tail(outer) \in Seq(Event)
    BY <2>1, QueueTail DEF TypeOK, ChannelOK, TaskOK
  <2>3. Stream = (outer \o inner) \o rest /\ Stream' = (Tail(outer) \o inner) \o rest
    BY <2>1 DEF Stream
  <2> HIDE DEF rest
  <2>4. inner \o rest \in Seq(Event)
    BY <2>2, ConcatProperties
  <2>5. /\ (outer \o inner) \o rest = outer \o (inner \o rest)
        /\ (Tail(outer) \o inner) \o rest = Tail(outer) \o (inner \o rest)
    <3>1. (outer \o inner) \o rest = outer \o (inner \o rest)
      BY <2>2, ConcatAssociative
    <3>2. (Tail(outer) \o inner) \o rest = Tail(outer) \o (inner \o rest)
      BY <2>2, ConcatAssociative
    <3> QED BY <3>1, <3>2
  <2>6. /\ outer \o (inner \o rest) # <<>>
        /\ Head(outer \o (inner \o rest)) = Head(outer)
        /\ Tail(outer \o (inner \o rest)) = Tail(outer) \o (inner \o rest)
    <3> DEFINE behind == inner \o rest
    <3>1. behind \in Seq(Event) /\ outer \in Seq(Event) /\ outer # <<>>
      BY <2>1, <2>2, <2>4
    <3> HIDE DEF behind
    <3>2. /\ outer \o behind # <<>> /\ Head(outer \o behind) = Head(outer)
          /\ Tail(outer \o behind) = Tail(outer) \o behind
      BY <3>1, FrontHead
    <3> QED BY <3>2 DEF behind
  <2> QED BY <2>1, <2>3, <2>5, <2>6 DEF Passes
<1>9. CASE ReadDurable
  <2> DEFINE e == DurableEvent(Head(down).s, Head(down).n)
  <2>1. /\ UNCHANGED <<applied, outer>> /\ pc = "run" /\ down # <<>> /\ down' = Tail(down)
        /\ Head(down).t = "durable" /\ EmitDurable(e)
        /\ cursors' = [cursors EXCEPT ![Head(down).s] = Head(down).n]
    BY <1>9 DEF ReadDurable, Reading
  <2>2. Head(down) \in Frame
    BY <2>1, QueueTail DEF TypeOK, WireOK
  <2>3. e \in Event
    BY <2>1, <2>2, FieldsOK, EventsOK
  <2>4. e # NoEvent
    BY DEF NoEvent, PlainEvent, DurableEvent
  <2> HIDE DEF e
  <2>5. held = NoEvent /\ Stream = outer \o inner /\ outer \o inner \in Seq(Event)
    BY <2>1, StreamIsEvents
  <2>6. Append(outer \o inner, e) = (outer \o inner) \o <<e>> /\ <<e>> \in Seq(Event)
    BY <2>3, <2>5, AppendOne
  <2>7. CASE inner' = Append(inner, e) /\ UNCHANGED held
    <3>1. inner' = inner \o <<e>> /\ inner \in Seq(Event) /\ outer \in Seq(Event)
      BY <2>3, <2>7, AppendOne DEF TypeOK, ChannelOK
    <3>2. outer \o (inner \o <<e>>) = (outer \o inner) \o <<e>>
      BY <2>6, <3>1, ConcatAssociative
    <3>3. (outer \o inner) \o <<e>> \in Seq(Event)
      BY <2>5, <2>6, ConcatProperties
    <3>4. Stream' = ((outer \o inner) \o <<e>>) \o <<>>
      BY <2>1, <2>5, <2>7, <3>1, <3>2 DEF Stream
    <3>5. Stream' = Append(Stream, e)
      BY <2>5, <2>6, <3>3, <3>4, ConcatEmptySeq
    <3> QED BY <2>1, <3>5 DEF Reads, e
  <2>8. CASE held' = e /\ UNCHANGED inner
    <3>1. Stream' = Append(Stream, e)
      BY <2>1, <2>4, <2>5, <2>6, <2>8 DEF Stream
    <3> QED BY <2>1, <3>1 DEF Reads, e
  <2> QED BY <2>1, <2>7, <2>8 DEF EmitDurable
<1> QED BY <1>1, <1>2, <1>3, <1>4, <1>5, <1>6, <1>7, <1>8, <1>9
        DEF Next, Client, Connecting, Commands, Frames

-----------------------------------------------------------------------------
(* Cursors. *)

(* The events of a session. *)
LEMMA EventOfSession ==
  ASSUME TransportAssumption, NEW s \in Session
  PROVE  /\ \A e \in Event : e \in EventsOf(s) <=> e.kind = "durable" /\ e.s = s
         /\ \A f \in Frame : f \in FramesOf(s) <=> f.t = "durable" /\ f.s = s
         /\ \A e \in EventsOf(s) : e.n \in Nat \ {0}
         /\ \A f \in FramesOf(s) : f.n \in Nat \ {0}
<1>1. \A e \in EventsOf(s) : e.kind = "durable" /\ e.s = s /\ e.n \in 1..MaxLedger
  BY DEF EventsOf
<1>2. \A f \in FramesOf(s) : f.t = "durable" /\ f.s = s /\ f.n \in 1..MaxLedger
  BY DEF FramesOf
<1>3. ASSUME NEW e \in Event, e.kind = "durable", e.s = s PROVE e \in EventsOf(s)
  BY <1>3 DEF Event, EventsOf
<1>4. ASSUME NEW f \in Frame, f.t = "durable", f.s = s PROVE f \in FramesOf(s)
  BY <1>4 DEF Frame, FramesOf
<1> QED BY <1>1, <1>2, <1>3, <1>4 DEF TransportAssumption

(* The cursor is the end of the stream after every step. *)
LEMMA StreamEndsStep ==
  ASSUME TransportAssumption, TypeOK, StreamEnds, [Next]_vars
  PROVE  StreamEnds'
<1> SUFFICES ASSUME NEW s \in Session
             PROVE  Ends(Stream', EventsOf(s), applied'[s], cursors'[s])
  BY DEF StreamEnds, EventsOf
<1> DEFINE D == EventsOf(s)
<1>1. Ends(Stream, D, applied[s], cursors[s])
  BY DEF StreamEnds
<1>2. Stream \in Seq(Event) /\ \A e \in Event : e \in D <=> e.kind = "durable" /\ e.s = s
  BY StreamIsEvents, EventOfSession
<1>3. applied \in [Session -> Seq0] /\ cursors \in [Session -> Seq0]
  BY DEF TypeOK, ClientOK, ProtoOK
<1> HIDE DEF D
<1>4. CASE Gains
  <2>1. PICK r \in Seq(Event) : /\ Stream' = Stream \o r
                                /\ \A i \in DOMAIN r : r[i].kind # "durable"
    BY <1>4 DEF Gains
  <2>2. NoneIn(r, D)
    BY <1>2, <2>1, ElementOfSeq, LenProperties DEF NoneIn
  <2>3. Ends(Stream \o r, D, applied[s], cursors[s])
    BY <1>1, <1>2, <2>2, EndsQuiet
  <2> QED BY <1>4, <2>1, <2>3 DEF Gains, D
<1>5. CASE Passes
  <2>1. Stream # <<>> /\ Stream' = Tail(Stream) /\ cursors' = cursors /\ Head(Stream) \in Event
    BY <1>2, <1>5, HeadTailProperties DEF Passes
  <2>2. CASE Head(Stream) \in D
    <3>1. applied'[s] = Head(Stream).n
      BY <1>2, <1>3, <1>5, <2>1, <2>2 DEF Passes
    <3> QED BY <1>1, <1>2, <2>1, <2>2, <3>1, EndsTake DEF D
  <2>3. CASE Head(Stream) \notin D
    <3>1. applied'[s] = applied[s]
      BY <1>2, <1>3, <1>5, <2>1, <2>3 DEF Passes
    <3> QED BY <1>1, <1>2, <2>1, <2>3, <3>1, EndsSkip DEF D
  <2> QED BY <2>2, <2>3
<1>6. CASE Reads
  <2> DEFINE e == DurableEvent(Head(down).s, Head(down).n)
  <2>1. /\ Head(down) \in Frame /\ Head(down).t = "durable" /\ applied' = applied
        /\ cursors' = [cursors EXCEPT ![Head(down).s] = Head(down).n]
        /\ Stream' = Append(Stream, e)
    BY <1>6, QueueTail DEF Reads, TypeOK, WireOK
  <2>2. e \in Event /\ e.kind = "durable" /\ e.s = Head(down).s /\ e.n = Head(down).n
    BY <2>1, FieldsOK, EventsOK DEF DurableEvent
  <2> HIDE DEF e
  <2>3. CASE e \in D
    <3>1. cursors'[s] = e.n
      BY <1>2, <1>3, <2>1, <2>2, <2>3
    <3> QED BY <1>2, <2>1, <2>2, <2>3, <3>1, EndsWith DEF D
  <2>4. CASE e \notin D
    <3>1. cursors'[s] = cursors[s]
      BY <1>2, <1>3, <2>1, <2>2, <2>4
    <3>2. Append(Stream, e) = Stream \o <<e>> /\ <<e>> \in Seq(Event) /\ NoneIn(<<e>>, D)
      BY <1>2, <2>2, <2>4, AppendOne DEF NoneIn
    <3>3. Ends(Stream \o <<e>>, D, applied[s], cursors[s])
      BY <1>1, <1>2, <3>2, EndsQuiet
    <3> QED BY <2>1, <3>1, <3>2, <3>3 DEF D
  <2> QED BY <2>3, <2>4
<1> QED BY <1>4, <1>5, <1>6, StreamStep

(* The task starts with two announcements. *)
LEMMA InitialStream ==
  ASSUME TransportAssumption, Init, NEW s \in Session
  PROVE  Stream \in Seq(Event) /\ NoneIn(Stream, EventsOf(s)) /\ applied[s] = cursors[s]
<1> DEFINE q == <<StateEvent("Idle"), StateEvent("Dialing")>>
           two == Least(2, ChannelBuffer)
           Other == Event \ EventsOf(s)
<1>1. two \in {1, 2} /\ inner = SubSeq(q, 1, two) /\ outer = <<>> /\ held = NoEvent
      /\ applied[s] = cursors[s]
  BY DEF Init, Least, TransportAssumption
<1>2. StateEvent("Idle") \in Other /\ StateEvent("Dialing") \in Other
  BY EventsOK, EventOfSession DEF ConnectionState, StateEvent
<1>3. \A i \in 1..two : q[i] \in Other
  BY <1>1, <1>2
<1> HIDE DEF q, Other
<1>4. inner \in Seq(Other)
  BY <1>1, <1>3, SubSeqProperties
<1>5. Stream = inner
  BY <1>1, <1>4, ConcatEmptySeq DEF Stream
<1>6. inner \in Seq(Event)
  BY <1>4, SeqMonotonic DEF Other
<1> QED BY <1>1, <1>4, <1>5, <1>6, ElementOfSeq, LenProperties DEF NoneIn, Other

(* For every number of sessions and events and every channel depth: a      *)
(* stored cursor is the last event of its session on the way to the store, *)
(* or the last one folded when none is on the way, so that a durable event *)
(* is neither lost nor overtaken between the cursor and the UI             *)
(* (proto.rs 376-386, ws/mod.rs 62-75).                                    *)
THEOREM CursorsTrackStream == Spec => []CursorTracksStream
<1> USE TransportAssumption
<1>1. Init => StreamEnds
  BY InitialStream DEF StreamEnds, Ends
<1>2. TypeOK /\ StreamEnds /\ [Next]_vars => StreamEnds'
  BY StreamEndsStep
<1>3. TypeOK /\ StreamEnds => CursorTracksStream
  <2> SUFFICES ASSUME TypeOK, StreamEnds, NEW s \in Session
               PROVE  IF \E i \in DOMAIN Stream : LastOf(s, i)
                      THEN \A i \in DOMAIN Stream : LastOf(s, i) => Stream[i].n = cursors[s]
                      ELSE cursors[s] = applied[s]
    BY DEF CursorTracksStream
  <2>1. /\ DOMAIN Stream = 1..Len(Stream) /\ Len(Stream) \in Nat
        /\ \A i \in DOMAIN Stream :
             Stream[i] \in EventsOf(s) <=> Stream[i].kind = "durable" /\ Stream[i].s = s
    BY StreamIsEvents, EventOfSession, ElementOfSeq, LenProperties
  <2>2. \A i \in DOMAIN Stream : LastOf(s, i) <=> LastIn(Stream, EventsOf(s), i)
    BY <2>1 DEF LastOf, LastIn
  <2>3. \A i, j \in DOMAIN Stream :
          LastIn(Stream, EventsOf(s), i) /\ LastIn(Stream, EventsOf(s), j) => i = j
    BY <2>1 DEF LastIn
  <2>4. Ends(Stream, EventsOf(s), applied[s], cursors[s])
    BY DEF StreamEnds
  <2> QED BY <2>2, <2>3, <2>4 DEF Ends, NoneIn, LastIn
<1> QED BY <1>1, <1>2, <1>3, TypeCorrect, PTL DEF Spec

-----------------------------------------------------------------------------
(* Opens on their way. *)

(* What a step may do to the commands, the wire and the server. *)
Rests == UNCHANGED <<cmds, up, down, pos, cursors, ledger, pendingInitial>>
Posts == /\ UNCHANGED <<up, down, pos, cursors, ledger, pendingInitial>>
         /\ \E cmd \in Command :
              /\ cmds' = Append(cmds, cmd) /\ cmd.op \in Ops
              /\ \A s \in Session : cmd = Open(s) => Closed(s)
Leaves == /\ UNCHANGED <<cursors, ledger>> /\ pendingInitial' \in {0, pendingInitial}
          /\ cmds' \in {<<>>, cmds} \/ (cmds # <<>> /\ cmds' = Tail(cmds))
          /\ UNCHANGED <<up, down, pos>> \/ SocketGone
Skips == /\ UNCHANGED <<cmds, up, pos, cursors, ledger, pendingInitial>>
         /\ down # <<>> /\ down' = Tail(down) /\ Head(down).t # "durable"

(* A command that is an open is the open of its session. *)
LEMMA OpenCommands ==
  /\ \A cmd \in Command : cmd.op = "open" => cmd.s \in Session /\ cmd = Open(cmd.s)
  /\ \A s : Open(s).op = "open" /\ Open(s).s = s
BY DEF Command, Open

(* The ways out of run_live and of a dial leave what the socket left. *)
LEMMA ReconnectLeaves ==
  ASSUME NEW rest, NEW lost, RunReconnect(rest, lost)
  PROVE  cmds' \in {<<>>, rest} /\ UNCHANGED cursors
BY DEF RunReconnect, Exit

(* The commands, the wire and the server, step by step. *)
LEMMA WireStep ==
  ASSUME TypeOK, [Next]_vars
  PROVE  Rests \/ Posts \/ HandleSend \/ Leaves \/ Skips \/ ReadDurable
           \/ Produce \/ Push \/ Noise \/ Answer
<1>1. CASE Post
  <2>1. UNCHANGED <<up, down, pos, cursors, ledger, pendingInitial>>
    BY <1>1 DEF Post, protoVars, serverVars
  <2>2. \E cmd \in Command : /\ Enqueue(cmd) /\ cmd.op \in Ops
                             /\ \A s \in Session : cmd = Open(s) => Closed(s)
    <3> HIDE DEF Enqueue, Closed
    <3>1. PICK op \in Ops \ {"ask"} :
            \/ op \in {"turn", "list", "disconnect"} /\ Enqueue([op |-> op])
            \/ op = "open" /\ \E s \in Session : Closed(s) /\ Enqueue([op |-> op, s |-> s])
            \/ op = "fresh" /\ \E s \in Session : Enqueue([op |-> op, s |-> s])
      BY <1>1 DEF Post
    <3>2. CASE op \in {"turn", "list", "disconnect"} /\ Enqueue([op |-> op])
      <4>1. [op |-> op] \in Command /\ [op |-> op].op = op
        BY <3>2 DEF Command
      <4>2. \A s \in Session : [op |-> op] # Open(s)
        BY <3>2, <4>1, OpenCommands
      <4> QED BY <3>1, <3>2, <4>1, <4>2
    <3>3. ASSUME op \in {"open", "fresh"}, NEW s \in Session, Enqueue([op |-> op, s |-> s]),
                 op = "open" => Closed(s)
          PROVE  \E cmd \in Command : /\ Enqueue(cmd) /\ cmd.op \in Ops
                                      /\ \A x \in Session : cmd = Open(x) => Closed(x)
      <4>1. [op |-> op, s |-> s] \in Command
        BY <3>3 DEF Command
      <4>2. \A x \in Session : [op |-> op, s |-> s] = Open(x) => op = "open" /\ x = s
        BY OpenCommands
      <4> QED BY <3>1, <3>3, <4>1, <4>2
    <3> QED BY <3>1, <3>2, <3>3
  <2> QED BY <2>1, <2>2 DEF Enqueue, Posts, Rests
<1>2. CASE Ask
  <2>1. PICK c \in Caller : Enqueue([op |-> "ask", c |-> c])
    BY <1>2 DEF Ask
  <2>2. [op |-> "ask", c |-> c] \in Command /\ [op |-> "ask", c |-> c].op = "ask"
    BY DEF Command
  <2>3. \A s \in Session : [op |-> "ask", c |-> c] # Open(s)
    BY <2>2, OpenCommands
  <2>4. UNCHANGED <<up, down, pos, cursors, ledger, pendingInitial>> /\ "ask" \in Ops
    BY <1>2 DEF Ask, protoVars, serverVars
  <2> QED BY <2>1, <2>2, <2>3, <2>4 DEF Enqueue, Posts, Rests
<1>3. CASE Drain \/ Forward \/ DialOk \/ Wake \/ FinishEmit \/ UNCHANGED vars
  BY <1>3 DEF Drain, Forward, DialOk, Wake, FinishEmit, Rests,
              vars, clientVars, chanVars, protoVars, taskVars, serverVars
<1>4. CASE BadRequest \/ DialFail
  BY <1>4, ReconnectLeaves DEF BadRequest, DialFail, Exit, Leaves, serverVars
<1>5. CASE HandleSendFails
  BY <1>5, ReconnectLeaves DEF HandleSendFails, TakeCommand, SocketGone, Leaves
<1>6. CASE HandleDisconnect
  BY <1>6 DEF HandleDisconnect, Exit, TakeCommand, SocketGone, Leaves
<1>7. CASE SocketDrop
  BY <1>7, ReconnectLeaves DEF SocketDrop, SocketGone, Leaves
<1>8. CASE ReadResponse \/ ReadError \/ ReadUndecodable \/ ReadDelta \/ ReadStray
  BY <1>8 DEF ReadResponse, ReadError, ReadUndecodable, ReadDelta, ReadStray, Reading, Skips
<1> QED BY <1>1, <1>2, <1>3, <1>4, <1>5, <1>6, <1>7, <1>8
        DEF Next, Client, Connecting, Commands, Frames, Server

(* Queues that only lose their heads hold no new open. *)
LEMMA FewerOpens ==
  ASSUME TypeOK, OneOpen,
         cmds' \in {<<>>, cmds} \/ (cmds # <<>> /\ cmds' = Tail(cmds)),
         up' \in {<<>>, up} \/ (up # <<>> /\ up' = Tail(up))
  PROVE  /\ OneOpen'
         /\ \A s \in Session : Opening(s)' => Opening(s)
         /\ up # <<>> /\ up' = Tail(up) =>
              \A s \in Session : Head(up).cmd = Open(s) => ~Opening(s)'
<1>1. cmds \in Seq(Command) /\ up \in Seq([id : 0..MaxId, cmd : Request, after : Seq0])
  BY DEF TypeOK, ChannelOK, WireOK
<1>2. PICK k \in {0, 1} :
        \A i \in DOMAIN cmds' : i + k \in DOMAIN cmds /\ cmds'[i] = cmds[i + k] /\ i \in Nat
  <2>1. CASE cmds' = <<>>
    BY <2>1
  <2>2. CASE cmds' = cmds
    BY <1>1, <2>2, LenProperties
  <2>3. CASE cmds # <<>> /\ cmds' = Tail(cmds)
    BY <1>1, <2>3, TailAt
  <2> QED BY <2>1, <2>2, <2>3
<1>3. PICK l \in {0, 1} :
        /\ \A i \in DOMAIN up' : i + l \in DOMAIN up /\ up'[i] = up[i + l] /\ i \in Nat
        /\ up # <<>> /\ up' = Tail(up) => /\ 1 \in DOMAIN up /\ Head(up) = up[1]
                                          /\ \A i \in DOMAIN up' : i + l # 1
  <2>1. CASE up # <<>> /\ up' = Tail(up)
    BY <1>1, <2>1, TailAt
  <2>2. CASE ~(up # <<>> /\ up' = Tail(up)) /\ up' = <<>>
    BY <2>2
  <2>3. CASE ~(up # <<>> /\ up' = Tail(up)) /\ up' = up
    BY <1>1, <2>3, LenProperties
  <2> QED BY <2>1, <2>2, <2>3
<1>4. OneOpen'
  <2> SUFFICES ASSUME NEW s \in Session
      PROVE /\ \A i, j \in DOMAIN cmds' : cmds'[i] = Open(s) /\ cmds'[j] = Open(s) => i = j
            /\ \A i, j \in DOMAIN up' : up'[i].cmd = Open(s) /\ up'[j].cmd = Open(s) => i = j
            /\ \A i \in DOMAIN cmds', j \in DOMAIN up' :
                 ~(cmds'[i] = Open(s) /\ up'[j].cmd = Open(s))
    BY DEF OneOpen, Open
  <2>1. /\ \A i, j \in DOMAIN cmds : cmds[i] = Open(s) /\ cmds[j] = Open(s) => i = j
        /\ \A i, j \in DOMAIN up : up[i].cmd = Open(s) /\ up[j].cmd = Open(s) => i = j
        /\ \A i \in DOMAIN cmds, j \in DOMAIN up :
             ~(cmds[i] = Open(s) /\ up[j].cmd = Open(s))
    BY DEF OneOpen
  <2>2. ASSUME NEW i \in DOMAIN cmds', NEW j \in DOMAIN cmds',
               cmds'[i] = Open(s), cmds'[j] = Open(s)
        PROVE  i = j
    <3>1. i + k = j + k /\ i \in Nat /\ j \in Nat
      BY <1>2, <2>1, <2>2
    <3> QED BY <3>1
  <2>3. ASSUME NEW i \in DOMAIN up', NEW j \in DOMAIN up',
               up'[i].cmd = Open(s), up'[j].cmd = Open(s)
        PROVE  i = j
    <3>1. i + l = j + l /\ i \in Nat /\ j \in Nat
      BY <1>3, <2>1, <2>3
    <3> QED BY <3>1
  <2> QED BY <1>2, <1>3, <2>1, <2>2, <2>3
<1>5. ASSUME NEW s \in Session, Opening(s)'
      PROVE  Opening(s)
  BY <1>2, <1>3, <1>5 DEF Opening, Open
<1>6. ASSUME up # <<>>, up' = Tail(up), NEW s \in Session, Head(up).cmd = Open(s)
      PROVE  ~Opening(s)'
  <2>1. 1 \in DOMAIN up /\ up[1].cmd = Open(s) /\ \A i \in DOMAIN up' : i + l # 1
    BY <1>3, <1>6
  <2>2. /\ \A i \in DOMAIN up : up[i].cmd = Open(s) => i = 1
        /\ \A i \in DOMAIN cmds : cmds[i] # Open(s)
    BY <2>1 DEF OneOpen
  <2> QED BY <1>2, <1>3, <2>1, <2>2 DEF Opening, Open
<1> QED BY <1>4, <1>5, <1>6

(* An open is posted for a session that has none on its way. *)
LEMMA OpenPosted ==
  ASSUME TypeOK, OneOpen, Posts
  PROVE  /\ OneOpen'
         /\ \A s \in Session : Opening(s)' => Opening(s) \/ Closed(s)
<1>1. PICK cmd \in Command : /\ cmds' = Append(cmds, cmd)
                             /\ \A s \in Session : cmd = Open(s) => Closed(s)
  BY DEF Posts
<1>2. \A i \in DOMAIN cmds' : \/ i \in DOMAIN cmds /\ cmds'[i] = cmds[i]
                              \/ i = Len(cmds) + 1 /\ cmds'[i] = cmd
  BY <1>1, AppendAt DEF TypeOK, ChannelOK
<1>3. \A s \in Session : cmd = Open(s) =>
        /\ \A i \in DOMAIN cmds : cmds[i] # Open(s)
        /\ \A i \in DOMAIN up : up[i].cmd # Open(s)
  BY <1>1 DEF Closed, Open
<1>4. up' = up
  BY DEF Posts
<1>5. ASSUME NEW s \in Session
      PROVE /\ \A i, j \in DOMAIN cmds' : cmds'[i] = Open(s) /\ cmds'[j] = Open(s) => i = j
            /\ \A i, j \in DOMAIN up' : up'[i].cmd = Open(s) /\ up'[j].cmd = Open(s) => i = j
            /\ \A i \in DOMAIN cmds', j \in DOMAIN up' :
                 ~(cmds'[i] = Open(s) /\ up'[j].cmd = Open(s))
  <2>1. /\ \A i, j \in DOMAIN cmds : cmds[i] = Open(s) /\ cmds[j] = Open(s) => i = j
        /\ \A i, j \in DOMAIN up : up[i].cmd = Open(s) /\ up[j].cmd = Open(s) => i = j
        /\ \A i \in DOMAIN cmds, j \in DOMAIN up :
             ~(cmds[i] = Open(s) /\ up[j].cmd = Open(s))
    BY DEF OneOpen
  <2> QED BY <1>2, <1>3, <1>4, <2>1
<1>6. OneOpen'
  BY <1>5 DEF OneOpen, Open
<1>7. \A s \in Session : Opening(s)' => Opening(s) \/ Closed(s)
  BY <1>1, <1>2, <1>4 DEF Opening, Open
<1> QED BY <1>6, <1>7

(* An open that is sent leaves the queue for the wire. *)
LEMMA OpenSent ==
  ASSUME TypeOK, OneOpen, HandleSend
  PROVE  /\ OneOpen'
         /\ \A s \in Session : Opening(s)' => Opening(s)
<1> DEFINE r == [id |-> FreshId, cmd |-> Head(cmds), after |-> After(Head(cmds))]
<1>1. cmds # <<>> /\ cmds' = Tail(cmds) /\ up' = Append(up, r) /\ r.cmd = Head(cmds)
      /\ Head(cmds).op # "disconnect" /\ nextId + Len(cmds) <= MaxId
  BY DEF HandleSend, TakeCommand, TypeOK, ProtoOK
<1> HIDE DEF r
<1>2. /\ 1 \in DOMAIN cmds /\ Head(cmds) = cmds[1]
      /\ \A i \in DOMAIN cmds' : i + 1 \in DOMAIN cmds /\ i + 1 # 1 /\ i \in Nat
                                 /\ cmds'[i] = cmds[i + 1]
  BY <1>1, TailAt DEF TypeOK, ChannelOK
<1>3. \A i \in DOMAIN up' : \/ i \in DOMAIN up /\ up'[i] = up[i]
                            \/ i = Len(up) + 1 /\ up'[i] = r
  <2>1. /\ Len(up) \in Nat /\ DOMAIN up' = 1..(Len(up) + 1) /\ DOMAIN up = 1..Len(up)
        /\ \A i \in 1..Len(up) : up'[i] = up[i]
        /\ up'[Len(up) + 1] = r
    BY <1>1 DEF TypeOK, WireOK
  <2> QED BY <2>1
<1>4. ASSUME NEW s \in Session
      PROVE /\ \A i, j \in DOMAIN cmds' : cmds'[i] = Open(s) /\ cmds'[j] = Open(s) => i = j
            /\ \A i, j \in DOMAIN up' : up'[i].cmd = Open(s) /\ up'[j].cmd = Open(s) => i = j
            /\ \A i \in DOMAIN cmds', j \in DOMAIN up' :
                 ~(cmds'[i] = Open(s) /\ up'[j].cmd = Open(s))
  <2>1. /\ \A i, j \in DOMAIN cmds : cmds[i] = Open(s) /\ cmds[j] = Open(s) => i = j
        /\ \A i, j \in DOMAIN up : up[i].cmd = Open(s) /\ up[j].cmd = Open(s) => i = j
        /\ \A i \in DOMAIN cmds, j \in DOMAIN up :
             ~(cmds[i] = Open(s) /\ up[j].cmd = Open(s))
    BY DEF OneOpen
  <2>2. \A i, j \in DOMAIN cmds' : cmds'[i] = Open(s) /\ cmds'[j] = Open(s) => i = j
    <3>1. \A i, j \in DOMAIN cmds' : cmds'[i] = Open(s) /\ cmds'[j] = Open(s) => i + 1 = j + 1
      BY <1>2, <2>1
    <3> QED BY <1>2, <3>1
  <2>3. \A i, j \in DOMAIN up' : up'[i].cmd = Open(s) /\ up'[j].cmd = Open(s) => i = j
    BY <1>1, <1>2, <1>3, <2>1
  <2>4. \A i \in DOMAIN cmds', j \in DOMAIN up' :
          ~(cmds'[i] = Open(s) /\ up'[j].cmd = Open(s))
    BY <1>1, <1>2, <1>3, <2>1
  <2> QED BY <2>2, <2>3, <2>4
<1>5. OneOpen'
  BY <1>4 DEF OneOpen, Open
<1>6. \A s \in Session : Opening(s)' => Opening(s)
  BY <1>1, <1>2, <1>3 DEF Opening, Open
<1> QED BY <1>5, <1>6

(* No session has two opens on their way; a session whose open is on its   *)
(* way had it before, or was closed when it was posted; an answered open   *)
(* is over.                                                                *)
LEMMA OpeningStep ==
  ASSUME TypeOK, OneOpen, [Next]_vars
  PROVE  /\ OneOpen'
         /\ \A s \in Session : Opening(s)' => Opening(s) \/ (Posts /\ Closed(s))
         /\ Answer => \A s \in Session : Head(up).cmd = Open(s) => ~Opening(s)'
<1>1. CASE Rests \/ Leaves \/ Skips \/ ReadDurable \/ Produce \/ Push \/ Noise \/ Answer
  <2>1. /\ cmds' \in {<<>>, cmds} \/ (cmds # <<>> /\ cmds' = Tail(cmds))
        /\ up' \in {<<>>, up} \/ (up # <<>> /\ up' = Tail(up))
    BY <1>1 DEF Rests, Leaves, SocketGone, Skips, ReadDurable, Reading, Produce, Push,
                Noise, Answer, chanVars
  <2>2. Answer => up # <<>> /\ up' = Tail(up)
    BY DEF Answer
  <2> QED BY <2>1, <2>2, FewerOpens
<1>2. CASE Posts
  <2>1. ~Answer
    BY <1>2, AppendProperties, LenProperties DEF Posts, Answer, chanVars, TypeOK, ChannelOK
  <2> QED BY <1>2, <2>1, OpenPosted
<1>3. CASE HandleSend
  <2>1. ~Answer
    BY <1>3, HeadTailProperties, LenProperties
       DEF HandleSend, TakeCommand, Answer, chanVars, TypeOK, ChannelOK
  <2> QED BY <1>3, <2>1, OpenSent
<1> QED BY <1>1, <1>2, <1>3, WireStep

-----------------------------------------------------------------------------
(* Frames on the wire. *)

(* The frames that are left after one was read, and after one was added. *)
LEMMA FramesAfter ==
  ASSUME TypeOK
  PROVE  /\ down # <<>> /\ down' = Tail(down) =>
              /\ Head(down) \in Frame /\ 1 \in DOMAIN down /\ Head(down) = down[1]
              /\ \A i \in DOMAIN down' : i + 1 \in DOMAIN down /\ i \in Nat
                                         /\ down'[i] = down[i + 1] /\ i + 1 > 1
         /\ \A f : down' = Append(down, f) =>
              \A i \in DOMAIN down' : \/ i \in DOMAIN down /\ down'[i] = down[i]
                                      \/ /\ down'[i] = f /\ i \in Nat
                                         /\ \A j \in DOMAIN down' : j <= i
<1>1. down \in Seq(Frame)
  BY DEF TypeOK, WireOK
<1>2. ASSUME down # <<>>, down' = Tail(down)
      PROVE  /\ Head(down) \in Frame /\ 1 \in DOMAIN down /\ Head(down) = down[1]
             /\ \A i \in DOMAIN down' : i + 1 \in DOMAIN down /\ i \in Nat
                                        /\ down'[i] = down[i + 1] /\ i + 1 > 1
  <2>1. /\ Head(down) \in Frame /\ 1 \in DOMAIN down /\ Head(down) = down[1]
        /\ \A i \in DOMAIN down' : i + 1 \in DOMAIN down /\ i \in Nat
                                   /\ down'[i] = down[i + 1] /\ i + 1 # 1
    BY <1>1, <1>2, TailAt, HeadTailProperties
  <2> QED BY <2>1
<1>3. ASSUME NEW f, down' = Append(down, f), NEW i \in DOMAIN down'
      PROVE  \/ i \in DOMAIN down /\ down'[i] = down[i]
             \/ down'[i] = f /\ i \in Nat /\ \A j \in DOMAIN down' : j <= i
  <2>1. /\ Len(down) \in Nat /\ DOMAIN down' = 1..(Len(down) + 1)
        /\ DOMAIN down = 1..Len(down)
        /\ \A k \in 1..Len(down) : down'[k] = down[k]
        /\ down'[Len(down) + 1] = f
    BY <1>1, <1>3
  <2> QED BY <2>1
<1> QED BY <1>2, <1>3

(* What the server adds to the wire. *)
LEMMA FramesAdded ==
  ASSUME TypeOK
  PROVE  /\ Noise => \E f \in Frame : f.t # "durable" /\ down' = Append(down, f)
         /\ Answer => \E f \in Frame : f.t # "durable" /\ down' = Append(down, f)
<1>1. ASSUME Noise
      PROVE  \E f \in Frame : f.t # "durable" /\ down' = Append(down, f)
  <2>1. PICK t \in {"delta", "stray"} : down' = Append(down, [t |-> t])
    BY <1>1 DEF Noise
  <2>2. [t |-> t] \in Frame /\ [t |-> t].t # "durable"
    BY DEF Frame
  <2> QED BY <2>1, <2>2
<1>2. ASSUME Answer
      PROVE  \E f \in Frame : f.t # "durable" /\ down' = Append(down, f)
  <2>1. PICK t \in {"response", "error"} :
          down' = Append(down, [t |-> t, id |-> Head(up).id, cmd |-> Head(up).cmd])
    BY <1>2 DEF Answer
  <2>2. Head(up) \in [id : 0..MaxId, cmd : Request, after : Seq0]
    BY <1>2, HeadTailProperties DEF Answer, TypeOK, WireOK
  <2>3. [t |-> t, id |-> Head(up).id, cmd |-> Head(up).cmd] \in Frame
    BY <2>2 DEF Frame
  <2> QED BY <2>1, <2>3
<1> QED BY <1>1, <1>2

(* The server pushes the next event of a session that is attached. *)
LEMMA PushStep ==
  ASSUME TransportAssumption, TypeOK, Push
  PROVE  \E t \in Session :
           /\ pos[t] \in Seq0 /\ pos[t] < ledger[t] /\ pos[t] # Detached
           /\ pos' \in [Session -> Nat] /\ pos'[t] = pos[t] + 1
           /\ \A s \in Session \ {t} : pos'[s] = pos[s]
           /\ \E f \in FramesOf(t) : /\ f \in Frame /\ f.n = pos[t] + 1
                                     /\ down' = Append(down, f)
           /\ UNCHANGED <<cmds, up, cursors, ledger, pendingInitial>>
<1>1. PICK t \in Session :
        /\ pos[t] < ledger[t] /\ pos' = [pos EXCEPT ![t] = @ + 1]
        /\ down' = Append(down, [t |-> "durable", s |-> t, n |-> pos[t] + 1])
        /\ UNCHANGED <<cmds, up, cursors, ledger, pendingInitial>>
  BY DEF Push, chanVars, protoVars
<1>2. /\ pos \in [Session -> Seq0 \cup {Detached}] /\ ledger[t] \in Seq0
      /\ MaxLedger \in Nat
  BY DEF TypeOK, WireOK, TransportAssumption
<1>3. pos[t] \in Seq0 /\ pos[t] # Detached /\ pos[t] + 1 \in 1..MaxLedger
  BY <1>1, <1>2 DEF Seq0, Detached
<1>4. pos' \in [Session -> Nat] /\ pos'[t] = pos[t] + 1
      /\ \A s \in Session \ {t} : pos'[s] = pos[s]
  BY <1>1, <1>2, <1>3 DEF Seq0, Detached
<1>5. /\ [t |-> "durable", s |-> t, n |-> pos[t] + 1] \in FramesOf(t)
      /\ [t |-> "durable", s |-> t, n |-> pos[t] + 1] \in Frame
  BY <1>3 DEF FramesOf, Frame
<1> QED BY <1>1, <1>3, <1>4, <1>5

(* An answer attaches the session of an open, or no session. *)
LEMMA AnswerStep ==
  ASSUME TransportAssumption, TypeOK, Answer
  PROVE  /\ UNCHANGED <<cmds, cursors, ledger, pendingInitial>>
         /\ up # <<>> /\ up' = Tail(up)
         /\ \A s \in Session :
              \/ pos'[s] = pos[s]
              \/ /\ Head(up).cmd.op \in {"open", "fresh"} /\ Head(up).cmd.s = s
                 /\ Head(up).cmd \in Command
                 /\ Head(up).after <= ledger[s]
                 /\ \/ Head(up).after # 0 /\ pos'[s] = Head(up).after
                    \/ Head(up).after = 0 /\ pos[s] = Detached /\ pos'[s] = ledger[s]
<1> DEFINE r == Head(up)
<1>1. /\ UNCHANGED <<cmds, cursors, ledger, pendingInitial>> /\ up # <<>> /\ up' = Tail(up)
      /\ \/ UNCHANGED pos
         \/ Opens(r.cmd) /\ r.after <= ledger[r.cmd.s] /\ Attach(r.cmd, r.after)
  BY DEF Answer, chanVars, protoVars
<1>2. r \in [id : 0..MaxId, cmd : Request, after : Seq0]
  BY <1>1, HeadTailProperties DEF TypeOK, WireOK
<1>3. r.cmd \in Command
  BY <1>2 DEF Request
<1> HIDE DEF r
<1>4. ASSUME Opens(r.cmd), r.after <= ledger[r.cmd.s], Attach(r.cmd, r.after),
             NEW s \in Session, pos'[s] # pos[s]
      PROVE  /\ r.cmd.op \in {"open", "fresh"} /\ r.cmd.s = s /\ r.after <= ledger[s]
             /\ \/ r.after # 0 /\ pos'[s] = r.after
                \/ r.after = 0 /\ pos[s] = Detached /\ pos'[s] = ledger[s]
  <2>1. r.cmd.s \in Session /\ r.cmd.op \in {"open", "fresh"}
    BY <1>3, <1>4, FieldsOK DEF Opens
  <2> QED BY <1>4, <2>1 DEF Attach, TypeOK, WireOK
<1> QED BY <1>1, <1>3, <1>4 DEF r

(* A durable frame moves the cursor of its session. *)
LEMMA ReadStep ==
  ASSUME TransportAssumption, TypeOK, ReadDurable
  PROVE  /\ UNCHANGED <<cmds, up, pos, ledger, pendingInitial>>
         /\ down # <<>> /\ down' = Tail(down)
         /\ \E t \in Session :
              /\ Head(down) \in FramesOf(t) /\ cursors'[t] = Head(down).n
              /\ \A s \in Session \ {t} : cursors'[s] = cursors[s]
<1>1. /\ UNCHANGED <<cmds, up, pos, ledger, pendingInitial>>
      /\ down # <<>> /\ down' = Tail(down) /\ Head(down).t = "durable"
      /\ cursors' = [cursors EXCEPT ![Head(down).s] = Head(down).n]
  BY DEF ReadDurable, Reading
<1>2. Head(down) \in Frame
  BY <1>1, HeadTailProperties DEF TypeOK, WireOK
<1>3. Head(down).s \in Session
  BY <1>1, <1>2, FieldsOK
<1> QED BY <1>1, <1>2, <1>3, EventOfSession DEF TypeOK, ProtoOK

(* A frame that is not durable is no frame of a session. *)
LEMMA NoSessionFrame ==
  ASSUME NEW f, f.t # "durable" PROVE \A s \in Session : f \notin FramesOf(s)
BY DEF FramesOf

(* The frames of two sessions differ. *)
LEMMA SessionOfFrame ==
  ASSUME NEW s, NEW t, NEW f \in FramesOf(s), f \in FramesOf(t) PROVE s = t
BY DEF FramesOf

(* A session that is not attached has no frame on the wire. *)
LEMMA QuietStep ==
  ASSUME TransportAssumption, TypeOK, DetachedIsQuiet, [Next]_vars
  PROVE  DetachedIsQuiet'
<1> SUFFICES ASSUME NEW s \in Session, pos'[s] = Detached, NEW i \in DOMAIN down'
             PROVE  down'[i] \notin FramesOf(s)
  BY DEF DetachedIsQuiet, NoneIn, FramesOf, Detached
<1>1. pos[s] = Detached => \A j \in DOMAIN down : down[j] \notin FramesOf(s)
  BY DEF DetachedIsQuiet, NoneIn
<1>2. CASE Rests \/ Posts \/ HandleSend \/ Produce
  <2>1. UNCHANGED <<down, pos>>
    BY <1>2 DEF Rests, Posts, HandleSend, Produce
  <2> QED BY <1>1, <2>1
<1>3. CASE Leaves
  BY <1>1, <1>3 DEF Leaves, SocketGone
<1>4. CASE Skips \/ ReadDurable
  <2>1. down # <<>> /\ down' = Tail(down) /\ pos' = pos
    BY <1>4 DEF Skips, ReadDurable, Reading
  <2> QED BY <1>1, <2>1, FramesAfter
<1>5. CASE Push
  <2>1. PICK t \in Session :
          /\ pos[t] \in Seq0 /\ pos[t] < ledger[t] /\ pos'[t] = pos[t] + 1
          /\ \A x \in Session \ {t} : pos'[x] = pos[x]
          /\ \E f \in FramesOf(t) : down' = Append(down, f)
    BY <1>5, PushStep
  <2>2. s # t
    BY <2>1 DEF Detached, Seq0, TypeOK, WireOK, TransportAssumption
  <2> QED BY <1>1, <2>1, <2>2, FramesAfter, SessionOfFrame
<1>6. CASE Noise
  <2>1. UNCHANGED pos
    BY <1>6 DEF Noise
  <2> QED BY <1>1, <1>6, <2>1, FramesAdded, FramesAfter, NoSessionFrame
<1>7. CASE Answer
  <2>1. pos[s] = Detached
    <3>1. Detached \notin Seq0 /\ ledger[s] \in Seq0
      BY DEF Detached, Seq0, TypeOK, WireOK, TransportAssumption
    <3>2. up # <<>> => Head(up).after \in Seq0
      <4>1. up # <<>> => Head(up) \in [id : 0..MaxId, cmd : Request, after : Seq0]
        BY HeadTailProperties DEF TypeOK, WireOK
      <4> QED BY <4>1
    <3> QED BY <1>7, <3>1, <3>2, AnswerStep
  <2> QED BY <1>1, <1>7, <2>1, FramesAdded, FramesAfter, NoSessionFrame
<1> QED BY <1>2, <1>3, <1>4, <1>5, <1>6, <1>7, WireStep

(* Nothing is ahead of the ledger. *)
LEMMA InLedgerStep ==
  ASSUME TransportAssumption, TypeOK, InLedger, [Next]_vars
  PROVE  InLedger'
<1> SUFFICES ASSUME NEW s \in Session
             PROVE  /\ cursors'[s] <= ledger'[s]
                    /\ pos'[s] # Detached => pos'[s] <= ledger'[s]
                    /\ \A i \in DOMAIN down' :
                         down'[i] \in FramesOf(s) => down'[i].n <= ledger'[s]
  BY DEF InLedger, FramesOf, Detached
<1>1. /\ cursors[s] <= ledger[s]
      /\ pos[s] # Detached => pos[s] <= ledger[s]
      /\ \A i \in DOMAIN down : down[i] \in FramesOf(s) => down[i].n <= ledger[s]
  BY DEF InLedger
<1>2. /\ cursors[s] \in Nat /\ pos[s] \in Nat /\ ledger[s] \in Nat
      /\ \A f \in FramesOf(s) : f.n \in Nat
  BY EventOfSession
     DEF TypeOK, ProtoOK, WireOK, Seq0, Detached, TransportAssumption
<1>3. CASE Rests \/ Posts \/ HandleSend
  <2>1. UNCHANGED <<down, pos, cursors, ledger>>
    BY <1>3 DEF Rests, Posts, HandleSend
  <2> QED BY <1>1, <2>1
<1>4. CASE Leaves
  BY <1>1, <1>4 DEF Leaves, SocketGone
<1>5. CASE Skips
  BY <1>1, <1>5, FramesAfter DEF Skips
<1>6. CASE ReadDurable
  <2>1. /\ UNCHANGED <<pos, ledger>> /\ down # <<>> /\ down' = Tail(down)
        /\ \E t \in Session : /\ Head(down) \in FramesOf(t) /\ cursors'[t] = Head(down).n
                              /\ \A x \in Session \ {t} : cursors'[x] = cursors[x]
    BY <1>6, ReadStep
  <2> QED BY <1>1, <2>1, FramesAfter
<1>7. CASE Produce
  <2>1. UNCHANGED <<down, pos, cursors>> /\ ledger'[s] \in {ledger[s], ledger[s] + 1}
    BY <1>7 DEF Produce, protoVars, TypeOK, WireOK
  <2> QED BY <1>1, <1>2, <2>1
<1>8. CASE Push
  <2>1. PICK t \in Session :
          /\ pos[t] < ledger[t] /\ pos'[t] = pos[t] + 1
          /\ \A x \in Session \ {t} : pos'[x] = pos[x]
          /\ \E f \in FramesOf(t) : f.n = pos[t] + 1 /\ down' = Append(down, f)
          /\ UNCHANGED <<cursors, ledger>>
    BY <1>8, PushStep
  <2>2. CASE s = t
    BY <1>1, <1>2, <2>1, <2>2, FramesAfter
  <2>3. CASE s # t
    BY <1>1, <2>1, <2>3, FramesAfter, SessionOfFrame
  <2> QED BY <2>2, <2>3
<1>9. CASE Noise
  <2>1. UNCHANGED <<pos, cursors, ledger>>
    BY <1>9 DEF Noise, protoVars
  <2> QED BY <1>1, <1>9, <2>1, FramesAdded, FramesAfter, NoSessionFrame
<1>10. CASE Answer
  <2>1. pos'[s] # Detached => pos'[s] <= ledger[s]
    BY <1>1, <1>2, <1>10, AnswerStep
  <2>2. UNCHANGED <<cursors, ledger>>
    BY <1>10, AnswerStep
  <2> QED BY <1>1, <1>10, <2>1, <2>2, FramesAdded, FramesAfter, NoSessionFrame
<1> QED BY <1>3, <1>4, <1>5, <1>6, <1>7, <1>8, <1>9, <1>10, WireStep

(* While an open of a session is on its way, the server has not got behind *)
(* the cursor of that session, and its frames come in order.               *)
LEMMA AheadStep ==
  ASSUME TransportAssumption, TypeOK, OneOpen, DetachedIsQuiet, InLedger,
         \A i \in DOMAIN up : up[i].after # 0 => up[i].cmd.op = "open",
         NEW s \in Session, Opening(s) => Ahead(s), [Next]_vars, Opening(s)'
  PROVE  Ahead(s)'
<1> DEFINE F == FramesOf(s)
<1>1. Opening(s) \/ (Posts /\ Closed(s))
  BY OpeningStep
<1>2. Ahead(s)
  <2>1. pos[s] = Detached => Ahead(s)
    BY DEF DetachedIsQuiet, NoneIn, Ahead
  <2> QED BY <1>1, <2>1 DEF Closed
<1>3. /\ pos[s] # Detached => cursors[s] <= pos[s]
      /\ \A i \in DOMAIN down : down[i] \in F =>
           /\ cursors[s] < down[i].n /\ down[i].n <= pos[s]
           /\ \A j \in DOMAIN down : i < j /\ down[j] \in F => down[i].n < down[j].n
  BY <1>2 DEF Ahead
<1>4. /\ cursors[s] \in Nat /\ pos[s] \in Nat /\ ledger[s] \in Nat /\ Detached \in Nat
      /\ \A f \in F : f.n \in Nat
  BY EventOfSession
     DEF TypeOK, ProtoOK, WireOK, Seq0, Detached, TransportAssumption
<1>5. pos[s] = Detached => \A i \in DOMAIN down : down[i] \notin F
  BY DEF DetachedIsQuiet, NoneIn
<1> SUFFICES /\ pos'[s] # Detached => cursors'[s] <= pos'[s]
             /\ \A i \in DOMAIN down' : down'[i] \in F =>
                  /\ cursors'[s] < down'[i].n /\ down'[i].n <= pos'[s]
                  /\ \A j \in DOMAIN down' : i < j /\ down'[j] \in F => down'[i].n < down'[j].n
  BY DEF Ahead, FramesOf, Detached
<1> HIDE DEF F
<1>6. CASE Rests \/ Posts \/ HandleSend \/ Produce
  <2>1. UNCHANGED <<down, pos, cursors>>
    BY <1>6 DEF Rests, Posts, HandleSend, Produce, protoVars
  <2> QED BY <1>3, <2>1
<1>7. CASE Leaves
  BY <1>3, <1>7 DEF Leaves, SocketGone
<1>8. ASSUME down # <<>>, down' = Tail(down), pos' = pos,
             cursors'[s] = IF Head(down) \in F THEN Head(down).n ELSE cursors[s]
      PROVE  /\ pos'[s] # Detached => cursors'[s] <= pos'[s]
             /\ \A i \in DOMAIN down' : down'[i] \in F =>
                  /\ cursors'[s] < down'[i].n /\ down'[i].n <= pos'[s]
                  /\ \A j \in DOMAIN down' : i < j /\ down'[j] \in F => down'[i].n < down'[j].n
  <2>1. /\ 1 \in DOMAIN down /\ Head(down) = down[1]
        /\ \A i \in DOMAIN down' : i + 1 \in DOMAIN down /\ i \in Nat
                                   /\ down'[i] = down[i + 1] /\ i + 1 > 1
    BY <1>8, FramesAfter
  <2>2. pos'[s] # Detached => cursors'[s] <= pos'[s]
    BY <1>3, <1>8, <2>1
  <2>3. ASSUME NEW i \in DOMAIN down', down'[i] \in F
        PROVE  cursors'[s] < down'[i].n /\ down'[i].n <= pos'[s]
    <3>1. i + 1 \in DOMAIN down /\ down[i + 1] = down'[i] /\ 1 < i + 1
      BY <2>1
    <3> QED BY <1>3, <1>8, <2>1, <2>3, <3>1
  <2>4. ASSUME NEW i \in DOMAIN down', NEW j \in DOMAIN down', i < j,
               down'[i] \in F, down'[j] \in F
        PROVE  down'[i].n < down'[j].n
    <3>1. /\ i + 1 \in DOMAIN down /\ down[i + 1] = down'[i]
          /\ j + 1 \in DOMAIN down /\ down[j + 1] = down'[j] /\ i + 1 < j + 1
      BY <2>1, <2>4
    <3> QED BY <1>3, <2>4, <3>1
  <2> QED BY <2>2, <2>3, <2>4
<1>9. CASE Skips
  <2>1. Head(down) \notin F
    BY <1>9, NoSessionFrame DEF Skips, F
  <2> QED BY <1>8, <1>9, <2>1 DEF Skips
<1>10. CASE ReadDurable
  <2>1. /\ down # <<>> /\ down' = Tail(down) /\ pos' = pos
        /\ cursors'[s] = IF Head(down) \in F THEN Head(down).n ELSE cursors[s]
    BY <1>10, ReadStep, SessionOfFrame DEF F
  <2> QED BY <1>8, <2>1
<1>11. ASSUME NEW f, down' = Append(down, f), cursors' = cursors,
              \/ f \notin F /\ pos'[s] = pos[s]
              \/ f \notin F /\ pos[s] = Detached /\ cursors[s] <= pos'[s]
              \/ f \in F /\ pos[s] # Detached /\ pos'[s] = pos[s] + 1 /\ f.n = pos[s] + 1
       PROVE  /\ pos'[s] # Detached => cursors'[s] <= pos'[s]
              /\ \A i \in DOMAIN down' : down'[i] \in F =>
                  /\ cursors'[s] < down'[i].n /\ down'[i].n <= pos'[s]
                  /\ \A j \in DOMAIN down' : i < j /\ down'[j] \in F => down'[i].n < down'[j].n
  <2>1. \A i \in DOMAIN down' : \/ i \in DOMAIN down /\ down'[i] = down[i]
                                \/ /\ down'[i] = f /\ i \in Nat
                                   /\ \A j \in DOMAIN down' : j <= i
    BY <1>11, FramesAfter
  <2>2. \A j \in DOMAIN down' : j \in Nat
    BY <1>11 DEF TypeOK, WireOK
  <2>3. CASE f \notin F /\ pos'[s] = pos[s]
    BY <1>3, <1>11, <2>1, <2>3
  <2>4. CASE f \notin F /\ pos[s] = Detached /\ cursors[s] <= pos'[s]
    BY <1>5, <1>11, <2>1, <2>4
  <2>5. CASE f \in F /\ pos[s] # Detached /\ pos'[s] = pos[s] + 1 /\ f.n = pos[s] + 1
    <3>1. ASSUME NEW i \in DOMAIN down', down'[i] \in F
          PROVE  /\ cursors[s] < down'[i].n /\ down'[i].n <= pos'[s]
      <4>1. CASE i \in DOMAIN down /\ down'[i] = down[i]
        <5>1. cursors[s] < down[i].n /\ down[i].n <= pos[s] /\ down[i].n \in Nat
          BY <1>3, <1>4, <3>1, <4>1
        <5> QED BY <1>4, <2>5, <4>1, <5>1
      <4>2. CASE down'[i] = f
        BY <1>3, <1>4, <2>5, <4>2
      <4> QED BY <2>1, <4>1, <4>2
    <3>2. ASSUME NEW i \in DOMAIN down', NEW j \in DOMAIN down', i < j,
                 down'[i] \in F, down'[j] \in F
          PROVE  down'[i].n < down'[j].n
      <4>1. i \in DOMAIN down /\ down'[i] = down[i]
        BY <2>1, <2>2, <3>2
      <4>2. down[i].n <= pos[s] /\ down[i].n \in Nat
        BY <1>3, <1>4, <3>2, <4>1
      <4>3. CASE j \in DOMAIN down /\ down'[j] = down[j]
        BY <1>3, <3>2, <4>1, <4>3
      <4>4. CASE down'[j] = f
        BY <1>4, <2>5, <4>1, <4>2, <4>4
      <4> QED BY <2>1, <4>3, <4>4
    <3>3. pos'[s] # Detached => cursors'[s] <= pos'[s]
      BY <1>3, <1>4, <1>11, <2>5
    <3> QED BY <1>11, <3>1, <3>2, <3>3
  <2> QED BY <1>11, <2>3, <2>4, <2>5
<1>12. CASE Push
  <2>1. PICK t \in Session :
          /\ pos[t] # Detached /\ pos'[t] = pos[t] + 1
          /\ \A x \in Session \ {t} : pos'[x] = pos[x]
          /\ \E f \in FramesOf(t) : f.n = pos[t] + 1 /\ down' = Append(down, f)
          /\ cursors' = cursors
    BY <1>12, PushStep
  <2>2. PICK f \in FramesOf(t) : f.n = pos[t] + 1 /\ down' = Append(down, f)
    BY <2>1
  <2>3. CASE s = t
    BY <1>11, <2>1, <2>2, <2>3 DEF F
  <2>4. CASE s # t
    <3>1. f \notin F /\ pos'[s] = pos[s]
      BY <2>1, <2>4, SessionOfFrame DEF F
    <3> QED BY <1>11, <2>1, <2>2, <3>1
  <2> QED BY <2>3, <2>4
<1>13. CASE Noise
  <2>1. PICK f \in Frame : f.t # "durable" /\ down' = Append(down, f)
    BY <1>13, FramesAdded
  <2>2. UNCHANGED <<pos, cursors>> /\ f \notin F
    BY <1>13, <2>1, NoSessionFrame DEF Noise, protoVars, F
  <2> QED BY <1>11, <2>1, <2>2
<1>14. CASE Answer
  <2>1. PICK f \in Frame : f.t # "durable" /\ down' = Append(down, f)
    BY <1>14, FramesAdded
  <2>2. cursors' = cursors /\ f \notin F
    BY <1>14, <2>1, NoSessionFrame, AnswerStep DEF F
  <2>3. CASE pos'[s] = pos[s]
    BY <1>11, <2>1, <2>2, <2>3
  <2>4. CASE pos'[s] # pos[s]
    <3>1. /\ Head(up).cmd.s = s /\ Head(up).cmd \in Command /\ up # <<>>
          /\ \/ Head(up).after # 0
             \/ Head(up).after = 0 /\ pos[s] = Detached /\ pos'[s] = ledger[s]
      BY <1>14, <2>4, AnswerStep
    <3>2. Head(up).after = 0
      <4>1. Head(up).cmd # Open(s)
        BY <1>14, OpeningStep
      <4>2. Head(up).cmd.op # "open"
        BY <3>1, <4>1, OpenCommands
      <4>3. 1 \in DOMAIN up /\ Head(up) = up[1]
        BY <3>1, TailAt DEF TypeOK, WireOK
      <4> QED BY <4>2, <4>3
    <3>3. pos[s] = Detached /\ cursors[s] <= pos'[s]
      BY <3>1, <3>2 DEF InLedger
    <3> QED BY <1>11, <2>1, <2>2, <3>3
  <2> QED BY <2>3, <2>4
<1> QED BY <1>6, <1>7, <1>9, <1>10, <1>12, <1>13, <1>14, WireStep

(* The seed is spent once; a request that carries a cursor is an open, and *)
(* the cursor it carries was its own session's, or the seed.               *)
LEMMA AfterStep ==
  ASSUME TransportAssumption, TypeOK, pendingInitial \in {0, Seed},
         \A i \in DOMAIN up : up[i].after # 0 => up[i].cmd.op = "open",
         [Next]_vars
  PROVE  /\ pendingInitial' \in {0, pendingInitial}
         /\ \A i \in DOMAIN up' : up'[i].after # 0 =>
              \/ \E j \in DOMAIN up : up'[i] = up[j]
              \/ /\ up'[i].cmd.op = "open" /\ up'[i].cmd.s \in Session
                 /\ cursors' = cursors
                 /\ \/ up'[i].after = cursors[up'[i].cmd.s]
                    \/ up'[i].after = Seed /\ pendingInitial' = 0
<1>1. CASE HandleSend
  <2> DEFINE cmd == Head(cmds)
             r == [id |-> FreshId, cmd |-> cmd, after |-> After(cmd)]
  <2>1. /\ cmds # <<>> /\ up' = Append(up, r) /\ cursors' = cursors
        /\ pendingInitial' = IF cmd.op = "open" /\ cursors[cmd.s] = 0
                             THEN 0 ELSE pendingInitial
    BY <1>1 DEF HandleSend, TakeCommand
  <2>2. cmd \in Command
    BY <2>1, HeadTailProperties DEF TypeOK, ChannelOK
  <2>3. r.cmd = cmd /\ r.after = After(cmd)
    OBVIOUS
  <2> HIDE DEF cmd, r
  <2>4. \A i \in DOMAIN up' : (i \in DOMAIN up /\ up'[i] = up[i]) \/ up'[i] = r
    <3>1. /\ Len(up) \in Nat /\ DOMAIN up' = 1..(Len(up) + 1) /\ DOMAIN up = 1..Len(up)
          /\ \A i \in 1..Len(up) : up'[i] = up[i]
          /\ up'[Len(up) + 1] = r
      BY <2>1 DEF TypeOK, WireOK
    <3> QED BY <3>1
  <2>5. r.after # 0 => /\ r.cmd.op = "open" /\ r.cmd.s \in Session
                       /\ \/ r.after = cursors[r.cmd.s]
                          \/ r.after = Seed /\ pendingInitial' = 0
    <3>1. cmd.op = "open" => cmd.s \in Session
      BY <2>2, OpenCommands
    <3> QED BY <2>1, <2>3, <3>1 DEF After
  <2> QED BY <2>1, <2>4, <2>5
<1>2. CASE Rests \/ Posts \/ Leaves \/ Skips \/ ReadDurable \/ Produce \/ Push \/ Noise
  <2>1. pendingInitial' \in {0, pendingInitial} /\ up' \in {<<>>, up}
    BY <1>2 DEF Rests, Posts, Leaves, SocketGone, Skips, ReadDurable, Reading, Produce,
                Push, Noise, protoVars
  <2> QED BY <2>1
<1>3. CASE Answer
  <2>1. pendingInitial' = pendingInitial /\ up # <<>> /\ up' = Tail(up)
    BY <1>3, AnswerStep
  <2>2. \A i \in DOMAIN up' : i + 1 \in DOMAIN up /\ up'[i] = up[i + 1]
    BY <2>1, TailAt DEF TypeOK, WireOK
  <2> QED BY <2>1, <2>2
<1> QED BY <1>1, <1>2, <1>3, WireStep

(* Every step keeps the cursors of the opens their own. *)
LEMMA OwnCursorsStep ==
  ASSUME TransportAssumption, TypeOK, OwnCursors, [Next]_vars
  PROVE  OwnCursors'
<1>1. /\ OneOpen /\ DetachedIsQuiet /\ InLedger
      /\ \A s \in Session : Opening(s) => Ahead(s)
      /\ pendingInitial \in {0, Seed}
      /\ \A i \in DOMAIN up : up[i].after # 0 => up[i].cmd.op = "open"
      /\ OpensFromItsOwnCursor
  BY DEF OwnCursors
<1>2. OneOpen' /\ DetachedIsQuiet' /\ InLedger'
  BY <1>1, OpeningStep, QuietStep, InLedgerStep
<1>3. \A s \in Session : Opening(s)' => Ahead(s)'
  BY <1>1, AheadStep
<1>4. pendingInitial' \in {0, Seed}
  BY <1>1, AfterStep
<1>5. \A i \in DOMAIN up' : up'[i].after # 0 => up'[i].cmd.op = "open"
  BY <1>1, AfterStep
<1>6. ASSUME NEW s \in Session, Opening(s)
      PROVE  cursors[s] <= cursors'[s]
  <2>1. cursors[s] \in Nat
    BY DEF TypeOK, ProtoOK, Seq0, TransportAssumption
  <2>2. CASE ReadDurable
    <3>1. /\ down # <<>>
          /\ cursors'[s] = cursors[s] \/ (Head(down) \in FramesOf(s) /\ cursors'[s] = Head(down).n)
      BY <2>2, ReadStep
    <3>2. 1 \in DOMAIN down /\ Head(down) = down[1]
      BY <3>1, TailAt DEF TypeOK, WireOK
    <3>3. Head(down) \in FramesOf(s) => cursors[s] < Head(down).n /\ Head(down).n \in Nat
      BY <1>1, <1>6, <3>2, EventOfSession DEF Ahead
    <3> QED BY <2>1, <3>1, <3>3
  <2>3. CASE Rests \/ Posts \/ HandleSend \/ Leaves \/ Skips \/ Produce \/ Push \/ Noise \/ Answer
    <3>1. cursors' = cursors
      BY <2>3 DEF Rests, Posts, HandleSend, Leaves, Skips, Produce, Push, Noise, Answer, protoVars
    <3> QED BY <2>1, <3>1
  <2> QED BY <2>2, <2>3, WireStep
<1>7. ASSUME NEW i \in DOMAIN up', up'[i].after # 0
      PROVE  \/ up'[i].after <= cursors'[up'[i].cmd.s]
             \/ up'[i].after = Seed /\ pendingInitial' = 0
  <2>1. CASE \E j \in DOMAIN up : up'[i] = up[j]
    <3>1. PICK j \in DOMAIN up : up'[i] = up[j]
      BY <2>1
    <3> DEFINE s == up[j].cmd.s
    <3>2. up[j].cmd.op = "open" /\ up[j].cmd \in Command /\ up[j].after \in Nat
      <4>1. up[j] \in [id : 0..MaxId, cmd : Request, after : Seq0]
        BY ElementOfSeq, LenProperties DEF TypeOK, WireOK
      <4> QED BY <1>1, <1>7, <3>1, <4>1 DEF Request, Seq0, TransportAssumption
    <3>3. s \in Session /\ up[j].cmd = Open(s)
      BY <3>2, OpenCommands
    <3>4. Opening(s)
      BY <3>3 DEF Opening
    <3>5. cursors[s] <= cursors'[s] /\ cursors[s] \in Nat /\ cursors'[s] \in Nat
      <4>1. cursors'[s] = cursors[s] \/ cursors'[s] \in Nat
        BY <3>3, ReadStep, EventOfSession, WireStep
           DEF Rests, Posts, HandleSend, Leaves, Skips, Produce, Push, Noise, Answer, protoVars
      <4> QED BY <1>6, <3>3, <3>4, <4>1 DEF TypeOK, ProtoOK, Seq0, TransportAssumption
    <3>6. \/ up[j].after <= cursors[s]
          \/ up[j].after = Seed /\ pendingInitial = 0
      BY <1>1, <1>7, <3>1 DEF OpensFromItsOwnCursor
    <3>7. pendingInitial = 0 => pendingInitial' = 0
      BY <1>1, AfterStep
    <3> HIDE DEF s
    <3>8. up[j].after <= cursors[s] => up[j].after <= cursors'[s]
      BY <3>2, <3>5
    <3> QED BY <3>1, <3>6, <3>7, <3>8 DEF s
  <2>2. CASE /\ up'[i].cmd.s \in Session /\ cursors' = cursors
             /\ \/ up'[i].after = cursors[up'[i].cmd.s]
                \/ up'[i].after = Seed /\ pendingInitial' = 0
    <3>1. cursors[up'[i].cmd.s] \in Nat
      BY <2>2 DEF TypeOK, ProtoOK, Seq0, TransportAssumption
    <3> QED BY <2>2, <3>1
  <2> QED BY <1>1, <1>7, <2>1, <2>2, AfterStep
<1>8. OpensFromItsOwnCursor'
  BY <1>7 DEF OpensFromItsOwnCursor
<1> QED BY <1>2, <1>3, <1>4, <1>5, <1>8 DEF OwnCursors

(* For every number of sessions that are open together: an open replays    *)
(* its own session from no later than what this transport has received of  *)
(* it, unless it spends the configured seed (proto.rs 103-113).            *)
THEOREM OpensFromOwnCursor == Spec => []OpensFromItsOwnCursor
<1> USE TransportAssumption
<1>1. Init => OwnCursors
  BY DEF Init, OwnCursors, OneOpen, DetachedIsQuiet, NoneIn, InLedger, Opening,
         OpensFromItsOwnCursor
<1>2. TypeOK /\ OwnCursors /\ [Next]_vars => OwnCursors'
  BY OwnCursorsStep
<1>3. OwnCursors => OpensFromItsOwnCursor
  BY DEF OwnCursors
<1> QED BY <1>1, <1>2, <1>3, TypeCorrect, PTL DEF Spec

-----------------------------------------------------------------------------
(* The feed. *)

(* What a step does to the stream, seen as a feed. *)
LEMMA FeedStep ==
  ASSUME TransportAssumption, TypeOK, [Next]_vars
  PROVE  Feed!Next
<1>1. Stream \in Seq(Event) /\ DOMAIN Stream = 1..Len(Stream) /\ Len(Stream) \in Nat
  BY StreamIsEvents, LenProperties
<1>2. CASE Gains
  <2>1. PICK r \in Seq(Event) : /\ Stream' = Stream \o r
                                /\ \A i \in DOMAIN r : r[i].kind # "durable"
    BY <1>2 DEF Gains
  <2>2. \A i \in DOMAIN r : r[i] \in PlainEvents
    BY <2>1, ElementOfSeq, LenProperties DEF PlainEvents
  <2>3. /\ DOMAIN r = 1..Len(r) /\ Len(r) \in Nat
        /\ DOMAIN (Stream \o r) = 1..(Len(Stream) + Len(r))
        /\ Len(Stream \o r) = Len(Stream) + Len(r)
        /\ \A i \in 1..(Len(Stream) + Len(r)) :
             (Stream \o r)[i] = IF i <= Len(Stream) THEN Stream[i] ELSE r[i - Len(Stream)]
    BY <1>1, <2>1, ConcatProperties, LenProperties
  <2>4. \A i \in 1..(Len(Stream) + Len(r)) : i > Len(Stream) => i - Len(Stream) \in DOMAIN r
    BY <1>1, <2>3
  <2>5. Feed!Traffic
    BY <1>1, <1>2, <2>1, <2>2, <2>3, <2>4 DEF Feed!Traffic, Gains
  <2> QED BY <2>5 DEF Feed!Next
<1>3. CASE Passes
  <2> DEFINE e == Head(Stream)
  <2>1. e \in Event /\ (e \in PlainEvents <=> e.kind # "durable")
    BY <1>1, <1>3, HeadTailProperties DEF Passes, PlainEvents
  <2>2. Feed!Fold
    BY <1>3, <2>1 DEF Passes, Feed!Fold
  <2> QED BY <2>2 DEF Feed!Next
<1>4. CASE Reads
  <2> DEFINE f == Head(down)
             e == DurableEvent(f.s, f.n)
  <2>1. f \in Frame /\ f.t = "durable"
    BY <1>4, QueueTail DEF Reads, TypeOK, WireOK
  <2>2. f.s \in Session /\ f.n \in 1..MaxLedger
    BY <2>1, FieldsOK
  <2>3. e \in Feed!Durable /\ e.s = f.s /\ e.n = f.n
    BY <2>2 DEF Feed!Durable, DurableEvent
  <2>4. Feed!Receive(e)
    BY <1>4, <2>3 DEF Reads, Feed!Receive
  <2> QED BY <2>3, <2>4 DEF Feed!Next
<1> QED BY <1>2, <1>3, <1>4, StreamStep

(* For every number of sessions and events, every depth of the channels    *)
(* and any sequence of drops, whichever way the client opens its sessions: *)
(* the transport implements EventFeed.  What a cursor records is folded    *)
(* once, in the order of receipt (proto.rs 376-386, ws/mod.rs 62-75).      *)
THEOREM TransportImplementsFeed == Spec => ImplementsFeed
<1> USE TransportAssumption
<1>1. ASSUME Init PROVE Feed!Init
  <2>1. Stream \in Seq(Event) /\ DOMAIN Stream = 1..Len(Stream) /\ Len(Stream) \in Nat
    <3>1. Session # {}
      BY DEF TransportAssumption
    <3> QED BY <1>1, <3>1, InitialStream, LenProperties
  <2>2. ASSUME NEW i \in DOMAIN Stream PROVE Stream[i] \in PlainEvents
    <3>1. Stream[i] \in Event
      BY <2>1, <2>2, ElementOfSeq
    <3>2. Stream[i].kind = "durable" => Stream[i].s \in Session
      BY <3>1, FieldsOK
    <3>3. Stream[i].kind # "durable"
      BY <1>1, <2>2, <3>1, <3>2, InitialStream, EventOfSession DEF NoneIn
    <3> QED BY <3>1, <3>3 DEF PlainEvents
  <2>3. Stream \in Seq(PlainEvents)
    BY <2>1, <2>2, SeqDef
  <2> QED BY <1>1, <2>3 DEF Init, Feed!Init, Seq0, TransportAssumption
<1>2. TypeOK /\ [Next]_vars => [Feed!Next]_<<cursors, applied, Stream>>
  BY FeedStep
<1> QED BY <1>1, <1>2, TypeCorrect, PTL DEF Spec, ImplementsFeed, Feed!Spec

=============================================================================
