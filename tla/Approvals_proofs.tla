--------------------------- MODULE Approvals_proofs ---------------------------
(***************************************************************************)
(* What holds of the approval cards for every set of approvals, every      *)
(* number of clicks and every loss: the shape of the slice, and that a     *)
(* card never shows a decision other than the one the server recorded.     *)
(***************************************************************************)
EXTENDS Approvals, SequenceTheorems, TLAPS

(* A queue that loses its head, and one that gains an element. *)
LEMMA QueueTail ==
  ASSUME NEW S, NEW q \in Seq(S), q # <<>>
  PROVE  /\ Head(q) \in S /\ Tail(q) \in Seq(S) /\ 1 \in DOMAIN q /\ Head(q) = q[1]
         /\ \A k \in DOMAIN Tail(q) : k + 1 \in DOMAIN q /\ Tail(q)[k] = q[k + 1]
BY HeadTailProperties, EmptySeq, LenProperties

LEMMA QueueAppend ==
  ASSUME NEW S, NEW q \in Seq(S), NEW e \in S
  PROVE  /\ Append(q, e) \in Seq(S)
         /\ \A k \in DOMAIN Append(q, e) : \/ k \in DOMAIN q /\ Append(q, e)[k] = q[k]
                                           \/ k = Len(q) + 1 /\ Append(q, e)[k] = e
         /\ \A k \in DOMAIN q : k \in DOMAIN Append(q, e) /\ Append(q, e)[k] = q[k]
         /\ Len(q) + 1 \in DOMAIN Append(q, e) /\ Append(q, e)[Len(q) + 1] = e
BY AppendProperties, LenProperties

(* Without its i-th element, a sequence keeps the others in their order. *)
LEMMA RemoveAtOK ==
  ASSUME NEW S, NEW s \in Seq(S), NEW i \in DOMAIN s
  PROVE  /\ RemoveAt(s, i) \in Seq(S) /\ Len(RemoveAt(s, i)) = Len(s) - 1
         /\ \A k \in DOMAIN RemoveAt(s, i) :
              /\ k < i => k \in DOMAIN s /\ RemoveAt(s, i)[k] = s[k]
              /\ k >= i => k + 1 \in DOMAIN s /\ RemoveAt(s, i)[k] = s[k + 1]
<1> DEFINE left == SubSeq(s, 1, i - 1)
           right == SubSeq(s, i + 1, Len(s))
<1>1. Len(s) \in Nat /\ DOMAIN s = 1..Len(s) /\ i \in 1..Len(s)
  BY LenProperties
<1>2. left \in Seq(S) /\ Len(left) = i - 1 /\ \A k \in 1..i - 1 : left[k] = s[k]
  BY <1>1, SubSeqProperties
<1>3. right \in Seq(S) /\ Len(right) = Len(s) - i
      /\ \A k \in 1..Len(s) - i : right[k] = s[i + k]
  <2>1. i + 1 \in 1..Len(s) + 1 /\ Len(s) \in i..Len(s) /\ Len(s) - (i + 1) + 1 = Len(s) - i
    BY <1>1
  <2> QED BY <1>1, <2>1, SubSeqProperties
<1> HIDE DEF left, right
<1>4. /\ left \o right \in Seq(S) /\ Len(left \o right) = Len(s) - 1
      /\ \A k \in 1..Len(s) - 1 : (left \o right)[k] =
           IF k <= i - 1 THEN left[k] ELSE right[k - (i - 1)]
  <2>1. /\ left \o right \in Seq(S) /\ Len(left \o right) = Len(left) + Len(right)
        /\ \A k \in 1..Len(left) + Len(right) : (left \o right)[k] =
             IF k <= Len(left) THEN left[k] ELSE right[k - Len(left)]
    BY <1>2, <1>3, ConcatProperties
  <2>2. Len(left) + Len(right) = Len(s) - 1
    BY <1>1, <1>2, <1>3
  <2> QED BY <1>2, <2>1, <2>2
<1>5. DOMAIN (left \o right) = 1..Len(s) - 1
  BY <1>4, LenProperties
<1>6. \A k \in 1..Len(s) - 1 : k >= i => (left \o right)[k] = s[k + 1]
  <2> SUFFICES ASSUME NEW k \in 1..Len(s) - 1, k >= i
               PROVE  (left \o right)[k] = s[k + 1]
    OBVIOUS
  <2>1. k - (i - 1) \in 1..Len(s) - i /\ i + (k - (i - 1)) = k + 1 /\ ~(k <= i - 1)
    BY <1>1
  <2>2. (left \o right)[k] = right[k - (i - 1)]
    BY <1>4, <2>1
  <2> QED BY <1>3, <2>1, <2>2
<1>7. \A k \in 1..Len(s) - 1 : k < i => (left \o right)[k] = s[k]
  BY <1>1, <1>2, <1>4
<1>8. RemoveAt(s, i) = left \o right
  BY DEF RemoveAt, left, right
<1>9. \A k \in 1..Len(s) - 1 : k \in DOMAIN s /\ k + 1 \in DOMAIN s
  BY <1>1
<1> QED BY <1>4, <1>5, <1>6, <1>7, <1>8, <1>9

Distinct(s) == \A i, j \in DOMAIN s : s[i] = s[j] => i = j

(* retain on a queue without duplicates drops that approval only. *)
LEMMA RetainOK ==
  ASSUME NEW S, NEW s \in Seq(S), NEW a
  PROVE  /\ Retain(s, a) \in Seq(S)
         /\ \A k \in DOMAIN Retain(s, a) : \E j \in DOMAIN s : Retain(s, a)[k] = s[j]
         /\ Distinct(s) => /\ Distinct(Retain(s, a))
                           /\ \A k \in DOMAIN Retain(s, a) : Retain(s, a)[k] # a
                           /\ \A j \in DOMAIN s : s[j] # a =>
                                \E k \in DOMAIN Retain(s, a) : Retain(s, a)[k] = s[j]
<1>1. CASE ~ \E i \in DOMAIN s : s[i] = a
  BY <1>1 DEF Retain, Distinct
<1>2. CASE \E i \in DOMAIN s : s[i] = a
  <2> DEFINE i == CHOOSE i \in DOMAIN s : s[i] = a
             t == RemoveAt(s, i)
  <2>1. i \in DOMAIN s /\ s[i] = a /\ Retain(s, a) = t
    BY <1>2 DEF Retain
  <2> HIDE DEF i
  <2>2. /\ t \in Seq(S) /\ Len(t) = Len(s) - 1
        /\ \A k \in DOMAIN t : /\ k < i => k \in DOMAIN s /\ t[k] = s[k]
                               /\ k >= i => k + 1 \in DOMAIN s /\ t[k] = s[k + 1]
    BY <2>1, RemoveAtOK
  <2>3. DOMAIN s = 1..Len(s) /\ DOMAIN t = 1..Len(t) /\ Len(s) \in Nat
    BY <2>2, LenProperties
  <2> HIDE DEF t
  <2>4. \A k \in DOMAIN t : \E j \in DOMAIN s : t[k] = s[j]
    BY <2>1, <2>2, <2>3
  <2>5. ASSUME Distinct(s) PROVE Distinct(t)
    BY <2>1, <2>2, <2>3, <2>5 DEF Distinct
  <2>6. ASSUME Distinct(s), NEW k \in DOMAIN t PROVE t[k] # a
    BY <2>1, <2>2, <2>3, <2>6 DEF Distinct
  <2>7. ASSUME NEW j \in DOMAIN s, s[j] # a PROVE \E k \in DOMAIN t : t[k] = s[j]
    <3>1. CASE j < i
      <4>1. j \in DOMAIN t
        BY <2>1, <2>2, <2>3, <3>1
      <4> QED BY <2>2, <3>1, <4>1
    <3>2. CASE j > i
      <4>1. j - 1 \in DOMAIN t /\ j - 1 >= i /\ (j - 1) + 1 = j
        BY <2>1, <2>2, <2>3, <3>2
      <4> QED BY <2>2, <4>1
    <3> QED BY <2>1, <2>3, <2>7, <3>1, <3>2
  <2> QED BY <2>1, <2>2, <2>4, <2>5, <2>6, <2>7
<1> QED BY <1>1, <1>2

(* Each operation of the slice keeps its types. *)
LEMMA SliceOpsOK ==
  ASSUME state \in [Approval -> CardState], order \in Seq(Approval),
         NEW a \in Approval, NEW d \in MaybeDecision,
         \/ requested(a) \/ pending_response(a, d) \/ decided(a, d)
         \/ failed(a) \/ cancelled(a)
  PROVE  state' \in [Approval -> CardState] /\ order' \in Seq(Approval)
<1>1. Retain(order, a) \in Seq(Approval) /\ Append(order, a) \in Seq(Approval)
  BY RetainOK, QueueAppend
<1>2. \A tag \in Tag, x \in MaybeDecision : Card(tag, x) \in CardState
  BY DEF Card, CardState
<1>3. Undecided \in MaybeDecision
  BY DEF MaybeDecision
<1> HIDE DEF CardState
<1> QED BY <1>1, <1>2, <1>3
        DEF requested, pending_response, decided, failed, cancelled, sliceVars, Tag

LEMMA DecisionsOK == /\ Button \subseteq MaybeDecision /\ Decision \subseteq MaybeDecision
                     /\ Undecided \in MaybeDecision /\ Undecided \notin Button
BY ApprovalsAssumption DEF MaybeDecision

(* Posting a reply, and passing a notification on, keep the queues' types. *)
LEMMA PostReplyOK ==
  ASSUME NEW q \in Seq(Ui \cup Async), NEW a \in Approval, NEW d \in Button,
         NEW outcome \in Outcome, NEW rec \in MaybeDecision
  PROVE  PostReply(q, a, d, outcome, rec) \in Seq(Ui \cup Async)
<1>1. [kind |-> "async", a |-> a, d |-> d, outcome |-> outcome, rec |-> rec]
        \in Ui \cup Async
  BY DEF Async
<1> QED BY <1>1, QueueAppend DEF PostReply

LEMMA NotifyOK ==
  ASSUME events \in Seq(Notice), NEW kind \in {"requested", "decided", "cancelled"},
         NEW a \in Approval, NEW d \in MaybeDecision, Notify(kind, a, d)
  PROVE  events' \in Seq(Notice)
<1>1. [kind |-> kind, a |-> a, d |-> d] \in Notice
  BY DEF Notice
<1> QED BY <1>1, QueueAppend DEF Notify

(* Every variable keeps its type. *)
THEOREM TypeCorrect == Spec => []TypeOK
<1> USE ApprovalsAssumption, DecisionsOK
<1>1. Init => TypeOK
  <2> SUFFICES ASSUME Init PROVE TypeOK
    OBVIOUS
  <2>1. Card("absent", Undecided) \in CardState
    BY DEF Card, CardState, Tag
  <2> QED BY <2>1, EmptySeq DEF Init, TypeOK
<1>2. TypeOK /\ [Next]_vars => TypeOK'
  <2> SUFFICES ASSUME TypeOK, [Next]_vars PROVE TypeOK'
    OBVIOUS
  <2>1. CASE Click
    <3>1. PICK i \in DOMAIN shown, d \in Button :
            click' = [i |-> i, a |-> shown[i].a, d |-> d]
      BY <2>1 DEF Click
    <3>2. i \in Nat \ {0} /\ shown[i].a \in Approval
      <4> DEFINE R == [a : Approval, open : BOOLEAN]
      <4>1. shown \in Seq(R) /\ \A x \in R : x.a \in Approval
        BY DEF TypeOK
      <4> HIDE DEF R
      <4>2. shown[i] \in R /\ i \in 1..Len(shown) /\ Len(shown) \in Nat
        BY <4>1, ElementOfSeq, LenProperties
      <4> QED BY <4>1, <4>2
    <3>3. click' \in [i : Nat \ {0}, a : Approval, d : Button]
      BY <3>1, <3>2
    <3> QED BY <2>1, <3>3 DEF Click, TypeOK, sliceVars, agentVars
  <2>2. CASE Draw
    <3>1. shown' \in Seq([a : Approval, open : BOOLEAN])
      <4>1. \A i \in 1..Len(order) : order[i] \in Approval
        BY ElementOfSeq DEF TypeOK
      <4>2. \A i \in 1..Len(order) :
              [a |-> order[i], open |-> HasButtons(order[i])] \in [a : Approval, open : BOOLEAN]
        BY <4>1 DEF HasButtons
      <4>3. Len(order) \in Nat
        BY LenProperties DEF TypeOK
      <4> QED BY <2>2, <4>2, <4>3, IsASeq DEF Draw
    <3> QED BY <2>2, <3>1 DEF Draw, TypeOK, sliceVars, agentVars
  <2>3. CASE HandleClick
    <3>1. click \in [i : Nat \ {0}, a : Approval, d : Button] /\ clicks \in 1..MaxClicks
      BY <2>3 DEF HandleClick, TypeOK
    <3>2. posted' \in Seq(Ui \cup Async)
      <4>1. ASSUME NEW a \in CardAt(click.i)
            PROVE  Append(posted, [kind |-> "ui", n |-> clicks, a |-> a, d |-> click.d])
                     \in Seq(Ui \cup Async)
        <5>1. a \in Approval
          BY ElementOfSeq, LenProperties DEF CardAt, Below, TypeOK
        <5>2. [kind |-> "ui", n |-> clicks, a |-> a, d |-> click.d] \in Ui \cup Async
          BY <3>1, <5>1 DEF Ui
        <5> QED BY <5>2, QueueAppend DEF TypeOK
      <4> QED BY <2>3, <4>1 DEF HandleClick, TypeOK
    <3> QED BY <2>3, <3>2 DEF HandleClick, TypeOK, sliceVars, agentVars
  <2>4. CASE FoldAnswer
    <3>1. PICK i \in DOMAIN posted :
            /\ posted[i].kind = "ui"
            /\ pending_response(posted[i].a, posted[i].d)
            /\ Respond(RemoveAt(posted, i), posted[i])
      BY <2>4 DEF FoldAnswer
    <3>2. posted[i] \in Ui
      <4>1. posted[i] \in Ui \cup Async
        BY ElementOfSeq, LenProperties DEF TypeOK
      <4> QED BY <3>1, <4>1 DEF Async
    <3>3. posted[i].a \in Approval /\ posted[i].d \in Button /\ posted[i].n \in 1..MaxClicks
      BY <3>2 DEF Ui
    <3>4. RemoveAt(posted, i) \in Seq(Ui \cup Async)
      BY RemoveAtOK DEF TypeOK
    <3>5. PostReply(RemoveAt(posted, i), posted[i].a, posted[i].d, "error", Undecided)
            \in Seq(Ui \cup Async)
      BY <3>3, <3>4, PostReplyOK DEF Outcome
    <3>6. Append(wire, [n |-> posted[i].n, a |-> posted[i].a, d |-> posted[i].d]) \in Seq(Answer)
      <4>1. [n |-> posted[i].n, a |-> posted[i].a, d |-> posted[i].d] \in Answer
        BY <3>3 DEF Answer
      <4> QED BY <4>1, QueueAppend DEF TypeOK
    <3>7. wire' \in Seq(Answer) /\ posted' \in Seq(Ui \cup Async)
      BY <3>1, <3>4, <3>5, <3>6 DEF Respond, TypeOK
    <3>8. state' \in [Approval -> CardState] /\ order' \in Seq(Approval)
      BY <3>1, <3>3, SliceOpsOK DEF TypeOK
    <3> QED BY <2>4, <3>7, <3>8 DEF FoldAnswer, TypeOK
  <2>5. CASE FoldReply
    <3> DEFINE r == Head(posted)
    <3>1. r \in Async /\ Tail(posted) \in Seq(Ui \cup Async)
      <4>1. r \in Ui \cup Async /\ Tail(posted) \in Seq(Ui \cup Async)
        BY <2>5, QueueTail DEF FoldReply, TypeOK
      <4> QED BY <2>5, <4>1 DEF FoldReply, Ui
    <3>2. r.a \in Approval /\ r.d \in Button /\ r.outcome \in Outcome
      BY <3>1 DEF Async
    <3>3. Recorded(r) \in MaybeDecision
      BY <3>2 DEF Recorded
    <3>4. decided(r.a, r.d) \/ decided(r.a, Recorded(r)) \/ failed(r.a)
      BY <2>5, <3>2 DEF FoldReply, Outcome
    <3> HIDE DEF r
    <3>5. state' \in [Approval -> CardState] /\ order' \in Seq(Approval)
      BY <3>2, <3>3, <3>4, SliceOpsOK DEF TypeOK
    <3> QED BY <2>5, <3>1, <3>5 DEF FoldReply, TypeOK, agentVars
  <2>6. CASE FoldNotice
    <3> DEFINE e == Head(events)
    <3>1. e \in Notice /\ Tail(events) \in Seq(Notice)
      BY <2>6, QueueTail DEF FoldNotice, TypeOK
    <3>2. e.a \in Approval /\ e.d \in MaybeDecision
          /\ e.kind \in {"requested", "decided", "cancelled"}
      BY <3>1 DEF Notice
    <3>3. requested(e.a) \/ decided(e.a, e.d) \/ cancelled(e.a)
      BY <2>6, <3>2 DEF FoldNotice
    <3> HIDE DEF e
    <3>4. state' \in [Approval -> CardState] /\ order' \in Seq(Approval)
      BY <3>2, <3>3, SliceOpsOK DEF TypeOK
    <3> QED BY <2>6, <3>1, <3>4 DEF FoldNotice, TypeOK, uiVars, agentVars
  <2>7. CASE Deliver
    <3>1. PICK r \in replies : /\ replies' = replies \ {r}
                               /\ posted' = PostReply(posted, r.a, r.d, r.outcome, r.rec)
      BY <2>7 DEF Deliver
    <3>2. r.a \in Approval /\ r.d \in Button /\ r.outcome \in Outcome /\ r.rec \in MaybeDecision
      BY DEF TypeOK, Reply
    <3>3. posted' \in Seq(Ui \cup Async)
      BY <3>1, <3>2, PostReplyOK DEF TypeOK
    <3> QED BY <2>7, <3>1, <3>3 DEF Deliver, TypeOK, sliceVars
  <2>8. CASE TransportEnds
    <3>1. Unanswered \subseteq Answer
      BY ElementOfSeq, LenProperties DEF Unanswered, TypeOK
    <3>2. \A r \in Answer : Dropped(r) \in Reply
      BY DEF Answer, Reply, Dropped, Outcome
    <3>3. replies' \subseteq Reply
      BY <2>8, <3>1, <3>2 DEF TransportEnds, TypeOK
    <3> QED BY <2>8, <3>3, EmptySeq DEF TransportEnds, TypeOK, sliceVars, uiVars
  <2>9. CASE Replace
    BY <2>9, EmptySeq DEF Replace, TypeOK, sliceVars, uiVars
  <2>10. CASE Raise
    BY <2>10, NotifyOK DEF Raise, TypeOK, sliceVars, uiVars, agentVars
  <2>11. CASE DecideElsewhere
    BY <2>11, NotifyOK DEF DecideElsewhere, TypeOK, sliceVars, uiVars, agentVars
  <2>12. CASE Cancel
    BY <2>12, NotifyOK DEF Cancel, TypeOK, sliceVars, uiVars, agentVars
  <2>13. CASE Replay
    BY <2>13, NotifyOK DEF Replay, TypeOK, sliceVars, uiVars, agentVars
  <2>14. CASE Reach
    <3>1. Head(wire) \in Answer /\ Tail(wire) \in Seq(Answer)
      BY <2>14, QueueTail DEF Reach, TypeOK
    <3>2. PICK outcome \in Outcome, rec \in MaybeDecision :
            /\ Serve(Head(wire), rec, outcome)
            /\ \/ /\ replies' = replies \cup
                       {[n |-> Head(wire).n, a |-> Head(wire).a, d |-> Head(wire).d,
                         outcome |-> outcome, rec |-> rec]}
                  /\ UNCHANGED lost
               \/ lost' = lost \cup {Head(wire)} /\ UNCHANGED replies
      BY <2>14 DEF Reach
    <3>3. Head(wire).n \in 1..MaxClicks /\ Head(wire).a \in Approval /\ Head(wire).d \in Button
      BY <3>1 DEF Answer
    <3>4. replies' \subseteq Reply /\ lost' \subseteq Answer
      BY <3>1, <3>2, <3>3 DEF TypeOK, Reply
    <3>5. server' \in [Approval -> {"none", "pending", "cancelled"} \cup Decision]
      BY <3>2, <3>3 DEF Serve, TypeOK
    <3> QED BY <2>14, <3>1, <3>4, <3>5 DEF Reach, TypeOK, sliceVars, uiVars
  <2>15. CASE Lose
    <3>1. Head(wire) \in Answer /\ Tail(wire) \in Seq(Answer)
      BY <2>15, QueueTail DEF Lose, TypeOK
    <3> QED BY <2>15, <3>1 DEF Lose, TypeOK, sliceVars, uiVars
  <2>16. CASE UNCHANGED vars
    BY <2>16 DEF vars, sliceVars, uiVars, agentVars, TypeOK
  <2> QED BY <2>1, <2>2, <2>3, <2>4, <2>5, <2>6, <2>7, <2>8, <2>9, <2>10, <2>11,
             <2>12, <2>13, <2>14, <2>15, <2>16 DEF Next, UiThread, Agent, Server
<1> QED BY <1>1, <1>2, PTL DEF Spec

(* An order that is distinct and a suitable set of cards stay so under     *)
(* every operation of the slice.                                           *)
LEMMA SliceOpsShape ==
  ASSUME state \in [Approval -> CardState], order \in Seq(Approval), SliceShape,
         NEW a \in Approval, NEW d \in MaybeDecision,
         \/ requested(a) \/ pending_response(a, d) \/ decided(a, d)
         \/ failed(a) \/ cancelled(a)
  PROVE  SliceShape'
<1>1. Distinct(order)
  BY DEF SliceShape, Distinct
<1>2. CASE UNCHANGED sliceVars
  BY <1>2 DEF sliceVars, SliceShape, Queued, Known
<1>3. CASE requested(a) /\ ~Known(a)
  <2>1. order' = Append(order, a) /\ state' = [state EXCEPT ![a] = Card("awaiting", Undecided)]
    BY <1>3 DEF requested
  <2>2. ~Queued(a)
    BY <1>3 DEF SliceShape
  <2>3. \A k \in DOMAIN order' : \/ k \in DOMAIN order /\ order'[k] = order[k]
                                 \/ k = Len(order) + 1 /\ order'[k] = a
    BY <2>1, QueueAppend
  <2>4. \A i, j \in DOMAIN order' : order'[i] = order'[j] => i = j
    BY <2>2, <2>3 DEF SliceShape, Queued
  <2>5. \A x \in Approval : Queued(x)' <=> Queued(x) \/ x = a
    <3>1. \A k \in DOMAIN order : k \in DOMAIN order' /\ order'[k] = order[k]
      BY <2>1, QueueAppend
    <3>2. Len(order) + 1 \in DOMAIN order' /\ order'[Len(order) + 1] = a
      BY <2>1, QueueAppend
    <3> QED BY <2>3, <3>1, <3>2 DEF Queued
  <2>6. state'[a].tag = "awaiting" /\ \A x \in Approval \ {a} : state'[x] = state[x]
    BY <2>1 DEF Card
  <2> QED BY <2>4, <2>5, <2>6 DEF SliceShape, Known
<1>4. CASE (pending_response(a, d) \/ failed(a)) /\ Known(a)
  <2>1. order' = order /\ state'[a].tag \in {"pending", "failed"}
        /\ \A x \in Approval \ {a} : state'[x] = state[x]
    BY <1>4 DEF pending_response, failed, Card
  <2> QED BY <2>1 DEF SliceShape, Queued, Known
<1>5. CASE (decided(a, d) \/ cancelled(a)) /\ Known(a)
  <2>1. order' = Retain(order, a) /\ state'[a].tag \in {"decided", "failed"}
        /\ \A x \in Approval \ {a} : state'[x] = state[x]
    BY <1>5 DEF decided, cancelled, Card
  <2>2. \A i, j \in DOMAIN order' : order'[i] = order'[j] => i = j
    BY <1>1, <2>1, RetainOK DEF Distinct
  <2>3. \A x \in Approval : Queued(x)' <=> Queued(x) /\ x # a
    BY <1>1, <2>1, RetainOK DEF Queued
  <2> QED BY <2>1, <2>2, <2>3 DEF SliceShape, Known
<1> QED BY <1>2, <1>3, <1>4, <1>5
        DEF requested, pending_response, decided, failed, cancelled, sliceVars

(* The queue lists each card once, with every card that awaits an answer   *)
(* and none that was decided, for any interleaving of clicks, replies,     *)
(* notifications, replays and losses (store/approvals.rs 30-83).           *)
THEOREM SliceCorrect == Spec => []SliceShape
<1> USE ApprovalsAssumption, DecisionsOK
<1>1. Init => SliceShape
  BY DEF Init, SliceShape, Queued, Known, Card
<1>2. TypeOK /\ SliceShape /\ [Next]_vars => SliceShape'
  <2> SUFFICES ASSUME TypeOK, SliceShape, [Next]_vars PROVE SliceShape'
    OBVIOUS
  <2>1. CASE UNCHANGED sliceVars
    BY <2>1 DEF sliceVars, SliceShape, Queued, Known
  <2>2. CASE FoldAnswer
    <3>1. PICK i \in DOMAIN posted :
            posted[i].kind = "ui" /\ pending_response(posted[i].a, posted[i].d)
      BY <2>2 DEF FoldAnswer
    <3>2. posted[i] \in Ui \cup Async
      BY ElementOfSeq, LenProperties DEF TypeOK
    <3>3. posted[i].a \in Approval /\ posted[i].d \in Button
      BY <3>2 DEF Ui, Async
    <3> QED BY <3>1, <3>3, SliceOpsShape DEF TypeOK
  <2>3. CASE FoldReply
    <3> DEFINE r == Head(posted)
    <3>1. r \in Ui \cup Async
      BY <2>3, QueueTail DEF FoldReply, TypeOK
    <3>2. r \in Async
      BY <2>3, <3>1 DEF FoldReply, Ui
    <3>3. r.a \in Approval /\ r.d \in MaybeDecision /\ Recorded(r) \in MaybeDecision
      BY <3>2 DEF Async, Recorded
    <3>4. decided(r.a, r.d) \/ decided(r.a, Recorded(r)) \/ failed(r.a)
      BY <2>3, <3>2 DEF FoldReply, Outcome, Async
    <3> HIDE DEF r
    <3> QED BY <3>3, <3>4, SliceOpsShape DEF TypeOK
  <2>4. CASE FoldNotice
    <3> DEFINE e == Head(events)
    <3>1. e \in Notice
      BY <2>4, QueueTail DEF FoldNotice, TypeOK
    <3>2. e.a \in Approval /\ e.d \in MaybeDecision
          /\ e.kind \in {"requested", "decided", "cancelled"}
      BY <3>1 DEF Notice
    <3>3. requested(e.a) \/ decided(e.a, e.d) \/ cancelled(e.a)
      BY <2>4, <3>2 DEF FoldNotice
    <3> HIDE DEF e
    <3> QED BY <3>2, <3>3, SliceOpsShape DEF TypeOK
  <2>5. CASE Click \/ Draw \/ HandleClick \/ Agent \/ Server
    BY <2>1, <2>5 DEF Click, Draw, HandleClick, Agent, Deliver, TransportEnds, Replace,
       Server, Raise, DecideElsewhere, Cancel, Replay, Reach, Lose
  <2> QED BY <2>1, <2>2, <2>3, <2>4, <2>5 DEF Next, UiThread, vars
<1> QED BY <1>1, <1>2, TypeCorrect, PTL DEF Spec

(* Whatever is on its way to the UI thread says what the server recorded.  *)
Says(known, r) ==
  /\ r.outcome = "accepted" => r.d \in Decision /\ known[r.a] = r.d
  /\ r.outcome = "not_pending" => r.rec \in Decision /\ known[r.a] = r.rec

CardsTrue == \A a \in Approval :
  state[a].tag = "decided" => state[a].d \in Decision /\ server[a] = state[a].d
NoticesTrue == \A i \in DOMAIN events :
  events[i].kind = "decided" =>
    events[i].d \in Decision /\ server[events[i].a] = events[i].d
RepliesTrue == \A r \in replies : Says(server, r)
PostedTrue == \A i \in DOMAIN posted : posted[i].kind = "async" => Says(server, posted[i])

Truth == CardsTrue /\ NoticesTrue /\ RepliesTrue /\ PostedTrue

LEMMA QueuesTyped ==
  ASSUME TypeOK
  PROVE  /\ \A i \in DOMAIN events : events[i] \in Notice /\ events[i].a \in Approval
         /\ \A i \in DOMAIN posted : posted[i] \in Ui \cup Async /\ posted[i].a \in Approval
<1>1. \A i \in DOMAIN events : events[i] \in Notice
  BY ElementOfSeq, LenProperties DEF TypeOK
<1>2. \A i \in DOMAIN posted : posted[i] \in Ui \cup Async
  BY ElementOfSeq, LenProperties DEF TypeOK
<1>3. \A e \in Notice : e.a \in Approval
  BY DEF Notice
<1>4. \A m \in Ui \cup Async : m.a \in Approval
  BY DEF Ui, Async
<1> QED BY <1>1, <1>2, <1>3, <1>4

(* The server never changes a decision. *)
Kept == \A a \in Approval : server[a] \in Decision => server'[a] = server[a]

LEMMA DecisionsAreKept == ASSUME TypeOK, [Next]_vars PROVE Kept
<1> USE ApprovalsAssumption
<1>1. CASE UNCHANGED server
  BY <1>1 DEF Kept
<1>2. CASE Raise \/ DecideElsewhere \/ Cancel
  BY <1>2 DEF Raise, DecideElsewhere, Cancel, Kept, TypeOK
<1>3. CASE Reach
  <2>1. PICK outcome \in Outcome, rec \in MaybeDecision : Serve(Head(wire), rec, outcome)
    BY <1>3 DEF Reach
  <2> QED BY <2>1 DEF Serve, Kept, TypeOK
<1> QED BY <1>1, <1>2, <1>3 DEF Next, Click, UiThread, Draw, HandleClick, FoldAnswer,
           FoldReply, FoldNotice, Agent, Deliver, TransportEnds, Replace, Server,
           Replay, Lose, vars

(* So what was true of a card, a notification or a reply stays true. *)
LEMMA SaysIsKept ==
  ASSUME Kept, NEW r, r.a \in Approval, Says(server, r)
  PROVE  Says(server', r)
BY DEF Says, Kept

LEMMA KeptCards ==
  ASSUME Kept, CardsTrue, UNCHANGED state PROVE CardsTrue'
BY DEF CardsTrue, Kept

LEMMA KeptNotices ==
  ASSUME TypeOK, Kept, NoticesTrue, UNCHANGED events PROVE NoticesTrue'
<1>1. \A i \in DOMAIN events : events[i].a \in Approval
  BY QueuesTyped
<1> QED BY <1>1 DEF NoticesTrue, Kept

LEMMA KeptReplies ==
  ASSUME TypeOK, Kept, RepliesTrue, replies' \subseteq replies PROVE RepliesTrue'
<1> SUFFICES ASSUME NEW r \in replies PROVE Says(server', r)
  BY DEF RepliesTrue
<1> QED BY SaysIsKept DEF RepliesTrue, TypeOK, Reply

LEMMA KeptPosted ==
  ASSUME TypeOK, Kept, PostedTrue, NEW i \in DOMAIN posted, posted[i].kind = "async"
  PROVE  Says(server', posted[i])
<1>1. posted[i].a \in Approval /\ Says(server, posted[i])
  BY QueuesTyped DEF PostedTrue
<1> QED BY <1>1, SaysIsKept

(* A reply posted behind a true queue must be true itself. *)
LEMMA PostTrue ==
  ASSUME TypeOK, Kept, PostedTrue,
         NEW q \in Seq(Ui \cup Async),
         \A k \in DOMAIN q : \E i \in DOMAIN posted : q[k] = posted[i],
         NEW r, r.kind = "async" => Says(server', r), posted' = Append(q, r), r \in Ui \cup Async
  PROVE  PostedTrue'
<1> SUFFICES ASSUME NEW k \in DOMAIN posted', posted'[k].kind = "async"
             PROVE  Says(server', posted'[k])
  BY DEF PostedTrue
<1>1. CASE k \in DOMAIN q /\ posted'[k] = q[k]
  BY <1>1, KeptPosted
<1>2. CASE posted'[k] = r
  BY <1>2
<1> QED BY <1>1, <1>2, QueueAppend

(* What is on its way to the UI thread and what the cards show is true,   *)
(* for any order of clicks, replies and notifications, and any loss.       *)
LEMMA TruthHolds == ASSUME Decision = Button PROVE Spec => []Truth
<1> USE ApprovalsAssumption, DecisionsOK
<1>1. Init => Truth
  BY DEF Init, Truth, CardsTrue, NoticesTrue, RepliesTrue, PostedTrue, Card
<1>2. TypeOK /\ Truth /\ [Next]_vars => Truth'
  <2> SUFFICES ASSUME TypeOK, Truth, [Next]_vars PROVE Truth'
    OBVIOUS
  <2>0. Kept /\ CardsTrue /\ NoticesTrue /\ RepliesTrue /\ PostedTrue
    BY DecisionsAreKept DEF Truth
  <2>1. ASSUME UNCHANGED posted PROVE PostedTrue'
    BY <2>0, <2>1, KeptPosted DEF PostedTrue
  <2>2. ASSUME NEW a \in Approval, NEW d \in Decision, UNCHANGED server,
               decided(a, d), server[a] = d
        PROVE  CardsTrue'
    BY <2>0, <2>2 DEF decided, CardsTrue, Card, sliceVars, TypeOK
  <2>3. ASSUME NEW a \in Approval, NEW d \in MaybeDecision, UNCHANGED server,
               requested(a) \/ pending_response(a, d) \/ failed(a) \/ cancelled(a)
        PROVE  CardsTrue'
    BY <2>0, <2>3 DEF requested, pending_response, failed, cancelled, CardsTrue, Card,
       sliceVars, TypeOK
  <2>4. ASSUME NEW kind \in {"requested", "decided", "cancelled"}, NEW a \in Approval,
               NEW d \in MaybeDecision, Notify(kind, a, d),
               kind = "decided" => d \in Decision /\ server'[a] = d
        PROVE  NoticesTrue'
    <3>1. [kind |-> kind, a |-> a, d |-> d] \in Notice
      BY DEF Notice
    <3>2. \A i \in DOMAIN events : events[i].a \in Approval
      BY QueuesTyped
    <3>3. \A k \in DOMAIN events' : \/ k \in DOMAIN events /\ events'[k] = events[k]
                                    \/ events'[k] = [kind |-> kind, a |-> a, d |-> d]
      BY <2>4, <3>1, QueueAppend DEF Notify, TypeOK
    <3> QED BY <2>0, <2>4, <3>2, <3>3 DEF NoticesTrue, Kept
  <2>5. CASE Click \/ Draw \/ UNCHANGED vars
    BY <2>0, <2>1, <2>5, KeptCards, KeptNotices, KeptReplies
       DEF Click, Draw, vars, sliceVars, uiVars, agentVars, Truth
  <2>6. CASE HandleClick
    <3>1. PostedTrue'
      <4>1. CASE UNCHANGED posted
        BY <2>1, <4>1
      <4>2. CASE \E a \in CardAt(click.i) :
                   posted' = Append(posted, [kind |-> "ui", n |-> clicks, a |-> a, d |-> click.d])
        <5>1. PICK a \in CardAt(click.i) :
                posted' = Append(posted, [kind |-> "ui", n |-> clicks, a |-> a, d |-> click.d])
          BY <4>2
        <5>2. a \in Approval
          BY ElementOfSeq, LenProperties DEF CardAt, Below, TypeOK
        <5>3. [kind |-> "ui", n |-> clicks, a |-> a, d |-> click.d] \in Ui \cup Async
          BY <2>6, <5>2 DEF Ui, HandleClick, TypeOK
        <5> QED BY <2>0, <5>1, <5>3, PostTrue DEF TypeOK
      <4> QED BY <2>6, <4>1, <4>2 DEF HandleClick
    <3> QED BY <2>0, <2>6, <3>1, KeptCards, KeptNotices, KeptReplies
            DEF HandleClick, sliceVars, agentVars, Truth
  <2>7. CASE FoldAnswer
    <3>1. PICK i \in DOMAIN posted :
            /\ posted[i].kind = "ui"
            /\ pending_response(posted[i].a, posted[i].d)
            /\ Respond(RemoveAt(posted, i), posted[i])
      BY <2>7 DEF FoldAnswer
    <3> DEFINE q == RemoveAt(posted, i)
    <3>2. posted[i] \in Ui \cup Async
      BY ElementOfSeq, LenProperties DEF TypeOK
    <3>3. posted[i].a \in Approval /\ posted[i].d \in Button
      BY <3>2 DEF Ui, Async
    <3>4. q \in Seq(Ui \cup Async) /\ \A k \in DOMAIN q : \E j \in DOMAIN posted : q[k] = posted[j]
      <4>1. posted \in Seq(Ui \cup Async)
        BY DEF TypeOK
      <4>2. /\ q \in Seq(Ui \cup Async)
            /\ \A k \in DOMAIN q :
                 /\ k < i => k \in DOMAIN posted /\ q[k] = posted[k]
                 /\ k >= i => k + 1 \in DOMAIN posted /\ q[k] = posted[k + 1]
        BY <4>1, RemoveAtOK
      <4>3. DOMAIN q \subseteq Int /\ i \in Int
        BY <4>1, <4>2, LenProperties
      <4> QED BY <4>2, <4>3
    <3>5. PostedTrue'
      <4>1. CASE posted' = q
        BY <2>0, <3>4, <4>1, KeptPosted DEF PostedTrue
      <4>2. CASE posted' = PostReply(q, posted[i].a, posted[i].d, "error", Undecided)
        <5> DEFINE r == [kind |-> "async", a |-> posted[i].a, d |-> posted[i].d,
                         outcome |-> "error", rec |-> Undecided]
        <5>1. posted' = Append(q, r)
          BY <4>2 DEF PostReply
        <5>2. r \in Ui \cup Async /\ Says(server', r)
          BY <3>3 DEF Async, Outcome, Says
        <5> HIDE DEF r, q
        <5> QED BY <2>0, <3>4, <5>1, <5>2, PostTrue
      <4> QED BY <3>1, <4>1, <4>2 DEF Respond
    <3>6. CardsTrue'
      BY <2>3, <2>7, <3>1, <3>3 DEF FoldAnswer
    <3> QED BY <2>0, <2>7, <3>5, <3>6, KeptNotices, KeptReplies DEF FoldAnswer, Truth
  <2>8. CASE FoldReply
    <3> DEFINE r == Head(posted)
    <3>1. r \in Ui \cup Async /\ 1 \in DOMAIN posted /\ r = posted[1]
          /\ \A k \in DOMAIN Tail(posted) :
               k + 1 \in DOMAIN posted /\ Tail(posted)[k] = posted[k + 1]
      BY <2>8, QueueTail DEF FoldReply, TypeOK
    <3>2. r \in Async /\ Says(server, r)
      BY <2>0, <2>8, <3>1 DEF FoldReply, Ui, PostedTrue
    <3>3. r.a \in Approval /\ r.d \in Button /\ r.outcome \in Outcome
      BY <3>2 DEF Async
    <3>4. \/ decided(r.a, r.d) /\ server[r.a] = r.d
          \/ decided(r.a, Recorded(r)) /\ Recorded(r) \in Decision /\ server[r.a] = Recorded(r)
          \/ failed(r.a)
      BY <2>8, <3>2, <3>3 DEF FoldReply, Outcome, Says, Recorded
    <3>5. UNCHANGED server
      BY <2>8 DEF FoldReply
    <3> HIDE DEF r
    <3>6. CardsTrue'
      BY <2>2, <2>3, <3>3, <3>4, <3>5
    <3>7. PostedTrue'
      BY <2>0, <2>8, <3>1, KeptPosted DEF FoldReply, PostedTrue
    <3> QED BY <2>0, <2>8, <3>6, <3>7, KeptNotices, KeptReplies DEF FoldReply, agentVars, Truth
  <2>9. CASE FoldNotice
    <3> DEFINE e == Head(events)
    <3>1. e \in Notice /\ 1 \in DOMAIN events /\ e = events[1]
          /\ \A k \in DOMAIN Tail(events) :
               k + 1 \in DOMAIN events /\ Tail(events)[k] = events[k + 1]
      BY <2>9, QueueTail DEF FoldNotice, TypeOK
    <3>2. e.a \in Approval /\ e.d \in MaybeDecision
          /\ e.kind \in {"requested", "decided", "cancelled"}
      BY <3>1 DEF Notice
    <3>3. \/ requested(e.a) \/ cancelled(e.a)
          \/ decided(e.a, e.d) /\ e.d \in Decision /\ server[e.a] = e.d
      BY <2>0, <2>9, <3>1, <3>2 DEF FoldNotice, NoticesTrue
    <3>4. UNCHANGED server
      BY <2>9 DEF FoldNotice
    <3> HIDE DEF e
    <3>5. CardsTrue'
      BY <2>2, <2>3, <3>2, <3>3, <3>4
    <3>6. NoticesTrue'
      BY <2>0, <2>9, <3>1 DEF FoldNotice, NoticesTrue
    <3> QED BY <2>0, <2>1, <2>9, <3>5, <3>6, KeptReplies DEF FoldNotice, uiVars, agentVars, Truth
  <2>10. CASE Deliver
    <3>1. PICK r \in replies : /\ replies' = replies \ {r}
                               /\ posted' = PostReply(posted, r.a, r.d, r.outcome, r.rec)
      BY <2>10 DEF Deliver
    <3> DEFINE m == [kind |-> "async", a |-> r.a, d |-> r.d, outcome |-> r.outcome, rec |-> r.rec]
    <3>2. r \in Reply /\ Says(server, r) /\ UNCHANGED server
      BY <2>0, <2>10 DEF TypeOK, RepliesTrue, Deliver
    <3>3. m \in Ui \cup Async /\ Says(server', m)
      BY <3>2 DEF Reply, Async, Says
    <3>4. posted' = Append(posted, m)
      BY <3>1 DEF PostReply
    <3> HIDE DEF m
    <3>5. PostedTrue'
      BY <2>0, <3>3, <3>4, PostTrue DEF TypeOK
    <3> QED BY <2>0, <2>10, <3>1, <3>5, KeptCards, KeptNotices, KeptReplies
            DEF Deliver, sliceVars, Truth
  <2>11. CASE TransportEnds
    <3>1. \A r : Says(server', Dropped(r))
      BY DEF Says, Dropped
    <3>2. RepliesTrue'
      <4>1. \A r \in replies : Says(server', r)
        BY <2>0, SaysIsKept DEF RepliesTrue, TypeOK, Reply
      <4> QED BY <2>11, <3>1, <4>1 DEF TransportEnds, RepliesTrue
    <3> QED BY <2>0, <2>1, <2>11, <3>2, KeptCards, KeptNotices
            DEF TransportEnds, sliceVars, uiVars, Truth
  <2>12. CASE Replace
    <3>1. NoticesTrue' /\ replies' \subseteq replies
      BY <2>12 DEF Replace, NoticesTrue
    <3> QED BY <2>0, <2>1, <2>12, <3>1, KeptCards, KeptReplies
            DEF Replace, sliceVars, uiVars, Truth
  <2>13. CASE Raise \/ DecideElsewhere \/ Cancel \/ Replay
    <3>1. NoticesTrue'
      <4>1. CASE Raise
        BY <2>4, <4>1 DEF Raise
      <4>2. CASE DecideElsewhere
        BY <2>4, <4>2 DEF DecideElsewhere, TypeOK
      <4>3. CASE Cancel
        BY <2>4, <4>3 DEF Cancel
      <4>4. CASE Replay
        BY <2>4, <4>4 DEF Replay
      <4> QED BY <2>13, <4>1, <4>2, <4>3, <4>4
    <3> QED BY <2>0, <2>1, <2>13, <3>1, KeptCards, KeptReplies
            DEF Raise, DecideElsewhere, Cancel, Replay, sliceVars, uiVars, agentVars, Truth
  <2>14. CASE Reach
    <3> DEFINE w == Head(wire)
    <3>1. w \in Answer
      BY <2>14, QueueTail DEF Reach, TypeOK
    <3>2. PICK outcome \in Outcome, rec \in MaybeDecision :
            /\ Serve(w, rec, outcome)
            /\ \/ replies' = replies \cup {[n |-> w.n, a |-> w.a, d |-> w.d,
                                            outcome |-> outcome, rec |-> rec]}
               \/ UNCHANGED replies
      BY <2>14 DEF Reach
    <3>3. w.a \in Approval /\ w.d \in Button
      BY <3>1 DEF Answer
    <3> HIDE DEF w
    <3>4. Says(server', [n |-> w.n, a |-> w.a, d |-> w.d, outcome |-> outcome, rec |-> rec])
      BY <3>2, <3>3 DEF Serve, Says, TypeOK
    <3>5. RepliesTrue'
      <4>1. \A r \in replies : Says(server', r)
        BY <2>0, SaysIsKept DEF RepliesTrue, TypeOK, Reply
      <4> QED BY <3>2, <3>4, <4>1 DEF RepliesTrue
    <3> QED BY <2>0, <2>1, <2>14, <3>5, KeptCards, KeptNotices
            DEF Reach, sliceVars, uiVars, Truth
  <2>15. CASE Lose
    BY <2>0, <2>1, <2>15, KeptCards, KeptNotices, KeptReplies
       DEF Lose, sliceVars, uiVars, Truth
  <2> QED BY <2>5, <2>6, <2>7, <2>8, <2>9, <2>10, <2>11, <2>12, <2>13, <2>14, <2>15
          DEF Next, UiThread, Agent, Server
<1> QED BY <1>1, <1>2, TypeCorrect, PTL DEF Spec

(* A card never shows a decision that the server did not record, provided  *)
(* that the client can name every decision the server records              *)
(* (main.rs 5494-5533, state.rs 342-382).                                  *)
THEOREM DecisionsAgree == ASSUME Decision = Button PROVE Spec => []DecidedAgrees
<1>1. Truth => DecidedAgrees
  BY DEF Truth, CardsTrue, DecidedAgrees
<1> QED BY <1>1, TruthHolds, PTL

(* The operations of the slice settle a card for good: none of them puts   *)
(* one that left the queue back, or forgets it.                            *)
LEMMA SliceOpsSettle ==
  ASSUME state \in [Approval -> CardState], order \in Seq(Approval),
         NEW a \in Approval, NEW d \in MaybeDecision,
         \/ requested(a) \/ pending_response(a, d) \/ decided(a, d)
         \/ failed(a) \/ cancelled(a),
         NEW x \in Approval, Known(x)
  PROVE  Known(x)' /\ (~Queued(x) => ~Queued(x)')
<1>1. CASE UNCHANGED sliceVars
  BY <1>1 DEF sliceVars, Queued, Known
<1>2. CASE requested(a) /\ ~Known(a)
  <2>1. order' = Append(order, a) /\ state' = [state EXCEPT ![a] = Card("awaiting", Undecided)]
        /\ x # a
    BY <1>2 DEF requested
  <2>2. \A k \in DOMAIN order' : (k \in DOMAIN order /\ order'[k] = order[k]) \/ order'[k] = a
    BY <2>1, QueueAppend
  <2> QED BY <2>1, <2>2 DEF Queued, Known
<1>3. CASE (pending_response(a, d) \/ failed(a)) /\ Known(a)
  BY <1>3 DEF pending_response, failed, Card, Queued, Known
<1>4. CASE (decided(a, d) \/ cancelled(a)) /\ Known(a)
  <2>1. order' = Retain(order, a)
    BY <1>4 DEF decided, cancelled
  <2>2. \A k \in DOMAIN order' : \E j \in DOMAIN order : order'[k] = order[j]
    BY <2>1, RetainOK
  <2>3. Known(x)'
    BY <1>4 DEF decided, cancelled, Card, Known
  <2> QED BY <2>2, <2>3 DEF Queued
<1> QED BY <1>1, <1>2, <1>3, <1>4
        DEF requested, pending_response, decided, failed, cancelled, sliceVars

(* What a step of the UI thread folds, with its types.                     *)
LEMMA AnswerFolded ==
  ASSUME TypeOK, FoldAnswer
  PROVE  \E i \in DOMAIN posted :
           /\ posted[i].kind = "ui"
           /\ posted[i].a \in Approval /\ posted[i].d \in Button /\ posted[i].n \in 1..MaxClicks
           /\ pending_response(posted[i].a, posted[i].d)
           /\ Respond(RemoveAt(posted, i), posted[i])
<1>1. PICK i \in DOMAIN posted :
        /\ posted[i].kind = "ui"
        /\ pending_response(posted[i].a, posted[i].d)
        /\ Respond(RemoveAt(posted, i), posted[i])
  BY DEF FoldAnswer
<1>2. posted[i] \in Ui \cup Async
  BY ElementOfSeq, LenProperties DEF TypeOK
<1>3. posted[i].a \in Approval /\ posted[i].d \in Button /\ posted[i].n \in 1..MaxClicks
  BY <1>1, <1>2 DEF Ui, Async
<1> QED BY <1>1, <1>3

LEMMA ReplyFolded ==
  ASSUME TypeOK, FoldReply
  PROVE  LET r == Head(posted) IN
           /\ r \in Async /\ r.a \in Approval /\ r.d \in MaybeDecision
           /\ Recorded(r) \in MaybeDecision
           /\ \/ r.outcome = "accepted" /\ decided(r.a, r.d)
              \/ r.outcome = "not_pending" /\ decided(r.a, Recorded(r))
              \/ r.outcome = "error" /\ failed(r.a)
           /\ posted \in Seq(Ui \cup Async) /\ posted # <<>> /\ posted' = Tail(posted)
<1> DEFINE r == Head(posted)
<1>1. r \in Ui \cup Async
  BY QueueTail DEF FoldReply, TypeOK
<1>2. r \in Async
  BY <1>1 DEF FoldReply, Ui
<1>3. r.a \in Approval /\ r.d \in MaybeDecision /\ Recorded(r) \in MaybeDecision
      /\ r.outcome \in Outcome
  BY <1>2, DecisionsOK DEF Async, Recorded
<1>4. \/ r.outcome = "accepted" /\ decided(r.a, r.d)
      \/ r.outcome = "not_pending" /\ decided(r.a, Recorded(r))
      \/ r.outcome = "error" /\ failed(r.a)
  BY <1>3 DEF FoldReply, Outcome
<1>5. posted \in Seq(Ui \cup Async) /\ posted # <<>> /\ posted' = Tail(posted)
  BY DEF FoldReply, TypeOK
<1> QED BY <1>2, <1>3, <1>4, <1>5

LEMMA NoticeFolded ==
  ASSUME TypeOK, FoldNotice
  PROVE  LET e == Head(events) IN
           /\ e \in Notice /\ e.a \in Approval /\ e.d \in MaybeDecision
           /\ \/ e.kind = "requested" /\ requested(e.a)
              \/ e.kind = "decided" /\ decided(e.a, e.d)
              \/ e.kind = "cancelled" /\ cancelled(e.a)
           /\ events \in Seq(Notice) /\ events # <<>> /\ events' = Tail(events)
<1> DEFINE e == Head(events)
<1>1. e \in Notice /\ events \in Seq(Notice)
  BY QueueTail DEF FoldNotice, TypeOK
<1>2. e.a \in Approval /\ e.d \in MaybeDecision /\ e.kind \in {"requested", "decided", "cancelled"}
  BY <1>1 DEF Notice
<1>3. \/ e.kind = "requested" /\ requested(e.a)
      \/ e.kind = "decided" /\ decided(e.a, e.d)
      \/ e.kind = "cancelled" /\ cancelled(e.a)
  BY <1>2 DEF FoldNotice
<1> QED BY <1>1, <1>2, <1>3 DEF FoldNotice

(* A card that was settled stays out of the queue, whatever is replayed    *)
(* and in whatever order replies and notifications come                    *)
(* (store/approvals.rs 41-50).                                             *)
THEOREM SettledCardsStay == Spec => SettledStays
<1> USE DecisionsOK
<1> DEFINE Stays == \A a \in Approval : Known(a) /\ ~Queued(a) => ~Queued(a)' /\ Known(a)'
<1>1. TypeOK /\ [Next]_vars => Stays
  <2> SUFFICES ASSUME TypeOK, [Next]_vars, NEW x \in Approval, Known(x), ~Queued(x)
               PROVE  ~Queued(x)' /\ Known(x)'
    OBVIOUS
  <2>0. state \in [Approval -> CardState] /\ order \in Seq(Approval)
    BY DEF TypeOK
  <2>1. CASE UNCHANGED sliceVars
    BY <2>1 DEF sliceVars, Queued, Known
  <2>2. CASE FoldAnswer
    <3>1. PICK i \in DOMAIN posted :
            /\ posted[i].a \in Approval /\ posted[i].d \in Button
            /\ pending_response(posted[i].a, posted[i].d)
      BY <2>2, AnswerFolded
    <3> QED BY <2>0, <3>1, SliceOpsSettle
  <2>3. CASE FoldReply
    <3> DEFINE r == Head(posted)
    <3>1. /\ r.a \in Approval /\ r.d \in MaybeDecision /\ Recorded(r) \in MaybeDecision
          /\ decided(r.a, r.d) \/ decided(r.a, Recorded(r)) \/ failed(r.a)
      BY <2>3, ReplyFolded
    <3> HIDE DEF r
    <3> QED BY <2>0, <3>1, SliceOpsSettle
  <2>4. CASE FoldNotice
    <3> DEFINE e == Head(events)
    <3>1. /\ e.a \in Approval /\ e.d \in MaybeDecision
          /\ requested(e.a) \/ decided(e.a, e.d) \/ cancelled(e.a)
      BY <2>4, NoticeFolded
    <3> HIDE DEF e
    <3> QED BY <2>0, <3>1, SliceOpsSettle
  <2>5. CASE Click \/ Draw \/ HandleClick \/ Agent \/ Server
    BY <2>1, <2>5 DEF Click, Draw, HandleClick, Agent, Deliver, TransportEnds, Replace,
       Server, Raise, DecideElsewhere, Cancel, Replay, Reach, Lose
  <2> QED BY <2>1, <2>2, <2>3, <2>4, <2>5 DEF Next, UiThread, vars
<1>2. TypeOK /\ [Next]_vars => [Stays]_vars
  BY <1>1
<1> QED BY <1>2, TypeCorrect, PTL DEF Spec, SettledStays

(* An element other than the i-th is still there when the i-th is gone.    *)
LEMMA RemoveAtKeeps ==
  ASSUME NEW S, NEW s \in Seq(S), NEW i \in DOMAIN s
  PROVE  /\ \A j \in DOMAIN s : j # i =>
              \E k \in DOMAIN RemoveAt(s, i) : RemoveAt(s, i)[k] = s[j]
         /\ \A k \in DOMAIN RemoveAt(s, i) : \E j \in DOMAIN s : RemoveAt(s, i)[k] = s[j]
<1> DEFINE t == RemoveAt(s, i)
<1>1. /\ t \in Seq(S) /\ Len(t) = Len(s) - 1
      /\ \A k \in DOMAIN t : /\ k < i => k \in DOMAIN s /\ t[k] = s[k]
                             /\ k >= i => k + 1 \in DOMAIN s /\ t[k] = s[k + 1]
  BY RemoveAtOK
<1>2. DOMAIN s = 1..Len(s) /\ DOMAIN t = 1..Len(t) /\ Len(s) \in Nat
  BY <1>1, LenProperties
<1> HIDE DEF t
<1>3. ASSUME NEW j \in DOMAIN s, j # i PROVE \E k \in DOMAIN t : t[k] = s[j]
  <2>1. CASE j < i
    <3>1. j \in DOMAIN t
      BY <1>1, <1>2, <2>1
    <3> QED BY <1>1, <2>1, <3>1
  <2>2. CASE j > i
    <3>1. j - 1 \in DOMAIN t /\ j - 1 >= i /\ (j - 1) + 1 = j
      BY <1>1, <1>2, <2>2
    <3> QED BY <1>1, <3>1
  <2> QED BY <1>2, <1>3, <2>1, <2>2
<1>4. ASSUME NEW k \in DOMAIN t PROVE \E j \in DOMAIN s : t[k] = s[j]
  BY <1>1, <1>2
<1> QED BY <1>3, <1>4 DEF t

(* An element of a queue is at its head or in its tail.                    *)
LEMMA HeadOrTail ==
  ASSUME NEW S, NEW q \in Seq(S), NEW j \in DOMAIN q
  PROVE  q # <<>> /\ (q[j] = Head(q) \/ \E k \in DOMAIN Tail(q) : Tail(q)[k] = q[j])
<1>1. Len(q) \in Nat /\ DOMAIN q = 1..Len(q) /\ j \in 1..Len(q)
  BY LenProperties
<1>2. q # <<>>
  BY <1>1, EmptySeq
<1>3. Head(q) = q[1] /\ Tail(q) \in Seq(S) /\ Len(Tail(q)) = Len(q) - 1
      /\ \A k \in 1..Len(Tail(q)) : Tail(q)[k] = q[k + 1]
  BY <1>1, <1>2, HeadTailProperties
<1>4. CASE j > 1
  <2>1. j - 1 \in 1..Len(Tail(q)) /\ (j - 1) + 1 = j
    BY <1>1, <1>3, <1>4
  <2>2. DOMAIN Tail(q) = 1..Len(Tail(q))
    BY <1>3, LenProperties
  <2> QED BY <1>2, <1>3, <2>1, <2>2
<1> QED BY <1>1, <1>2, <1>3, <1>4

(* An answer under way stays under way until its reply is folded.          *)
LEMMA AnswersStay ==
  ASSUME TypeOK, [Next]_vars, ~Replace, NEW a \in Approval, InFlight(a)
  PROVE  InFlight(a)' \/ (FoldReply /\ Head(posted).a = a)
<1>0. /\ posted \in Seq(Ui \cup Async) /\ wire \in Seq(Answer)
      /\ replies \subseteq Reply /\ lost \subseteq Answer
  BY DEF TypeOK
<1>1. CASE UNCHANGED <<posted, wire, replies, lost>>
  BY <1>1 DEF InFlight, Unanswered
<1>2. CASE HandleClick
  <2>1. UNCHANGED <<wire, replies, lost>> /\ click \in [i : Nat \ {0}, a : Approval, d : Button]
        /\ clicks \in 1..MaxClicks
    BY <1>2 DEF HandleClick, agentVars, TypeOK
  <2>2. CASE \E b \in CardAt(click.i) :
               posted' = Append(posted, [kind |-> "ui", n |-> clicks, a |-> b, d |-> click.d])
    <3>1. PICK b \in CardAt(click.i) :
            posted' = Append(posted, [kind |-> "ui", n |-> clicks, a |-> b, d |-> click.d])
      BY <2>2
    <3>2. b \in Approval
      BY ElementOfSeq, LenProperties DEF CardAt, Below, TypeOK
    <3>3. [kind |-> "ui", n |-> clicks, a |-> b, d |-> click.d] \in Ui \cup Async
      BY <2>1, <3>2 DEF Ui
    <3>4. \A k \in DOMAIN posted : k \in DOMAIN posted' /\ posted'[k] = posted[k]
      BY <1>0, <3>1, <3>3, QueueAppend
    <3> QED BY <2>1, <3>4 DEF InFlight, Unanswered
  <2>3. CASE UNCHANGED posted
    BY <2>1, <2>3 DEF InFlight, Unanswered
  <2> QED BY <1>2, <2>2, <2>3 DEF HandleClick
<1>3. CASE FoldAnswer
  <2>1. PICK i \in DOMAIN posted :
          /\ posted[i].a \in Approval /\ posted[i].d \in Button /\ posted[i].n \in 1..MaxClicks
          /\ Respond(RemoveAt(posted, i), posted[i])
    BY <1>3, AnswerFolded
  <2> DEFINE q == RemoveAt(posted, i)
             w == [n |-> posted[i].n, a |-> posted[i].a, d |-> posted[i].d]
             r == [kind |-> "async", a |-> posted[i].a, d |-> posted[i].d,
                   outcome |-> "error", rec |-> Undecided]
  <2>2. UNCHANGED <<replies, lost>>
    BY <1>3 DEF FoldAnswer
  <2>3. /\ q \in Seq(Ui \cup Async)
        /\ \A j \in DOMAIN posted : j # i => \E k \in DOMAIN q : q[k] = posted[j]
    BY <1>0, RemoveAtOK, RemoveAtKeeps
  <2>4. w \in Answer /\ w.a = posted[i].a /\ r \in Ui \cup Async /\ r.a = posted[i].a
    BY <2>1, DecisionsOK DEF Answer, Async, Outcome
  <2>5. \/ wire' = Append(wire, w) /\ posted' = q
        \/ wire' = wire /\ posted' = Append(q, r)
    BY <2>1 DEF Respond, PostReply
  <2> HIDE DEF q, w, r
  <2>6. \A k \in DOMAIN wire : k \in DOMAIN wire' /\ wire'[k] = wire[k]
    BY <1>0, <2>4, <2>5, QueueAppend
  <2>7. \A k \in DOMAIN q : k \in DOMAIN posted' /\ posted'[k] = q[k]
    BY <2>3, <2>4, <2>5, QueueAppend
  <2>8. \/ \E k \in DOMAIN wire' : wire'[k] = w
        \/ \E k \in DOMAIN posted' : posted'[k] = r
    BY <1>0, <2>3, <2>4, <2>5, QueueAppend
  <2>9. CASE a = posted[i].a
    BY <2>4, <2>8, <2>9 DEF InFlight, Unanswered
  <2>10. CASE a # posted[i].a
    BY <2>2, <2>3, <2>6, <2>7, <2>10 DEF InFlight, Unanswered
  <2> QED BY <2>9, <2>10
<1>4. CASE FoldReply /\ Head(posted).a # a
  <2>1. UNCHANGED <<wire, replies, lost>>
    BY <1>4 DEF FoldReply, agentVars
  <2>2. \A j \in DOMAIN posted :
          posted[j] = Head(posted) \/ \E k \in DOMAIN posted' : posted'[k] = posted[j]
    BY <1>0, <1>4, HeadOrTail DEF FoldReply
  <2> QED BY <1>4, <2>1, <2>2 DEF InFlight, Unanswered
<1>5. CASE Deliver
  <2>1. PICK r \in replies : /\ replies' = replies \ {r}
                             /\ posted' = PostReply(posted, r.a, r.d, r.outcome, r.rec)
    BY <1>5 DEF Deliver
  <2> DEFINE m == [kind |-> "async", a |-> r.a, d |-> r.d, outcome |-> r.outcome, rec |-> r.rec]
  <2>2. m \in Ui \cup Async /\ m.a = r.a /\ posted' = Append(posted, m)
    BY <1>0, <2>1 DEF Reply, Async, PostReply
  <2> HIDE DEF m
  <2>3. /\ \A k \in DOMAIN posted : k \in DOMAIN posted' /\ posted'[k] = posted[k]
        /\ \E k \in DOMAIN posted' : posted'[k] = m
    BY <1>0, <2>2, QueueAppend
  <2>4. UNCHANGED <<wire, lost>>
    BY <1>5 DEF Deliver
  <2> QED BY <2>1, <2>2, <2>3, <2>4 DEF InFlight, Unanswered
<1>6. CASE TransportEnds
  <2>1. UNCHANGED posted /\ replies' = replies \cup {Dropped(r) : r \in Unanswered}
    BY <1>6 DEF TransportEnds, uiVars
  <2>2. \A r : Dropped(r).a = r.a
    BY DEF Dropped
  <2>3. \A r \in Unanswered : Dropped(r) \in replies'
    BY <2>1
  <2> QED BY <2>1, <2>2, <2>3 DEF InFlight
<1>7. CASE Reach \/ Lose
  <2>1. UNCHANGED posted /\ wire # <<>> /\ wire' = Tail(wire)
    BY <1>7 DEF Reach, Lose, uiVars
  <2>2. \E r \in replies' \cup lost' : r.a = Head(wire).a
    <3>1. CASE Lose
      BY <3>1 DEF Lose
    <3>2. CASE Reach
      <4>1. PICK outcome \in Outcome, rec \in MaybeDecision :
              \/ [n |-> Head(wire).n, a |-> Head(wire).a, d |-> Head(wire).d,
                  outcome |-> outcome, rec |-> rec] \in replies'
              \/ Head(wire) \in lost'
        BY <3>2 DEF Reach
      <4> QED BY <4>1
    <3> QED BY <1>7, <3>1, <3>2
  <2>3. replies \subseteq replies' /\ lost \subseteq lost'
    BY <1>7 DEF Reach, Lose
  <2>4. \A j \in DOMAIN wire :
          wire[j] = Head(wire) \/ \E k \in DOMAIN wire' : wire'[k] = wire[j]
    BY <1>0, <2>1, HeadOrTail
  <2> QED BY <2>1, <2>2, <2>3, <2>4 DEF InFlight, Unanswered
<1> QED BY <1>1, <1>2, <1>3, <1>4, <1>5, <1>6, <1>7
        DEF Next, Click, UiThread, Draw, FoldNotice, Agent, Server, Raise, DecideElsewhere,
            Cancel, Replay, vars, sliceVars, uiVars, agentVars

(* Only an answer makes a card wait, and a reply ends its waiting.         *)
LEMMA WaitsFromAnswer ==
  ASSUME state \in [Approval -> CardState], NEW b \in Approval, NEW d,
         NEW a \in Approval, Waits(a)'
  PROVE  /\ requested(b) => Waits(a)
         /\ decided(b, d) \/ failed(b) \/ cancelled(b) => Waits(a) /\ a # b
BY DEF requested, decided, failed, cancelled, sliceVars, Waits, Known, Card

(* No step but a login leaves a card waiting for nothing.                  *)
LEMMA WaitingStep ==
  ASSUME TypeOK, [Next]_vars, ~Replace, NEW a \in Approval, Waits(a) => InFlight(a), Waits(a)'
  PROVE  InFlight(a)'
<1>0. state \in [Approval -> CardState]
  BY DEF TypeOK
<1>1. ~(FoldReply /\ Head(posted).a = a)
  <2> SUFFICES ASSUME FoldReply PROVE Head(posted).a # a
    OBVIOUS
  <2> DEFINE r == Head(posted)
  <2>1. r.a \in Approval /\ (decided(r.a, r.d) \/ decided(r.a, Recorded(r)) \/ failed(r.a))
    BY ReplyFolded
  <2> HIDE DEF r
  <2>2. r.a # a
    BY <1>0, <2>1, WaitsFromAnswer
  <2> QED BY <2>2 DEF r
<1>2. InFlight(a)
  <2>1. CASE FoldAnswer
    <3>1. PICK i \in DOMAIN posted :
            posted[i].a \in Approval /\ pending_response(posted[i].a, posted[i].d)
      BY <2>1, AnswerFolded
    <3>2. CASE posted[i].a = a
      BY <3>2 DEF InFlight
    <3>3. CASE posted[i].a # a
      BY <1>0, <3>1, <3>3 DEF pending_response, Waits
    <3> QED BY <3>2, <3>3
  <2>2. CASE FoldReply
    <3> DEFINE r == Head(posted)
    <3>1. r.a \in Approval /\ (decided(r.a, r.d) \/ decided(r.a, Recorded(r)) \/ failed(r.a))
      BY <2>2, ReplyFolded
    <3> HIDE DEF r
    <3> QED BY <1>0, <3>1, WaitsFromAnswer
  <2>3. CASE FoldNotice
    <3> DEFINE e == Head(events)
    <3>1. e.a \in Approval /\ (requested(e.a) \/ decided(e.a, e.d) \/ cancelled(e.a))
      BY <2>3, NoticeFolded
    <3> HIDE DEF e
    <3> QED BY <1>0, <3>1, WaitsFromAnswer
  <2>4. CASE UNCHANGED state
    BY <2>4 DEF Waits
  <2> QED BY <2>1, <2>2, <2>3, <2>4
          DEF Next, Click, UiThread, Draw, HandleClick, Agent, Deliver, TransportEnds, Replace,
              Server, Raise, DecideElsewhere, Cancel, Replay, Reach, Lose, vars, sliceVars
<1> QED BY <1>1, <1>2, AnswersStay

(* A card that waits for the server has an answer under way, and only a    *)
(* login takes it away: for any number of clicks, and whatever is lost,    *)
(* refused or overtaken (octos_ui.rs 757-812, main.rs 5470-5533).          *)
THEOREM WaitingCardsAreAnswered == Spec => WaitingKeepsItsAnswer
<1> DEFINE Keeps == \A a \in Approval :
             (Waits(a) => InFlight(a)) /\ ~Replace => (Waits(a) => InFlight(a))'
<1>1. TypeOK /\ [Next]_vars => [Keeps]_vars
  <2> SUFFICES ASSUME TypeOK, [Next]_vars, NEW a \in Approval,
                      Waits(a) => InFlight(a), ~Replace, Waits(a)'
               PROVE  InFlight(a)'
    OBVIOUS
  <2> QED BY WaitingStep
<1> QED BY <1>1, TypeCorrect, PTL DEF Spec, WaitingKeepsItsAnswer

(* A card that is not there yet is fresh.                                  *)
LEMMA FreshCards == ASSUME NEW x PROVE ~Known(x) => Fresh(x)
BY DEF Known, Fresh

(* A notification that the server sends, with what it says of its approval,*)
(* keeps the cards following.                                              *)
LEMMA NoticeSent ==
  ASSUME TypeOK, CardsFollow, NEW kind \in {"requested", "decided", "cancelled"},
         NEW a \in Approval, NEW d \in MaybeDecision, Notify(kind, a, d),
         UNCHANGED <<sliceVars, uiVars, agentVars>>,
         \A x \in Approval :
           \/ server'[x] = server[x]
           \/ /\ x = a /\ server[x] = "none" /\ server'[x] = "pending" /\ kind = "requested"
           \/ /\ x = a /\ server[x] = "pending" /\ server'[x] \in Decision /\ kind = "decided"
           \/ /\ x = a /\ server[x] = "pending" /\ server'[x] = "cancelled" /\ kind = "cancelled",
         server'[a] # "none", kind = "cancelled" => server'[a] = "cancelled"
  PROVE  CardsFollow'
<1> USE ApprovalsAssumption
<1> DEFINE e == [kind |-> kind, a |-> a, d |-> d]
<1>1. e \in Notice /\ events \in Seq(Notice) /\ events' = Append(events, e)
      /\ e.a = a /\ e.kind = kind
  BY DEF Notice, TypeOK, Notify
<1> HIDE DEF e
<1> DEFINE m == Len(events) + 1
<1>2. /\ \A k \in DOMAIN events' : \/ k \in DOMAIN events /\ events'[k] = events[k]
                                   \/ k = m /\ events'[k] = e
      /\ \A k \in DOMAIN events : k \in DOMAIN events' /\ events'[k] = events[k]
      /\ m \in DOMAIN events' /\ events'[m] = e
      /\ \A k \in DOMAIN events : k < m
  BY <1>1, QueueAppend, LenProperties
<1> HIDE DEF m
<1>3. DOMAIN events' \subseteq Nat /\ m \in Nat
  <2>1. events' \in Seq(Notice)
    BY <1>1, QueueAppend
  <2> QED BY <1>2, <2>1, LenProperties
<1>4. ASSUME NEW x \in Approval PROVE CardFollows(x)'
  <2>0. CardFollows(x) /\ CardFollows(a)
    BY <1>4 DEF CardsFollow
  <2>1. (Known(x)' <=> Known(x)) /\ (Fresh(x)' <=> Fresh(x)) /\ (Waits(x)' <=> Waits(x))
        /\ (Asked(x)' <=> Asked(x)) /\ (Answered(x)' <=> Answered(x))
        /\ (InFlight(x)' <=> InFlight(x)) /\ state'[x] = state[x]
    BY DEF Known, Fresh, Waits, Asked, Answered, InFlight, Unanswered, sliceVars, uiVars, agentVars
  <2>2. Told(x)' <=> Told(x) \/ x = a
    BY <1>1, <1>2 DEF Told
  <2>3. Announced(x) => Announced(x)'
    <3> SUFFICES ASSUME Announced(x) PROVE Announced(x)'
      OBVIOUS
    <3>1. PICK i \in DOMAIN events :
            /\ events[i].a = x /\ events[i].kind = "requested"
            /\ \A j \in DOMAIN events : j < i => events[j].a # x
      BY DEF Announced
    <3>2. \A j \in DOMAIN events' : j < i => j \in DOMAIN events /\ events'[j] = events[j]
      BY <1>2, <1>3, <3>1
    <3> QED BY <1>2, <3>1, <3>2 DEF Announced
  <2>4. Noticed(x) /\ server'[x] = server[x] => Noticed(x)'
    BY <1>2 DEF Noticed, NoticeOf
  <2>5. CASE server'[x] = server[x]
    BY <2>0, <2>1, <2>2, <2>3, <2>4, <2>5 DEF CardFollows, Settled
  <2>6. CASE x = a /\ server[x] = "none" /\ server'[x] = "pending" /\ kind = "requested"
    <3>1. ~Known(x) /\ ~Told(x) /\ state[x].tag # "failed"
      BY <2>0, <2>6 DEF CardFollows, Known
    <3>2. Announced(x)'
      <4>1. \A j \in DOMAIN events' : j < m => events'[j].a # x
        BY <1>2, <1>3, <3>1 DEF Told
      <4> QED BY <1>1, <1>2, <2>6, <4>1 DEF Announced
    <3> QED BY <2>0, <2>1, <2>6, <3>1, <3>2 DEF CardFollows, Settled
  <2>7. CASE /\ x = a /\ server[x] = "pending"
             /\ \/ server'[x] \in Decision /\ kind = "decided"
                \/ server'[x] = "cancelled" /\ kind = "cancelled"
    <3>1. Noticed(x)'
      BY <1>1, <1>2, <2>7 DEF Noticed, NoticeOf
    <3>2. server'[x] # "none" /\ state[x].tag # "failed"
      BY <2>0, <2>7 DEF CardFollows
    <3> QED BY <2>0, <2>1, <2>2, <2>3, <2>7, <3>1, <3>2 DEF CardFollows, Settled
  <2> QED BY <2>5, <2>6, <2>7
<1>5. \A x \in Approval : server[x] = "cancelled" => server'[x] = "cancelled"
  BY DEF TypeOK
<1>6. agent' = "up" /\ lost' = {} /\ UNCHANGED <<replies, posted>>
  BY DEF CardsFollow, agentVars, uiVars
<1>7. (\A r \in replies : ErrsOnCancelled(r))'
  BY <1>5, <1>6 DEF CardsFollow, ErrsOnCancelled, TypeOK, Reply
<1>8. (\A i \in DOMAIN posted : posted[i].kind = "async" => ErrsOnCancelled(posted[i]))'
  BY <1>5, <1>6, QueuesTyped DEF CardsFollow, ErrsOnCancelled
<1>9. (\A i \in DOMAIN events :
         events[i].kind = "cancelled" => server[events[i].a] = "cancelled")'
  BY <1>1, <1>2, <1>5, QueuesTyped DEF CardsFollow
<1> QED BY <1>4, <1>6, <1>7, <1>8, <1>9 DEF CardsFollow

(* So does a step that hears nothing from the server and treats the        *)
(* answers under way as it should.                                         *)
LEMMA AnswersMoved ==
  ASSUME CardsFollow, UNCHANGED <<events, server, agent, lost>>,
         \A x \in Approval :
           /\ Fresh(x)' => Fresh(x)
           /\ Known(x)' <=> Known(x)
           /\ Asked(x)' => Known(x)
           /\ Answered(x)' => ~Fresh(x)'
           /\ Waits(x)' => InFlight(x)'
           /\ state'[x].tag = "failed" => server[x] = "cancelled",
         (\A r \in replies : ErrsOnCancelled(r))',
         (\A i \in DOMAIN posted : posted[i].kind = "async" => ErrsOnCancelled(posted[i]))'
  PROVE  CardsFollow'
<1>1. ASSUME NEW x \in Approval PROVE CardFollows(x)'
  <2>1. CardFollows(x)
    BY DEF CardsFollow
  <2>2. (Told(x)' <=> Told(x)) /\ (Announced(x)' <=> Announced(x))
        /\ (Noticed(x)' <=> Noticed(x)) /\ (Settled(x)' <=> Settled(x))
    BY DEF Told, Announced, Noticed, NoticeOf, Settled
  <2> QED BY <2>1, <2>2 DEF CardFollows
<1>2. (\A i \in DOMAIN events :
         events[i].kind = "cancelled" => server[events[i].a] = "cancelled")'
  BY DEF CardsFollow
<1>3. agent' = "up" /\ lost' = {}
  BY DEF CardsFollow
<1> QED BY <1>1, <1>2, <1>3 DEF CardsFollow

(* With nothing lost and no login, every step keeps the cards following.   *)
LEMMA CardsFollowStep ==
  ASSUME TypeOK, SliceShape, CardsFollow, [Next]_vars, ~MayLose, ~MayReplace
  PROVE  CardsFollow'
<1> USE ApprovalsAssumption, DecisionsOK
<1>0. /\ posted \in Seq(Ui \cup Async) /\ wire \in Seq(Answer) /\ replies \subseteq Reply
      /\ state \in [Approval -> CardState] /\ order \in Seq(Approval)
      /\ events \in Seq(Notice)
  BY DEF TypeOK
<1>1. \A x \in Approval : CardFollows(x)
  BY DEF CardsFollow
<1>2. ~Replace
  BY DEF Replace
<1>3. \A x \in Approval : Waits(x)' => InFlight(x)'
  BY <1>1, <1>2, WaitingStep DEF CardFollows
<1>4. \A x \in Approval : Answered(x) => Known(x)
  BY <1>1, FreshCards DEF CardFollows
<1>5. \A i \in DOMAIN posted : posted[i].kind = "async" => ErrsOnCancelled(posted[i])
  BY DEF CardsFollow
<1>6. \A r \in replies : ErrsOnCancelled(r)
  BY DEF CardsFollow
<1>10. CASE Click \/ Draw \/ UNCHANGED vars
  <2>1. UNCHANGED <<state, posted, agent, wire, replies, lost, events, server>>
    BY <1>10 DEF Click, Draw, vars, sliceVars, uiVars, agentVars
  <2>2. \A x \in Approval :
          /\ Fresh(x)' <=> Fresh(x)
          /\ Known(x)' <=> Known(x)
          /\ Asked(x)' <=> Asked(x)
          /\ Answered(x)' <=> Answered(x)
    BY <2>1 DEF Fresh, Known, Asked, Answered
  <2>3. (\A r \in replies : ErrsOnCancelled(r))'
        /\ (\A i \in DOMAIN posted : posted[i].kind = "async" => ErrsOnCancelled(posted[i]))'
    BY <1>5, <1>6, <2>1 DEF ErrsOnCancelled
  <2> QED BY <1>1, <1>3, <2>1, <2>2, <2>3, AnswersMoved DEF CardFollows
<1>11. CASE HandleClick
  <2>1. UNCHANGED <<state, agent, wire, replies, lost, events, server>>
        /\ click \in [i : Nat \ {0}, a : Approval, d : Button] /\ clicks \in 1..MaxClicks
    BY <1>11 DEF HandleClick, TypeOK, sliceVars, agentVars
  <2>2. \A k \in DOMAIN posted' :
          \/ k \in DOMAIN posted /\ posted'[k] = posted[k]
          \/ posted'[k].kind = "ui" /\ \A x \in Approval : posted'[k].a = x => Known(x)
    <3>1. CASE UNCHANGED posted
      BY <3>1
    <3>2. CASE \E b \in CardAt(click.i) :
                 posted' = Append(posted, [kind |-> "ui", n |-> clicks, a |-> b, d |-> click.d])
      <4>1. PICK b \in CardAt(click.i) :
              posted' = Append(posted, [kind |-> "ui", n |-> clicks, a |-> b, d |-> click.d])
        BY <3>2
      <4> DEFINE u == [kind |-> "ui", n |-> clicks, a |-> b, d |-> click.d]
      <4>2. b \in Approval
        BY <1>0, ElementOfSeq, LenProperties DEF CardAt, Below
      <4>3. Known(b)
        <5>1. CASE click.i \in DOMAIN order
          BY <4>1, <4>2, <5>1 DEF CardAt, SliceShape, Queued
        <5>2. CASE click.i \notin DOMAIN order
          BY <4>1, <5>2 DEF CardAt, Below, Known
        <5> QED BY <5>1, <5>2
      <4>4. u \in Ui \cup Async /\ u.kind = "ui" /\ u.a = b /\ posted' = Append(posted, u)
        BY <2>1, <4>1, <4>2 DEF Ui
      <4> HIDE DEF u
      <4> QED BY <1>0, <4>3, <4>4, QueueAppend
    <3> QED BY <1>11, <3>1, <3>2 DEF HandleClick
  <2>3. \A x \in Approval :
          /\ Fresh(x)' <=> Fresh(x)
          /\ Known(x)' <=> Known(x)
          /\ Asked(x)' => Asked(x) \/ Known(x)
          /\ Answered(x)' => Answered(x)
    BY <2>1, <2>2 DEF Fresh, Known, Asked, Answered
  <2>4. (\A r \in replies : ErrsOnCancelled(r))'
        /\ (\A i \in DOMAIN posted : posted[i].kind = "async" => ErrsOnCancelled(posted[i]))'
    BY <1>5, <1>6, <2>1, <2>2 DEF ErrsOnCancelled
  <2> QED BY <1>1, <1>3, <2>1, <2>3, <2>4, AnswersMoved DEF CardFollows
<1>12. CASE FoldAnswer
  <2>1. PICK i \in DOMAIN posted :
          /\ posted[i].kind = "ui"
          /\ posted[i].a \in Approval /\ posted[i].d \in Button /\ posted[i].n \in 1..MaxClicks
          /\ pending_response(posted[i].a, posted[i].d)
          /\ Respond(RemoveAt(posted, i), posted[i])
    BY <1>12, AnswerFolded
  <2> DEFINE w == [n |-> posted[i].n, a |-> posted[i].a, d |-> posted[i].d]
  <2>0. PICK b \in Approval : b = posted[i].a
    BY <2>1
  <2>2. posted' = RemoveAt(posted, i) /\ wire' = Append(wire, w)
    BY <2>1 DEF Respond, CardsFollow
  <2>3. UNCHANGED <<agent, replies, lost, events, server>>
    BY <1>12 DEF FoldAnswer
  <2>4. \A k \in DOMAIN posted' : \E j \in DOMAIN posted : posted'[k] = posted[j]
    BY <1>0, <2>2, RemoveAtKeeps
  <2>5. \A k \in DOMAIN wire' : wire'[k].a = b \/ \E j \in DOMAIN wire : wire'[k] = wire[j]
    <3>1. w \in Answer /\ w.a = b
      BY <2>0, <2>1 DEF Answer
    <3> HIDE DEF w
    <3> QED BY <1>0, <2>2, <3>1, QueueAppend
  <2>6. Known(b)
    BY <1>1, <2>0 DEF Asked, CardFollows
  <2>7. ~Fresh(b)'
    BY <1>0, <2>0, <2>1, <2>6 DEF pending_response, Card, Fresh
  <2>8. \A x \in Approval :
          /\ Fresh(x)' => Fresh(x)
          /\ Known(x) => Known(x)'
          /\ state'[x].tag = "failed" => state[x].tag = "failed"
          /\ x # b => (Known(x)' <=> Known(x))
    BY <1>0, <2>0, <2>1, <2>6 DEF pending_response, Fresh, Known, Card
  <2> HIDE DEF w
  <2>9. \A x \in Approval :
          /\ Asked(x)' => Asked(x)
          /\ Answered(x)' => Answered(x) \/ x = b
    BY <2>3, <2>4, <2>5 DEF Asked, Answered
  <2>10. (\A r \in replies : ErrsOnCancelled(r))'
         /\ (\A k \in DOMAIN posted : posted[k].kind = "async" => ErrsOnCancelled(posted[k]))'
    BY <1>5, <1>6, <2>3, <2>4 DEF ErrsOnCancelled
  <2> QED BY <1>1, <1>3, <2>3, <2>6, <2>7, <2>8, <2>9, <2>10, AnswersMoved DEF CardFollows
<1>13. CASE FoldReply
  <2> DEFINE r == Head(posted)
  <2>1. /\ r.a \in Approval /\ r.d \in MaybeDecision /\ Recorded(r) \in MaybeDecision
        /\ \/ decided(r.a, r.d) \/ decided(r.a, Recorded(r))
           \/ r.outcome = "error" /\ failed(r.a)
        /\ posted # <<>> /\ posted' = Tail(posted)
    BY <1>13, ReplyFolded
  <2>2. UNCHANGED <<agent, wire, replies, lost, events, server>> /\ r.kind = "async"
    BY <1>13 DEF FoldReply, agentVars
  <2>3. 1 \in DOMAIN posted /\ r = posted[1]
        /\ \A k \in DOMAIN posted' : \E j \in DOMAIN posted : posted'[k] = posted[j]
    BY <1>0, <2>1, QueueTail
  <2>4. ErrsOnCancelled(r) /\ Asked(r.a) /\ Answered(r.a)
    BY <1>5, <2>2, <2>3 DEF Asked, Answered
  <2> HIDE DEF r
  <2>5. Known(r.a)
    BY <1>1, <2>1, <2>4 DEF CardFollows
  <2>6. \A x \in Approval :
          /\ Fresh(x)' => Fresh(x)
          /\ Known(x) <=> Known(x)'
          /\ state'[x].tag = "failed" => state[x].tag = "failed" \/ (x = r.a /\ r.outcome = "error")
    BY <1>0, <2>1, <2>5 DEF decided, failed, Card, Fresh, Known
  <2>7. \A x \in Approval :
          /\ Asked(x)' => Asked(x)
          /\ Answered(x)' => Answered(x)
    BY <2>2, <2>3 DEF Asked, Answered
  <2>8. (\A p \in replies : ErrsOnCancelled(p))'
        /\ (\A k \in DOMAIN posted : posted[k].kind = "async" => ErrsOnCancelled(posted[k]))'
    BY <1>5, <1>6, <2>2, <2>3 DEF ErrsOnCancelled
  <2>9. \A x \in Approval : state'[x].tag = "failed" => server[x] = "cancelled"
    BY <1>1, <2>4, <2>6 DEF ErrsOnCancelled, CardFollows
  <2> QED BY <1>1, <1>3, <2>2, <2>6, <2>7, <2>8, <2>9, AnswersMoved DEF CardFollows
<1>14. CASE Deliver
  <2>1. PICK r \in replies : /\ replies' = replies \ {r}
                             /\ posted' = PostReply(posted, r.a, r.d, r.outcome, r.rec)
    BY <1>14 DEF Deliver
  <2>2. UNCHANGED <<state, agent, wire, lost, events, server>>
    BY <1>14 DEF Deliver, sliceVars
  <2> DEFINE m == [kind |-> "async", a |-> r.a, d |-> r.d, outcome |-> r.outcome, rec |-> r.rec]
  <2>3. m \in Ui \cup Async /\ m.a = r.a /\ m.outcome = r.outcome /\ posted' = Append(posted, m)
    BY <1>0, <2>1 DEF Reply, Async, PostReply
  <2> HIDE DEF m
  <2>4. \A k \in DOMAIN posted' : posted'[k] = m \/ \E j \in DOMAIN posted : posted'[k] = posted[j]
    BY <1>0, <2>3, QueueAppend
  <2>5. \A x \in Approval :
          /\ Fresh(x)' <=> Fresh(x)
          /\ Known(x)' <=> Known(x)
          /\ Asked(x)' => Asked(x) \/ Answered(x)
          /\ Answered(x)' => Answered(x)
    BY <2>1, <2>2, <2>3, <2>4 DEF Fresh, Known, Asked, Answered
  <2>6. (\A p \in replies : ErrsOnCancelled(p))'
        /\ (\A k \in DOMAIN posted : posted[k].kind = "async" => ErrsOnCancelled(posted[k]))'
    BY <1>5, <1>6, <2>1, <2>2, <2>3, <2>4 DEF ErrsOnCancelled
  <2> QED BY <1>1, <1>3, <1>4, <2>2, <2>5, <2>6, AnswersMoved DEF CardFollows
<1>15. CASE Reach
  <2> DEFINE w == Head(wire)
  <2>1. UNCHANGED <<state, posted, agent, events>> /\ wire # <<>> /\ wire' = Tail(wire)
    BY <1>15 DEF Reach, sliceVars, uiVars
  <2>2. PICK outcome \in Outcome, rec \in MaybeDecision :
          /\ Serve(w, rec, outcome)
          /\ replies' = replies \cup {[n |-> w.n, a |-> w.a, d |-> w.d,
                                       outcome |-> outcome, rec |-> rec]}
          /\ UNCHANGED lost
    BY <1>15 DEF Reach
  <2>3. w \in Answer /\ 1 \in DOMAIN wire /\ w = wire[1]
        /\ \A k \in DOMAIN wire' : \E j \in DOMAIN wire : wire'[k] = wire[j]
    BY <1>0, <2>1, QueueTail
  <2>4. w.a \in Approval /\ w.d \in Button
    BY <2>3 DEF Answer
  <2>5. Answered(w.a)
    BY <2>3 DEF Answered
  <2> HIDE DEF w
  <2>6. Known(w.a) /\ ~Fresh(w.a) /\ server[w.a] # "none"
    BY <1>1, <1>4, <2>4, <2>5 DEF CardFollows
  <2>7. /\ \A x \in Approval :
             \/ server'[x] = server[x]
             \/ x = w.a /\ server[x] = "pending" /\ server'[x] \in Decision
        /\ outcome = "error" => server[w.a] = "cancelled"
    BY <2>2, <2>4, <2>6 DEF Serve, TypeOK
  <2>8. ASSUME NEW x \in Approval PROVE CardFollows(x)'
    <3>1. CardFollows(x)
      BY <1>1
    <3>2. (Known(x)' <=> Known(x)) /\ (Fresh(x)' <=> Fresh(x)) /\ (Asked(x)' <=> Asked(x))
          /\ (Told(x)' <=> Told(x)) /\ (Announced(x)' <=> Announced(x))
          /\ state'[x] = state[x]
      BY <2>1 DEF Known, Fresh, Asked, Told, Announced
    <3>3. Answered(x)' => Answered(x)
      BY <2>1, <2>2, <2>3, <2>5 DEF Answered
    <3>4. Waits(x)' => InFlight(x)'
      BY <1>3
    <3>5. CASE server'[x] = server[x]
      <4>1. (Settled(x)' <=> Settled(x)) /\ (Noticed(x)' <=> Noticed(x))
        BY <2>1, <3>5 DEF Settled, Noticed, NoticeOf
      <4> QED BY <3>1, <3>2, <3>3, <3>4, <3>5, <4>1 DEF CardFollows
    <3>6. CASE x = w.a /\ server[x] = "pending" /\ server'[x] \in Decision
      <4>1. server'[x] # "none" /\ state[x].tag # "failed" /\ Known(x) /\ ~Fresh(x)
        BY <2>6, <3>1, <3>6 DEF CardFollows
      <4> QED BY <3>1, <3>2, <3>3, <3>4, <4>1 DEF CardFollows
    <3> QED BY <2>7, <3>5, <3>6
  <2>9. \A x \in Approval : server[x] = "cancelled" => server'[x] = "cancelled"
    BY <2>7
  <2>10. (\A r \in replies : ErrsOnCancelled(r))'
    BY <1>0, <1>6, <2>2, <2>4, <2>7, <2>9 DEF ErrsOnCancelled, Reply
  <2>11. (\A i \in DOMAIN posted : posted[i].kind = "async" => ErrsOnCancelled(posted[i]))'
    BY <1>5, <2>1, <2>9, QueuesTyped DEF ErrsOnCancelled
  <2>12. (\A i \in DOMAIN events :
            events[i].kind = "cancelled" => server[events[i].a] = "cancelled")'
    BY <2>1, <2>9, QueuesTyped DEF CardsFollow
  <2>13. agent' = "up" /\ lost' = {}
    BY <2>1, <2>2 DEF CardsFollow
  <2> QED BY <2>8, <2>10, <2>11, <2>12, <2>13 DEF CardsFollow
<1>16. CASE FoldNotice
  <2> DEFINE e == Head(events)
  <2>1. /\ e.a \in Approval /\ e.d \in MaybeDecision
        /\ \/ e.kind = "requested" /\ requested(e.a)
           \/ e.kind = "decided" /\ decided(e.a, e.d)
           \/ e.kind = "cancelled" /\ cancelled(e.a)
        /\ events # <<>> /\ events' = Tail(events)
    BY <1>16, NoticeFolded
  <2>2. UNCHANGED <<posted, agent, wire, replies, lost, server>>
    BY <1>16 DEF FoldNotice, uiVars, agentVars
  <2>3. 1 \in DOMAIN events /\ e = events[1]
        /\ \A k \in DOMAIN events' : k + 1 \in DOMAIN events /\ events'[k] = events[k + 1]
    BY <1>0, <2>1, QueueTail
  <2>4. \A j \in DOMAIN events : j \in Nat \ {0}
        /\ (j # 1 => j - 1 \in DOMAIN events' /\ events'[j - 1] = events[j])
    <3>1. Tail(events) \in Seq(Notice) /\ Len(Tail(events)) = Len(events) - 1
          /\ \A k \in 1..Len(Tail(events)) : Tail(events)[k] = events[k + 1]
      BY <1>0, <2>1, HeadTailProperties
    <3>2. /\ DOMAIN events = 1..Len(events) /\ Len(events) \in Nat
          /\ DOMAIN events' = 1..Len(events) - 1
      BY <1>0, <2>1, <3>1, LenProperties
    <3> QED BY <2>1, <3>1, <3>2
  <2> HIDE DEF e
  <2>5. DOMAIN events' \subseteq Nat
    <3>1. events' \in Seq(Notice)
      BY <1>0, <2>1, QueueTail
    <3> QED BY <3>1, LenProperties
  <2>6. ASSUME NEW x \in Approval PROVE CardFollows(x)'
    <3>1. CardFollows(x)
      BY <1>1
    <3>2. /\ Fresh(x)' => Fresh(x)
          /\ Known(x) => Known(x)'
          /\ Known(x)' => Known(x) \/ x = e.a
          /\ state'[x].tag = "failed" => state[x].tag = "failed" \/ (e.kind = "cancelled" /\ x = e.a)
      BY <1>0, <2>1 DEF requested, decided, cancelled, sliceVars, Fresh, Known, Card
    <3>3. /\ e.kind = "requested" /\ x = e.a => Known(x)'
          /\ e.kind # "requested" /\ x = e.a /\ Known(x) => ~Fresh(x)'
      BY <1>0, <2>1 DEF requested, decided, cancelled, sliceVars, Fresh, Known, Card
    <3>4. (Asked(x)' <=> Asked(x)) /\ (Answered(x)' <=> Answered(x)) /\ server'[x] = server[x]
          /\ (Settled(x)' <=> Settled(x))
      BY <2>2 DEF Asked, Answered, Settled
    <3>5. (Told(x)' => Told(x)) /\ (x = e.a => Told(x))
      BY <2>3 DEF Told
    <3>6. ASSUME Announced(x), ~Known(x)' PROVE Announced(x)'
      <4>1. PICK i \in DOMAIN events :
              /\ events[i].a = x /\ events[i].kind = "requested"
              /\ \A j \in DOMAIN events : j < i => events[j].a # x
        BY <3>6 DEF Announced
      <4>2. i # 1
        BY <2>3, <3>3, <3>6, <4>1
      <4>3. i \in Nat /\ i - 1 \in DOMAIN events' /\ events'[i - 1] = events[i]
        BY <2>4, <4>2
      <4>4. \A j \in DOMAIN events' : j < i - 1 => events'[j].a # x
        BY <2>3, <2>5, <4>1, <4>3
      <4> QED BY <4>1, <4>3, <4>4 DEF Announced
    <3>7. ASSUME Noticed(x), Fresh(x)', Settled(x) PROVE Noticed(x)'
      <4>1. PICK i \in DOMAIN events : events[i].a = x /\ events[i].kind = NoticeOf(x)
        BY <3>7 DEF Noticed
      <4>2. CASE i = 1
        <5>1. e.a = x /\ e.kind # "requested"
          BY <2>3, <4>1, <4>2 DEF NoticeOf
        <5>2. ~Known(x) /\ Announced(x)
          BY <3>1, <3>3, <3>5, <3>7, <5>1 DEF CardFollows
        <5>3. PICK k \in DOMAIN events :
                /\ events[k].a = x /\ events[k].kind = "requested"
                /\ \A j \in DOMAIN events : j < k => events[j].a # x
          BY <5>2 DEF Announced
        <5>4. k = 1
          BY <2>3, <2>4, <5>1, <5>3
        <5> QED BY <2>3, <5>1, <5>3, <5>4
      <4>3. CASE i # 1
        <5>1. i - 1 \in DOMAIN events' /\ events'[i - 1] = events[i]
          BY <2>4, <4>3
        <5> QED BY <2>2, <4>1, <5>1 DEF Noticed, NoticeOf
      <4> QED BY <4>2, <4>3
    <3>8. e.kind = "cancelled" /\ x = e.a => server[x] = "cancelled"
      BY <2>3 DEF CardsFollow
    <3>9. Answered(x)' => ~Fresh(x)'
      BY <3>1, <3>2, <3>4 DEF CardFollows
    <3> QED BY <1>3, <3>1, <3>2, <3>4, <3>5, <3>6, <3>7, <3>8, <3>9 DEF CardFollows
  <2>7. (\A r \in replies : ErrsOnCancelled(r))'
        /\ (\A i \in DOMAIN posted : posted[i].kind = "async" => ErrsOnCancelled(posted[i]))'
    BY <1>5, <1>6, <2>2 DEF ErrsOnCancelled
  <2>8. (\A i \in DOMAIN events :
           events[i].kind = "cancelled" => server[events[i].a] = "cancelled")'
    BY <2>2, <2>3 DEF CardsFollow
  <2>9. agent' = "up" /\ lost' = {}
    BY <2>2 DEF CardsFollow
  <2> QED BY <2>6, <2>7, <2>8, <2>9 DEF CardsFollow
<1>17. CASE Raise \/ DecideElsewhere \/ Cancel \/ Replay
  <2>1. CASE Raise
    <3>1. PICK a \in Approval :
            /\ server[a] = "none" /\ server' = [server EXCEPT ![a] = "pending"]
            /\ Notify("requested", a, Undecided)
      BY <2>1 DEF Raise
    <3>2. UNCHANGED <<sliceVars, uiVars, agentVars>>
      BY <2>1 DEF Raise
    <3> QED BY <3>1, <3>2, NoticeSent DEF TypeOK
  <2>2. CASE DecideElsewhere
    <3>1. PICK a \in Approval, d \in Decision :
            /\ server[a] = "pending" /\ server' = [server EXCEPT ![a] = d]
            /\ Notify("decided", a, d)
      BY <2>2 DEF DecideElsewhere
    <3>2. UNCHANGED <<sliceVars, uiVars, agentVars>>
      BY <2>2 DEF DecideElsewhere
    <3>3. server'[a] = d /\ server'[a] # "none"
      BY <3>1 DEF TypeOK
    <3> QED BY <3>1, <3>2, <3>3, NoticeSent DEF TypeOK
  <2>3. CASE Cancel
    <3>1. PICK a \in Approval :
            /\ server[a] = "pending" /\ server' = [server EXCEPT ![a] = "cancelled"]
            /\ Notify("cancelled", a, Undecided)
      BY <2>3 DEF Cancel
    <3>2. UNCHANGED <<sliceVars, uiVars, agentVars>>
      BY <2>3 DEF Cancel
    <3> QED BY <3>1, <3>2, NoticeSent DEF TypeOK
  <2>4. CASE Replay
    <3>1. PICK a \in Approval :
            \/ server[a] # "none" /\ Notify("requested", a, Undecided)
            \/ server[a] \in Decision /\ Notify("decided", a, server[a])
            \/ server[a] = "cancelled" /\ Notify("cancelled", a, Undecided)
      BY <2>4 DEF Replay
    <3>2. UNCHANGED <<sliceVars, uiVars, agentVars>> /\ UNCHANGED server
      BY <2>4 DEF Replay
    <3>3. server[a] # "none"
      BY <3>1
    <3>4. PICK kind \in {"requested", "decided", "cancelled"}, d \in MaybeDecision :
            Notify(kind, a, d) /\ (kind = "cancelled" => server[a] = "cancelled")
      BY <3>1
    <3> QED BY <3>2, <3>3, <3>4, NoticeSent
  <2> QED BY <1>17, <2>1, <2>2, <2>3, <2>4
<1> QED BY <1>2, <1>10, <1>11, <1>12, <1>13, <1>14, <1>15, <1>16, <1>17
        DEF Next, UiThread, Agent, Server, TransportEnds, Lose

(* Once nothing is under way, a card agrees with the server: it asks while *)
(* the server waits, fails only when the approval was cancelled, and says  *)
(* what was decided otherwise.  For any number of cards and clicks, and    *)
(* any order of replies and notifications, provided that nothing is lost,  *)
(* nobody logs in again, and the client can name every decision            *)
(* (store/approvals.rs 30-83, main.rs 5470-5533).                          *)
THEOREM QuietCardsAreRight ==
  ASSUME Decision = Button, ~MayLose, ~MayReplace PROVE Spec => []QuietCardsAgree
<1> USE ApprovalsAssumption
<1>1. Init => CardsFollow
  <2> SUFFICES ASSUME Init PROVE CardsFollow
    OBVIOUS
  <2>1. \A a \in Approval : state[a].tag = "absent" /\ server[a] = "none"
    BY DEF Init, Card
  <2>2. ASSUME NEW a \in Approval PROVE ~Told(a) /\ ~Asked(a) /\ ~Answered(a)
    <3>1. DOMAIN <<>> = {}
      OBVIOUS
    <3>2. posted = <<>> /\ wire = <<>> /\ events = <<>> /\ replies = {}
      BY DEF Init
    <3> QED BY <3>1, <3>2 DEF Told, Asked, Answered
  <2> QED BY <2>1, <2>2
          DEF Init, CardsFollow, CardFollows, Known, Fresh, Waits, Settled
<1>2. TypeOK /\ SliceShape /\ CardsFollow /\ [Next]_vars => CardsFollow'
  BY CardsFollowStep
<1>3. TypeOK /\ Truth /\ CardsFollow => QuietCardsAgree
  <2> SUFFICES ASSUME TypeOK, CardsTrue, CardsFollow, Quiet, NEW a \in Approval
               PROVE  /\ server[a] = "none" => state[a].tag = "absent"
                      /\ server[a] = "pending" => state[a].tag = "awaiting"
                      /\ server[a] = "cancelled" => state[a].tag = "failed"
                      /\ server[a] \in Decision => state[a] = Card("decided", server[a])
    <3> SUFFICES ASSUME TypeOK, Truth, CardsFollow, Quiet, NEW a \in Approval
                 PROVE  CASE server[a] = "none"      -> state[a].tag = "absent"
                          [] server[a] = "pending"   -> state[a].tag = "awaiting"
                          [] server[a] = "cancelled" -> state[a].tag = "failed"
                          [] server[a] \in Decision  -> state[a] = Card("decided", server[a])
      BY DEF QuietCardsAgree
    <3>1. \/ server[a] = "none" \/ server[a] = "pending" \/ server[a] = "cancelled"
          \/ server[a] \in Decision
      BY DEF TypeOK
    <3>2. CardsTrue
      BY DEF Truth
    <3> QED BY <3>1, <3>2
  <2>1. CardFollows(a)
    BY DEF CardsFollow
  <2>2. ~Told(a) /\ ~Announced(a) /\ ~Noticed(a) /\ ~InFlight(a)
    BY DEF Quiet, Told, Announced, Noticed, InFlight, Unanswered
  <2>3. state[a] \in CardState /\ state[a].tag \in Tag
    BY DEF TypeOK, CardState
  <2>4. state[a].tag = "decided" => state[a].d \in Decision /\ server[a] = state[a].d
    BY DEF CardsTrue
  <2>5. state[a].tag = "decided" => state[a] = Card("decided", state[a].d)
    BY <2>3 DEF CardState, Card
  <2>6. server[a] # "none" => Known(a)
    BY <2>1, <2>2 DEF CardFollows
  <2>7. Settled(a) => ~Fresh(a)
    BY <2>1, <2>2 DEF CardFollows
  <2>8. state[a].tag # "pending"
    BY <2>1, <2>2 DEF CardFollows, Waits
  <2>9. Known(a) => server[a] # "none"
    BY <2>1 DEF CardFollows
  <2>10. state[a].tag = "failed" => server[a] = "cancelled"
    BY <2>1 DEF CardFollows
  <2> QED BY <2>3, <2>4, <2>5, <2>6, <2>7, <2>8, <2>9, <2>10
          DEF Known, Fresh, Settled, Tag
<1> QED BY <1>1, <1>2, <1>3, TypeCorrect, SliceCorrect, TruthHolds, PTL DEF Spec

-----------------------------------------------------------------------------
(* The cards implement ApprovalLedger. *)

(* The server's rulings are final.                                         *)
LEMMA RulingsStay ==
  ASSUME TypeOK, [Next]_vars, NEW x \in Approval
  PROVE  /\ server[x] # "none" => server'[x] # "none"
         /\ server[x] = "cancelled" => server'[x] = "cancelled"
<1> USE ApprovalsAssumption
<1>1. CASE UNCHANGED server
  BY <1>1
<1>2. CASE Raise \/ DecideElsewhere \/ Cancel
  BY <1>2 DEF Raise, DecideElsewhere, Cancel, TypeOK
<1>3. CASE Reach
  <2>1. PICK outcome \in Outcome, rec \in MaybeDecision : Serve(Head(wire), rec, outcome)
    BY <1>3 DEF Reach
  <2>2. Head(wire) \in Answer
    BY <1>3, QueueTail DEF Reach, TypeOK
  <2>3. Head(wire).d \in Decision
    BY <2>2 DEF Answer
  <2> QED BY <2>1, <2>3 DEF Serve, TypeOK
<1> QED BY <1>1, <1>2, <1>3 DEF Next, Click, UiThread, Draw, HandleClick, FoldAnswer,
           FoldReply, FoldNotice, Agent, Deliver, TransportEnds, Replace, Server,
           Replay, Lose, vars

(* A card that is there stays, and one appears only when it was announced. *)
LEMMA KnownStep ==
  ASSUME TypeOK, [Next]_vars, NEW x \in Approval
  PROVE  (Known(x) => Known(x)') /\ (Known(x)' => Known(x) \/ Told(x))
<1>0. state \in [Approval -> CardState] /\ order \in Seq(Approval) /\ events \in Seq(Notice)
  BY DEF TypeOK
<1>1. CASE UNCHANGED state
  BY <1>1 DEF Known
<1>2. CASE FoldAnswer
  <2>1. PICK i \in DOMAIN posted :
          posted[i].a \in Approval /\ pending_response(posted[i].a, posted[i].d)
    BY <1>2, AnswerFolded
  <2> QED BY <1>0, <2>1 DEF pending_response, Known, Card
<1>3. CASE FoldReply
  <2> DEFINE r == Head(posted)
  <2>1. r.a \in Approval /\ (decided(r.a, r.d) \/ decided(r.a, Recorded(r)) \/ failed(r.a))
    BY <1>3, ReplyFolded
  <2> HIDE DEF r
  <2> QED BY <1>0, <2>1 DEF decided, failed, sliceVars, Known, Card
<1>4. CASE FoldNotice
  <2> DEFINE e == Head(events)
  <2>1. /\ e.a \in Approval /\ (requested(e.a) \/ decided(e.a, e.d) \/ cancelled(e.a))
        /\ events # <<>>
    BY <1>4, NoticeFolded
  <2>2. 1 \in DOMAIN events /\ e = events[1]
    BY <1>0, <2>1, QueueTail
  <2>3. Told(e.a)
    BY <2>2 DEF Told
  <2> HIDE DEF e
  <2>4. (Known(x) => Known(x)') /\ (Known(x)' => Known(x) \/ x = e.a)
    BY <1>0, <2>1 DEF requested, decided, cancelled, sliceVars, Known, Card
  <2> QED BY <2>3, <2>4
<1> QED BY <1>1, <1>2, <1>3, <1>4
        DEF Next, Click, UiThread, Draw, HandleClick, Agent, Deliver, TransportEnds, Replace,
            Server, Raise, DecideElsewhere, Cancel, Replay, Reach, Lose, vars, sliceVars

(* Only a card that is there is answered.                                  *)
LEMMA HandledIsKnown ==
  ASSUME TypeOK, SliceShape, HandleClick
  PROVE  \/ UNCHANGED posted
         \/ \E b \in Approval, u \in Ui :
              Known(b) /\ u.a = b /\ posted' = Append(posted, u)
<1> SUFFICES ASSUME ~UNCHANGED posted
             PROVE  \E b \in Approval, u \in Ui :
                      Known(b) /\ u.a = b /\ posted' = Append(posted, u)
  OBVIOUS
<1>1. PICK b \in CardAt(click.i) :
        posted' = Append(posted, [kind |-> "ui", n |-> clicks, a |-> b, d |-> click.d])
  BY DEF HandleClick
<1>2. b \in Approval
  BY ElementOfSeq, LenProperties DEF CardAt, Below, TypeOK
<1>3. Known(b)
  <2>1. CASE click.i \in DOMAIN order
    BY <1>1, <1>2, <2>1 DEF CardAt, SliceShape, Queued
  <2>2. CASE click.i \notin DOMAIN order
    BY <1>1, <2>2 DEF CardAt, Below, Known
  <2> QED BY <2>1, <2>2
<1>4. [kind |-> "ui", n |-> clicks, a |-> b, d |-> click.d] \in Ui
  BY <1>2 DEF HandleClick, TypeOK, Ui
<1>5. [kind |-> "ui", n |-> clicks, a |-> b, d |-> click.d].a = b
  OBVIOUS
<1> QED BY <1>1, <1>2, <1>3, <1>4, <1>5

(* What is under way was under way, or answers a card that is there.       *)
LEMMA UnderWayStep ==
  ASSUME TypeOK, SliceShape, [Next]_vars, NEW x \in Approval, UnderWay(x)'
  PROVE  UnderWay(x) \/ Known(x)
<1>0. /\ posted \in Seq(Ui \cup Async) /\ wire \in Seq(Answer)
      /\ replies \subseteq Reply /\ lost \subseteq Answer
  BY DEF TypeOK
<1>1. CASE UNCHANGED <<posted, wire, replies, lost>>
  BY <1>1 DEF UnderWay, Asked, Answered
<1>2. CASE HandleClick
  <2>1. UNCHANGED <<wire, replies, lost>>
    BY <1>2 DEF HandleClick, agentVars
  <2>2. ASSUME NEW b \in Approval, NEW u \in Ui, Known(b), u.a = b, posted' = Append(posted, u)
        PROVE  UnderWay(x) \/ Known(x)
    <3>1. \A k \in DOMAIN posted' : (k \in DOMAIN posted /\ posted'[k] = posted[k]) \/ posted'[k] = u
      BY <1>0, <2>2, QueueAppend
    <3> QED BY <2>1, <2>2, <3>1 DEF UnderWay, Asked, Answered
  <2> QED BY <1>1, <1>2, <2>1, <2>2, HandledIsKnown
<1>3. CASE FoldAnswer
  <2>1. PICK i \in DOMAIN posted :
          /\ posted[i].kind = "ui"
          /\ posted[i].a \in Approval /\ posted[i].d \in Button /\ posted[i].n \in 1..MaxClicks
          /\ Respond(RemoveAt(posted, i), posted[i])
    BY <1>3, AnswerFolded
  <2> DEFINE q == RemoveAt(posted, i)
             w == [n |-> posted[i].n, a |-> posted[i].a, d |-> posted[i].d]
             r == [kind |-> "async", a |-> posted[i].a, d |-> posted[i].d,
                   outcome |-> "error", rec |-> Undecided]
  <2>2. UNCHANGED <<replies, lost>>
    BY <1>3 DEF FoldAnswer
  <2>3. q \in Seq(Ui \cup Async) /\ \A k \in DOMAIN q : \E j \in DOMAIN posted : q[k] = posted[j]
    BY <1>0, RemoveAtOK, RemoveAtKeeps
  <2>4. w \in Answer /\ w.a = posted[i].a /\ r \in Ui \cup Async /\ r.a = posted[i].a
    BY <2>1, DecisionsOK DEF Answer, Async, Outcome
  <2>5. \/ wire' = Append(wire, w) /\ posted' = q
        \/ wire' = wire /\ posted' = Append(q, r)
    BY <2>1 DEF Respond, PostReply
  <2> HIDE DEF q, w, r
  <2>6. \A k \in DOMAIN wire' : wire'[k] = w \/ \E j \in DOMAIN wire : wire'[k] = wire[j]
    <3>1. CASE wire' = wire
      BY <3>1
    <3>2. CASE wire' = Append(wire, w)
      BY <1>0, <2>4, <3>2, QueueAppend
    <3> QED BY <2>5, <3>1, <3>2
  <2>7. \A k \in DOMAIN posted' : posted'[k] = r \/ \E j \in DOMAIN posted : posted'[k] = posted[j]
    BY <2>3, <2>4, <2>5, QueueAppend
  <2> QED BY <2>2, <2>4, <2>6, <2>7 DEF UnderWay, Asked, Answered
<1>4. CASE FoldReply
  <2>1. UNCHANGED <<wire, replies, lost>>
    BY <1>4 DEF FoldReply, agentVars
  <2>2. \A k \in DOMAIN posted' : \E j \in DOMAIN posted : posted'[k] = posted[j]
    BY <1>0, <1>4, QueueTail DEF FoldReply
  <2> QED BY <2>1, <2>2 DEF UnderWay, Asked, Answered
<1>5. CASE Deliver
  <2>1. PICK r \in replies : /\ replies' = replies \ {r}
                             /\ posted' = PostReply(posted, r.a, r.d, r.outcome, r.rec)
    BY <1>5 DEF Deliver
  <2> DEFINE m == [kind |-> "async", a |-> r.a, d |-> r.d, outcome |-> r.outcome, rec |-> r.rec]
  <2>2. m \in Ui \cup Async /\ m.a = r.a /\ posted' = Append(posted, m)
    BY <1>0, <2>1 DEF Reply, Async, PostReply
  <2> HIDE DEF m
  <2>3. \A k \in DOMAIN posted' : posted'[k] = m \/ \E j \in DOMAIN posted : posted'[k] = posted[j]
    BY <1>0, <2>2, QueueAppend
  <2>4. UNCHANGED <<wire, lost>>
    BY <1>5 DEF Deliver
  <2> QED BY <2>1, <2>2, <2>3, <2>4 DEF UnderWay, Asked, Answered
<1>6. CASE TransportEnds
  <2>1. UNCHANGED posted /\ replies' = replies \cup {Dropped(r) : r \in Unanswered}
        /\ wire' = <<>> /\ lost' = {}
    BY <1>6 DEF TransportEnds, uiVars
  <2>2. \A r : Dropped(r).a = r.a
    BY DEF Dropped
  <2>3. \A p \in replies' : p \in replies \/ \E r \in Unanswered : p.a = r.a
    BY <2>1, <2>2
  <2>4. DOMAIN wire' = {}
    BY <2>1
  <2> QED BY <2>1, <2>3, <2>4 DEF UnderWay, Asked, Answered, Unanswered
<1>7. CASE Replace
  <2>1. UNCHANGED posted /\ DOMAIN wire' = {} /\ replies' = {} /\ lost' = {}
    BY <1>7 DEF Replace, uiVars
  <2> QED BY <2>1 DEF UnderWay, Asked, Answered
<1>8. CASE Reach \/ Lose
  <2>1. UNCHANGED posted /\ wire # <<>> /\ wire' = Tail(wire)
    BY <1>8 DEF Reach, Lose, uiVars
  <2>2. 1 \in DOMAIN wire /\ Head(wire) = wire[1]
        /\ \A k \in DOMAIN wire' : \E j \in DOMAIN wire : wire'[k] = wire[j]
    BY <1>0, <2>1, QueueTail
  <2>3. \A r \in replies' : r \in replies \/ r.a = Head(wire).a
    <3>1. CASE Lose
      BY <3>1 DEF Lose
    <3>2. CASE Reach
      <4>1. PICK outcome \in Outcome, rec \in MaybeDecision :
              \/ replies' = replies \cup {[n |-> Head(wire).n, a |-> Head(wire).a,
                                d |-> Head(wire).d, outcome |-> outcome, rec |-> rec]}
              \/ UNCHANGED replies
        BY <3>2 DEF Reach
      <4> QED BY <4>1
    <3> QED BY <1>8, <3>1, <3>2
  <2>4. \A r \in lost' : r \in lost \/ r = Head(wire)
    BY <1>8 DEF Reach, Lose
  <2> QED BY <2>1, <2>2, <2>3, <2>4 DEF UnderWay, Asked, Answered
<1> QED BY <1>1, <1>2, <1>3, <1>4, <1>5, <1>6, <1>7, <1>8
        DEF Next, Click, UiThread, Draw, FoldNotice, Agent, Server, Raise, DecideElsewhere,
            Cancel, Replay, vars, sliceVars, uiVars, agentVars

(* Every notification is of an approval that was raised.                   *)
LEMMA NoticesGrounded ==
  ASSUME TypeOK, Grounded, [Next]_vars
  PROVE  /\ \A x \in Approval : Told(x)' => server'[x] # "none"
         /\ (\A i \in DOMAIN events :
               events[i].kind = "cancelled" => server[events[i].a] = "cancelled")'
<1> USE ApprovalsAssumption, DecisionsOK
<1>0. events \in Seq(Notice)
  BY DEF TypeOK
<1>1. CASE \A k \in DOMAIN events' : \E j \in DOMAIN events : events'[k] = events[j]
  BY <1>1, RulingsStay, QueuesTyped DEF Grounded, Told
<1>2. ASSUME NEW kind \in {"requested", "decided", "cancelled"}, NEW a \in Approval,
             NEW d \in MaybeDecision, Notify(kind, a, d), server'[a] # "none",
             kind = "cancelled" => server'[a] = "cancelled"
      PROVE  /\ \A x \in Approval : Told(x)' => server'[x] # "none"
             /\ (\A i \in DOMAIN events :
                   events[i].kind = "cancelled" => server[events[i].a] = "cancelled")'
  <2> DEFINE e == [kind |-> kind, a |-> a, d |-> d]
  <2>1. e \in Notice /\ e.a = a /\ e.kind = kind /\ events' = Append(events, e)
    BY <1>2 DEF Notice, Notify
  <2> HIDE DEF e
  <2>2. \A k \in DOMAIN events' : events'[k] = e \/ \E j \in DOMAIN events : events'[k] = events[j]
    BY <1>0, <2>1, QueueAppend
  <2> QED BY <1>2, <2>1, <2>2, RulingsStay, QueuesTyped DEF Grounded, Told
<1>3. CASE UNCHANGED events
  BY <1>1, <1>3
<1>4. CASE FoldNotice
  BY <1>0, <1>1, <1>4, QueueTail DEF FoldNotice
<1>5. CASE Replace
  <2>1. DOMAIN events' = {}
    BY <1>5 DEF Replace
  <2> QED BY <1>1, <2>1
<1>6. CASE Raise
  BY <1>2, <1>6 DEF Raise, TypeOK
<1>7. CASE DecideElsewhere
  BY <1>2, <1>7 DEF DecideElsewhere, TypeOK
<1>8. CASE Cancel
  BY <1>2, <1>8 DEF Cancel, TypeOK
<1>9. CASE Replay
  BY <1>2, <1>9 DEF Replay
<1> QED BY <1>3, <1>4, <1>5, <1>6, <1>7, <1>8, <1>9
        DEF Next, Click, UiThread, Draw, HandleClick, FoldAnswer, FoldReply, Agent, Deliver,
            TransportEnds, Server, Reach, Lose, vars

(* With nothing lost, an error comes from a cancelled approval.            *)
Lossless ==
  /\ agent = "up" /\ lost = {}
  /\ \A r \in replies : ErrsOnCancelled(r)
  /\ \A i \in DOMAIN posted : posted[i].kind = "async" => ErrsOnCancelled(posted[i])

LEMMA LosslessStep ==
  ASSUME TypeOK, Grounded, ~MayLose, [Next]_vars
  PROVE  Lossless'
<1> USE ApprovalsAssumption, DecisionsOK
<1>0. /\ posted \in Seq(Ui \cup Async) /\ wire \in Seq(Answer) /\ replies \subseteq Reply
      /\ Lossless
  BY DEF TypeOK, Grounded, Lossless
<1>1. \A r : r.a \in Approval /\ ErrsOnCancelled(r) /\ r.outcome = "error"
               => server'[r.a] = "cancelled"
  BY RulingsStay DEF ErrsOnCancelled
<1>2. \A r \in replies : r.a \in Approval
  BY <1>0 DEF Reply
<1>3. agent' = "up" /\ lost' = {}
  BY <1>0 DEF Lossless, Next, Click, UiThread, Draw, HandleClick, FoldAnswer, FoldReply,
     FoldNotice, Agent, Deliver, TransportEnds, Replace, Server, Raise, DecideElsewhere,
     Cancel, Replay, Reach, Lose, vars, agentVars
<1>4. (\A r \in replies : ErrsOnCancelled(r))'
  <2>1. CASE replies' \subseteq replies
    BY <1>0, <1>1, <1>2, <2>1 DEF Lossless, ErrsOnCancelled
  <2>2. CASE Reach
    <3> DEFINE w == Head(wire)
    <3>1. PICK outcome \in Outcome, rec \in MaybeDecision :
            /\ Serve(w, rec, outcome)
            /\ replies' = replies \cup {[n |-> w.n, a |-> w.a, d |-> w.d,
                                         outcome |-> outcome, rec |-> rec]}
      BY <2>2 DEF Reach
    <3>2. w \in Answer /\ 1 \in DOMAIN wire /\ w = wire[1]
      BY <1>0, <2>2, QueueTail DEF Reach
    <3>3. w.a \in Approval /\ w.d \in Decision
      BY <3>2 DEF Answer
    <3> HIDE DEF w
    <3>4. server[w.a] # "none"
      BY <3>2, <3>3 DEF Grounded, UnderWay, Answered
    <3>5. outcome = "error" => server'[w.a] = "cancelled"
      BY <3>1, <3>3, <3>4 DEF Serve, TypeOK
    <3> QED BY <1>0, <1>1, <1>2, <3>1, <3>5 DEF Lossless, ErrsOnCancelled
  <2> QED BY <2>1, <2>2 DEF Next, Click, UiThread, Draw, HandleClick, FoldAnswer, FoldReply,
             FoldNotice, Agent, Deliver, TransportEnds, Replace, Server, Raise,
             DecideElsewhere, Cancel, Replay, Lose, vars, agentVars
<1>5. (\A i \in DOMAIN posted : posted[i].kind = "async" => ErrsOnCancelled(posted[i]))'
  <2>1. ASSUME \A k \in DOMAIN posted' :
                 \/ posted'[k].kind = "ui"
                 \/ \E j \in DOMAIN posted : posted'[k] = posted[j]
                 \/ \E r \in replies : posted'[k].a = r.a /\ posted'[k].outcome = r.outcome
        PROVE  (\A i \in DOMAIN posted : posted[i].kind = "async" => ErrsOnCancelled(posted[i]))'
    BY <1>0, <1>1, <1>2, <2>1, QueuesTyped DEF Lossless, ErrsOnCancelled
  <2>2. CASE UNCHANGED posted
    BY <2>1, <2>2
  <2>3. CASE HandleClick
    <3> DEFINE u(b) == [kind |-> "ui", n |-> clicks, a |-> b, d |-> click.d]
    <3>1. ASSUME NEW b \in CardAt(click.i), posted' = Append(posted, u(b))
          PROVE  \A k \in DOMAIN posted' :
                   posted'[k].kind = "ui" \/ \E j \in DOMAIN posted : posted'[k] = posted[j]
      <4>1. b \in Approval
        BY ElementOfSeq, LenProperties DEF CardAt, Below, TypeOK
      <4>2. u(b) \in Ui \cup Async /\ u(b).kind = "ui"
        BY <2>3, <4>1 DEF HandleClick, TypeOK, Ui
      <4> HIDE DEF u
      <4> QED BY <1>0, <3>1, <4>2, QueueAppend
    <3> QED BY <2>1, <2>2, <2>3, <3>1 DEF HandleClick
  <2>4. CASE FoldAnswer
    <3>1. PICK i \in DOMAIN posted : Respond(RemoveAt(posted, i), posted[i])
      BY <2>4, AnswerFolded
    <3>2. posted' = RemoveAt(posted, i)
      BY <1>0, <3>1 DEF Respond, Lossless
    <3>3. \A k \in DOMAIN posted' : \E j \in DOMAIN posted : posted'[k] = posted[j]
      BY <1>0, <3>2, RemoveAtKeeps
    <3> QED BY <2>1, <3>3
  <2>5. CASE FoldReply
    BY <1>0, <2>1, <2>5, QueueTail DEF FoldReply
  <2>6. CASE Deliver
    <3>1. PICK r \in replies : posted' = PostReply(posted, r.a, r.d, r.outcome, r.rec)
      BY <2>6 DEF Deliver
    <3> DEFINE m == [kind |-> "async", a |-> r.a, d |-> r.d, outcome |-> r.outcome, rec |-> r.rec]
    <3>2. m \in Ui \cup Async /\ m.a = r.a /\ m.outcome = r.outcome /\ posted' = Append(posted, m)
      BY <1>0, <3>1 DEF Reply, Async, PostReply
    <3> HIDE DEF m
    <3>3. \A k \in DOMAIN posted' : posted'[k] = m \/ \E j \in DOMAIN posted : posted'[k] = posted[j]
      BY <1>0, <3>2, QueueAppend
    <3> QED BY <2>1, <3>2, <3>3
  <2> QED BY <2>2, <2>3, <2>4, <2>5, <2>6 DEF Next, Click, UiThread, Draw, FoldNotice, Agent,
             TransportEnds, Replace, Server, Raise, DecideElsewhere, Cancel, Replay, Reach, Lose,
             vars, uiVars
<1> QED BY <1>3, <1>4, <1>5 DEF Lossless

LEMMA GroundedHolds == Spec => []Grounded
<1> USE ApprovalsAssumption
<1>1. Init => Grounded
  <2> SUFFICES ASSUME Init PROVE Grounded
    OBVIOUS
  <2>1. DOMAIN <<>> = {}
    OBVIOUS
  <2>2. /\ posted = <<>> /\ wire = <<>> /\ events = <<>> /\ replies = {} /\ lost = {}
        /\ agent = "up" /\ \A a \in Approval : ~Known(a)
    BY DEF Init, Known, Card
  <2> QED BY <2>1, <2>2 DEF Grounded, Told, UnderWay, Asked, Answered
<1>2. TypeOK /\ SliceShape /\ Grounded /\ [Next]_vars => Grounded'
  <2> SUFFICES ASSUME TypeOK, SliceShape, Grounded, [Next]_vars PROVE Grounded'
    OBVIOUS
  <2>1. ASSUME NEW x \in Approval
        PROVE  (Known(x)' \/ Told(x)' => server'[x] # "none") /\ (UnderWay(x)' => Known(x)')
    <3>1. (Known(x) \/ Told(x) => server[x] # "none") /\ (UnderWay(x) => Known(x))
      BY DEF Grounded
    <3>2. Known(x)' => server'[x] # "none"
      BY <3>1, KnownStep, RulingsStay
    <3>3. Told(x)' => server'[x] # "none"
      BY NoticesGrounded
    <3>4. UnderWay(x)' => Known(x)'
      BY <3>1, KnownStep, UnderWayStep
    <3> QED BY <3>2, <3>3, <3>4
  <2>2. (\A i \in DOMAIN events :
           events[i].kind = "cancelled" => server[events[i].a] = "cancelled")'
    BY NoticesGrounded
  <2>3. ~MayLose => Lossless'
    BY LosslessStep
  <2> QED BY <2>1, <2>2, <2>3 DEF Grounded, Lossless
<1> QED BY <1>1, <1>2, TypeCorrect, SliceCorrect, PTL DEF Spec

(* One face of a card changes, or none does.                               *)
LEMMA FaceTurned ==
  ASSUME TypeOK, Grounded, Truth, Decision = Button, NEW a \in Approval, UNCHANGED server
  PROVE  /\ requested(a) /\ Told(a) =>
              Ledger!Appear(a) \/ UNCHANGED state
         /\ \A d \in Decision : pending_response(a, d) /\ Known(a) => Ledger!Send(a, d)
         /\ decided(a, server[a]) /\ server[a] \in Decision =>
              Ledger!Settle(a) \/ UNCHANGED state
         /\ failed(a) \/ cancelled(a) =>
              (MayLose \/ server[a] = "cancelled" => Ledger!Fail(a) \/ UNCHANGED state)
<1>1. Told(a) => server[a] # "none"
  BY DEF Grounded
<1>2. Ledger!Present(a) <=> Known(a)
  BY DEF Ledger!Present, Known
<1>3. \A tag, d : Ledger!Shows(tag, d) = Card(tag, d)
  BY DEF Ledger!Shows, Card
<1> QED BY <1>1, <1>2, <1>3
        DEF requested, pending_response, decided, failed, cancelled, sliceVars,
            Ledger!Appear, Ledger!Send, Ledger!Settle, Ledger!Fail, Ledger!Turn

(* The server rules on one approval.                                       *)
LEMMA ServerRules ==
  ASSUME TypeOK, Raise \/ DecideElsewhere \/ Cancel \/ Reach, Decision = Button
  PROVE  (\E a \in Approval : Ledger!Server(a)) \/ UNCHANGED <<state, server>>
<1> USE DEF Ledger!Server, Ledger!Rule
<1>1. CASE Raise
  BY <1>1 DEF Raise, sliceVars
<1>2. CASE DecideElsewhere
  BY <1>2 DEF DecideElsewhere, sliceVars
<1>3. CASE Cancel
  BY <1>3 DEF Cancel, sliceVars
<1>4. CASE Reach
  <2>1. PICK outcome \in Outcome, rec \in MaybeDecision : Serve(Head(wire), rec, outcome)
    BY <1>4 DEF Reach
  <2>2. Head(wire) \in Answer
    BY <1>4, QueueTail DEF Reach, TypeOK
  <2>3. Head(wire).a \in Approval /\ Head(wire).d \in Decision
    BY <2>2 DEF Answer
  <2>4. UNCHANGED state
    BY <1>4 DEF Reach, sliceVars
  <2> QED BY <2>1, <2>3, <2>4 DEF Serve
<1> QED BY <1>1, <1>2, <1>3, <1>4

(* The cards do what ApprovalLedger promises, for any number of cards and  *)
(* clicks, whatever is lost, overtaken or replayed: each step turns one    *)
(* card as the ledger allows, or records one ruling of the server, or does *)
(* not show (store/approvals.rs 30-83, main.rs 5470-5533).                 *)
THEOREM CardsImplementLedger ==
  ASSUME Decision = Button PROVE Spec => ImplementsLedger
<1>1. Init => Ledger!Init
  BY DEF Init, Ledger!Init, Ledger!Shows, Card
<1>2. TypeOK /\ Truth /\ Grounded /\ [Next]_vars => [Ledger!Next]_<<state, server>>
  <2> SUFFICES ASSUME TypeOK, Truth, Grounded, [Next]_vars
               PROVE  \/ UNCHANGED <<state, server>>
                      \/ \E a \in Approval : Ledger!Server(a) \/ Ledger!CardOf(a)
    BY DEF Ledger!Next
  <2>1. CASE Raise \/ DecideElsewhere \/ Cancel \/ Reach
    BY <2>1, ServerRules
  <2>2. CASE FoldAnswer
    <3>1. PICK i \in DOMAIN posted :
            /\ posted[i].a \in Approval /\ posted[i].d \in Button
            /\ pending_response(posted[i].a, posted[i].d)
      BY <2>2, AnswerFolded
    <3>2. Known(posted[i].a)
      BY <3>1 DEF Grounded, UnderWay, Asked
    <3>3. UNCHANGED server
      BY <2>2 DEF FoldAnswer
    <3>4. Ledger!Send(posted[i].a, posted[i].d)
      BY <3>1, <3>2, <3>3, FaceTurned
    <3> QED BY <3>1, <3>4 DEF Ledger!CardOf
  <2>3. CASE FoldReply
    <3> DEFINE r == Head(posted)
    <3>1. /\ r \in Async /\ r.a \in Approval
          /\ \/ r.outcome = "accepted" /\ decided(r.a, r.d)
             \/ r.outcome = "not_pending" /\ decided(r.a, Recorded(r))
             \/ r.outcome = "error" /\ failed(r.a)
          /\ posted \in Seq(Ui \cup Async) /\ posted # <<>>
      BY <2>3, ReplyFolded
    <3>2. 1 \in DOMAIN posted /\ r = posted[1] /\ r.kind = "async"
      BY <3>1, QueueTail DEF Async
    <3>3. Says(server, r)
      BY <3>2 DEF Truth, PostedTrue
    <3>4. ~MayLose => ErrsOnCancelled(r)
      BY <3>2 DEF Grounded
    <3>5. UNCHANGED server
      BY <2>3 DEF FoldReply
    <3> HIDE DEF r
    <3>6. CASE r.outcome = "error" /\ failed(r.a)
      <4>1. MayLose \/ server[r.a] = "cancelled"
        BY <3>4, <3>6 DEF ErrsOnCancelled
      <4> QED BY <3>1, <3>5, <3>6, <4>1, FaceTurned DEF Ledger!CardOf
    <3>7. CASE r.outcome # "error"
      <4>1. server[r.a] \in Decision /\ decided(r.a, server[r.a])
        BY <3>1, <3>3, <3>7 DEF Says, Recorded
      <4> QED BY <3>1, <3>5, <4>1, FaceTurned DEF Ledger!CardOf
    <3> QED BY <3>1, <3>6, <3>7
  <2>4. CASE FoldNotice
    <3> DEFINE e == Head(events)
    <3>1. /\ e.a \in Approval /\ events \in Seq(Notice) /\ events # <<>>
          /\ \/ e.kind = "requested" /\ requested(e.a)
             \/ e.kind = "decided" /\ decided(e.a, e.d)
             \/ e.kind = "cancelled" /\ cancelled(e.a)
      BY <2>4, NoticeFolded
    <3>2. 1 \in DOMAIN events /\ e = events[1]
      BY <3>1, QueueTail
    <3>3. Told(e.a)
      BY <3>2 DEF Told
    <3>4. e.kind = "decided" => e.d \in Decision /\ server[e.a] = e.d
      BY <3>2 DEF Truth, NoticesTrue
    <3>5. e.kind = "cancelled" => server[e.a] = "cancelled"
      BY <3>2 DEF Grounded
    <3>6. UNCHANGED server
      BY <2>4 DEF FoldNotice
    <3> HIDE DEF e
    <3> QED BY <3>1, <3>3, <3>4, <3>5, <3>6, FaceTurned DEF Ledger!CardOf
  <2>5. CASE Click \/ Draw \/ HandleClick \/ Agent \/ Replay \/ Lose \/ UNCHANGED vars
    BY <2>5 DEF Click, Draw, HandleClick, Agent, Deliver, TransportEnds, Replace, Replay,
       Lose, sliceVars, vars
  <2> QED BY <2>1, <2>2, <2>3, <2>4, <2>5 DEF Next, UiThread, Server
<1> QED BY <1>1, <1>2, TypeCorrect, TruthHolds, GroundedHolds, PTL
        DEF Spec, Ledger!Spec, ImplementsLedger
=============================================================================
