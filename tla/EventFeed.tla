------------------------------ MODULE EventFeed ------------------------------
(***************************************************************************)
(* What the event path from socket to store promises: one lossless queue.  *)
(* A durable event is on the road from the moment that its cursor records  *)
(* it, other traffic comes and goes between such events, and each event of *)
(* the road is folded once, in the order of receipt.  Where a session      *)
(* joins its ledger, and whether it comes back there, is the server's and  *)
(* the client's affair, not this path's.                                   *)
(***************************************************************************)
EXTENDS Naturals, Sequences

CONSTANTS Session, MaxLedger,
          Other               \* the events that carry no sequence number
VARIABLES received, folded, road

Durable == [kind : {"durable"}, s : Session, n : 1..MaxLedger]

TypeOK == /\ received \in [Session -> 0..MaxLedger]
          /\ folded \in [Session -> 0..MaxLedger]
          /\ road \in Seq(Durable \cup Other)

(* A session goes on where an earlier process left it; 0 stands for one    *)
(* that has not joined yet.                                                *)
Init == /\ received \in [Session -> 0..MaxLedger] /\ folded = received
        /\ road \in Seq(Other)

Receive(e) ==
  /\ received' = [received EXCEPT ![e.s] = e.n] /\ road' = Append(road, e)
  /\ UNCHANGED folded

Traffic ==
  /\ Len(road') >= Len(road)
  /\ \A i \in DOMAIN road' : IF i <= Len(road) THEN road'[i] = road[i]
                                              ELSE road'[i] \in Other
  /\ UNCHANGED <<received, folded>>

Fold ==
  /\ road # <<>> /\ road' = Tail(road)
  /\ folded' = IF Head(road) \in Other THEN folded
               ELSE [folded EXCEPT ![Head(road).s] = Head(road).n]
  /\ UNCHANGED received

Next == Traffic \/ Fold \/ \E e \in Durable : Receive(e)

Spec == Init /\ [][Next]_<<received, folded, road>>
=============================================================================
