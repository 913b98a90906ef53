---------------------------- MODULE ApprovalLedger ----------------------------
(***************************************************************************)
(* What the approval cards promise, whatever order clicks, replies and     *)
(* notifications come in.  The server rules on each approval once.  A card *)
(* appears once, for an approval that was raised; it may be answered again *)
(* and again, but it says decided only what was ruled, and it fails only   *)
(* when the approval was cancelled or something was lost.                  *)
(***************************************************************************)
CONSTANTS Approval, Decision, Undecided, MayLose
VARIABLES card, ruling

Tag == {"absent", "awaiting", "pending", "decided", "failed"}
TypeOK ==
  /\ card \in [Approval -> [tag : Tag, d : Decision \cup {Undecided}]]
  /\ ruling \in [Approval -> {"none", "pending", "cancelled"} \cup Decision]

Shows(tag, d) == [tag |-> tag, d |-> d]

Init == /\ card = [a \in Approval |-> Shows("absent", Undecided)]
        /\ ruling = [a \in Approval |-> "none"]

Rule(a, before, after) ==
  /\ ruling[a] = before /\ ruling' = [ruling EXCEPT ![a] = after]
  /\ UNCHANGED card

Present(a) == card[a].tag # "absent"
Turn(a, face) == card' = [card EXCEPT ![a] = face] /\ UNCHANGED ruling

Appear(a)  == ~Present(a) /\ ruling[a] # "none" /\ Turn(a, Shows("awaiting", Undecided))
Send(a, d) == Present(a) /\ Turn(a, Shows("pending", d))
Settle(a)  == Present(a) /\ ruling[a] \in Decision /\ Turn(a, Shows("decided", ruling[a]))
Fail(a)    == /\ Present(a) /\ (MayLose \/ ruling[a] = "cancelled")
              /\ Turn(a, Shows("failed", Undecided))

Server(a) == \/ Rule(a, "none", "pending") \/ Rule(a, "pending", "cancelled")
             \/ \E d \in Decision : Rule(a, "pending", d)
CardOf(a) == Appear(a) \/ Settle(a) \/ Fail(a) \/ \E d \in Decision : Send(a, d)

Next == \E a \in Approval : Server(a) \/ CardOf(a)

Spec == Init /\ [][Next]_<<card, ruling>>
=============================================================================
