------------------------------ MODULE CursorMap ------------------------------
(***************************************************************************)
(* What the persisted cursor store promises its user: a map from sessions  *)
(* to cursors (0 for none) that changes one session at a time.  A change   *)
(* is in doubt until the call returns; a crash decides every change in     *)
(* doubt, and loses nothing that was decided before.                       *)
(***************************************************************************)
EXTENDS Naturals

CONSTANTS Session, MaxSeq
VARIABLES stored, doubt

Update(p) == [stored EXCEPT ![p.s] = p.v]

TypeOK == /\ stored \in [Session -> 0..MaxSeq]
          /\ doubt \subseteq [s : Session, v : 0..MaxSeq]

Init == stored \in [Session -> 0..MaxSeq] /\ doubt = {}

Propose(p) == doubt = {} /\ doubt' = {p} /\ UNCHANGED stored

Accept == \E p \in doubt : stored' = Update(p) /\ doubt' = {}

Refuse == doubt # {} /\ doubt' = {} /\ UNCHANGED stored

Next == \/ \E p \in [s : Session, v : 0..MaxSeq] : Propose(p)
        \/ Accept \/ Refuse

Spec == Init /\ [][Next]_<<stored, doubt>>
=============================================================================
