------------------------------- MODULE MCStore -------------------------------
(* Store on small instances: a turn with a tool call and a task in s1, a    *)
(* turn in s2.                                                             *)
EXTENDS Store, TLC

CONSTANTS s1, s2, t1, t2, k1, a1

Homes == (t1 :> s1) @@ (t2 :> s2) @@ (a1 :> s1)
Calls == (k1 :> t1)
=============================================================================
