------------------------------- MODULE MCShell -------------------------------
(* Shell on small instances: a server whose owner is not the profile that   *)
(* the client guesses, two sessions, two documents and an image.           *)
EXTENDS Shell, TLC

CONSTANTS h1, p1, p2, s1, s2, th1, th2, weather, app

SoloOwner == h1 :> p2
DefaultIdentity == [h |-> h1, p |-> p1]
Kinds == (1 :> "report") @@ (2 :> "report") @@ (3 :> "image")
=============================================================================
