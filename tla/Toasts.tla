------------------------------- MODULE Toasts --------------------------------
(***************************************************************************)
(* The toast queue, the strip that shows its front, and the connection     *)
(* that the agent mirrors into the store (toasts.rs, main.rs,              *)
(* octos_ui.rs).  Every handler of the app ends in sync_toasts.  The texts *)
(* are left out.                                                           *)
(***************************************************************************)
EXTENDS Naturals

CONSTANT Capacity      \* of the queue

ASSUME ToastsAssumption == Capacity \in Nat \ {0}

VARIABLES
  link,         \* the agent's view of the connection
  connection,   \* state.connection, behind the top bar's dot
  toasts,       \* how many are queued
  strip         \* what it shows until its timer fires: the front, or one evicted since

toastVars == <<link, connection, toasts, strip>>

LinkState == {"Handshaking", "Live", "Reconnecting", "Failed"}

ToastsTypeOK ==
  /\ link \in LinkState
  /\ connection \in {"Offline", "Connected", "Reconnecting"}
  /\ toasts \in 0..Capacity /\ strip \in {"empty", "front", "evicted"}

-----------------------------------------------------------------------------
(* sync_toasts starts the timer, unless it runs. *)
SyncToasts(evicted) ==
  strip' = IF strip = "empty" THEN IF toasts' > 0 THEN "front" ELSE "empty"
           ELSE IF evicted THEN "evicted" ELSE strip

(* Mutant of Push: the capacity is not looked at. *)
PushUnbounded == toasts' = toasts + 1 /\ SyncToasts(FALSE)

(* ToastQueue::push: a full queue loses its front. *)
Push ==
  /\ toasts' = IF toasts = Capacity THEN toasts ELSE toasts + 1
  /\ SyncToasts(toasts = Capacity)

(* Mutant of TimerFires: the next toast waits for the next handler. *)
TimerFiresOnly ==
  /\ strip # "empty" /\ strip' = "empty"
  /\ toasts' = IF toasts > 0 THEN toasts - 1 ELSE 0
  /\ UNCHANGED <<link, connection>>

(* The strip's timer: DismissOldestToast, and the next one is shown. *)
TimerFires ==
  /\ strip # "empty"
  /\ toasts' = IF toasts > 0 THEN toasts - 1 ELSE 0
  /\ strip' = IF toasts' > 0 THEN "front" ELSE "empty"
  /\ UNCHANGED <<link, connection>>

(* Warnings, failovers, compactions. *)
Notify == Push /\ UNCHANGED <<link, connection>>

-----------------------------------------------------------------------------
(* fold_connection_into_store *)

ConnectionOf(st) == CASE st = "Live"         -> "Connected"
                      [] st = "Reconnecting" -> "Reconnecting"
                      [] OTHER               -> "Offline"

(* Idle and Dialing count as Handshaking, which has no toast.  The state    *)
(* events that are dropped are those of stages in between.  A further      *)
(* attempt to reconnect is another state, with a toast of its own.         *)
LinkChanges(st) ==
  /\ st # link \/ st = "Reconnecting"
  /\ link # "Failed"
  /\ link' = st /\ connection' = ConnectionOf(st)
  /\ IF st = "Handshaking" THEN UNCHANGED toasts /\ SyncToasts(FALSE) ELSE Push

(* A new agent starts from Idle; the dot keeps the old one's color. *)
NewLink == link' = "Handshaking" /\ UNCHANGED <<connection, toasts, strip>>

ToastsInit ==
  link = "Handshaking" /\ connection = "Offline" /\ toasts = 0 /\ strip = "empty"

(* A queued toast is shown, or one before it is and its timer will fire:    *)
(* none waits for something else to happen (main.rs 4327-4348, 5939-5949).  *)
ToastsAreTimed == toasts > 0 => strip # "empty"
=============================================================================
