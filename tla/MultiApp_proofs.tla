--------------------------- MODULE MultiApp_proofs ---------------------------
(***************************************************************************)
(* The routing of messages for any number of them, of apps, of sessions of *)
(* earlier launches and of words that the AMA may answer with.             *)
(*                                                                         *)
(* What ends a turn comes in many forms; Finishes is what they share, and  *)
(* Activates is the one branch of route_to_app that sends a prompt.        *)
(***************************************************************************)
EXTENDS MultiApp, SequenceTheorems, TLAPS

LEMMA SeqOps ==
  ASSUME NEW S, NEW q \in Seq(S)
  PROVE  /\ Len(q) \in Nat /\ DOMAIN q = 1..Len(q) /\ \A i \in DOMAIN q : q[i] \in S
         /\ \A e \in S : /\ Append(q, e) \in Seq(S) /\ Len(Append(q, e)) = Len(q) + 1
                         /\ DOMAIN Append(q, e) = 1..(Len(q) + 1)
                         /\ Append(q, e)[Len(q) + 1] = e
                         /\ \A i \in DOMAIN q : Append(q, e)[i] = q[i]
         /\ \A i \in DOMAIN q : \A e \in S : [q EXCEPT ![i] = e] \in Seq(S)
<1>1. /\ Len(q) \in Nat /\ DOMAIN q = 1..Len(q)
  BY LenProperties
<1>2. \A i \in DOMAIN q : q[i] \in S
  BY <1>1, ElementOfSeq
<1>3. ASSUME NEW e \in S
      PROVE  /\ Append(q, e) \in Seq(S) /\ Len(Append(q, e)) = Len(q) + 1
             /\ DOMAIN Append(q, e) = 1..(Len(q) + 1)
             /\ Append(q, e)[Len(q) + 1] = e
             /\ \A i \in DOMAIN q : Append(q, e)[i] = q[i]
  BY <1>1, AppendProperties, LenProperties
<1>4. \A i \in DOMAIN q : \A e \in S : [q EXCEPT ![i] = e] \in Seq(S)
  BY <1>1, ExceptSeq
<1> QED BY <1>1, <1>2, <1>3, <1>4

-----------------------------------------------------------------------------
(***************************************************************************)
(* The parts of the invariant.                                             *)
(***************************************************************************)
SentPrompt == [session : Session, intent : 1..Len(verdict), app : 0..MaxApps]
Screen == [messages : Seq(Message), streaming : SUBSET Prompt, busy : BOOLEAN]
Classifier == [session : Session, prompt : Prompt \cup {None},
               text : Answers \cup {Reason, NoText}, intent : 0..Len(verdict)]

\* The apps of the domains come first and in order; the user's own follow.
\* Sessions are numbered from one.
PlacesOK ==
  /\ nextSession > 0 /\ Len(apps) >= Len(Domains)
  /\ \A i \in DOMAIN apps :
       apps[i].domain = IF i <= Len(Domains) THEN Domains[i] ELSE NoDomain

\* An app tracks a prompt that was sent for it, and the AMA one of its own.
TrackedIsOwn ==
  /\ \A i \in DOMAIN apps : apps[i].prompt # None => sent[apps[i].prompt].app = i
  /\ ama.prompt # None => sent[ama.prompt].app = None

\* Each message is put to the AMA once; the held one has no app yet, and what the
\* AMA has said is what it says of that message.
AskedOnce ==
  /\ \A p, q \in Prompt :
       /\ sent[p].app = None /\ sent[q].app = None
       /\ sent[p].intent = sent[q].intent
       => p = q
  /\ ama.intent # None =>
       /\ ama.text = verdict[ama.intent]
       /\ \A p \in Prompt : sent[p].intent = ama.intent => sent[p].app = None

IInv ==
  /\ TypeOK /\ PlacesOK /\ TrackedIsOwn /\ AskedOnce
  /\ HeldMessageIsJudged /\ TrackedIsInFlight /\ BusyMeansWorking

-----------------------------------------------------------------------------
(***************************************************************************)
(* Lemmas.                                                                 *)
(***************************************************************************)
LEMMA DomainsAre ==
  /\ Len(Domains) = 3
  /\ \A i \in 1..3 : Domains[i] \in {"weather", "stock", "news"}
  /\ \A i, j \in 1..3 : Domains[i] = Domains[j] => i = j
<1>1. Len(Domains) = 3
  BY DEF Domains
<1>2. Domains[1] = "weather" /\ Domains[2] = "stock" /\ Domains[3] = "news"
  BY DEF Domains
<1>3. \A i \in 1..3 : i = 1 \/ i = 2 \/ i = 3
  OBVIOUS
<1> HIDE DEF Domains
<1>4. \A i \in 1..3 : Domains[i] \in {"weather", "stock", "news"}
  BY <1>2, <1>3
<1>5. \A i, j \in 1..3 : Domains[i] = Domains[j] => i = j
  BY <1>2, <1>3
<1> QED BY <1>1, <1>4, <1>5

(* What has its type keeps it when there are more sessions, prompts and messages. *)
LEMMA Carried ==
  ASSUME TypeOK, nextSession' \in Nat, nextSession' >= nextSession,
         Prompt \subseteq Prompt', Len(verdict') \in Nat, Len(verdict') >= Len(verdict)
  PROVE  /\ Session \subseteq Session' /\ App \subseteq App' /\ Message \subseteq Message'
         /\ sent \in Seq(SentPrompt') /\ apps \in Seq(App')
         /\ chat \in Screen' /\ ama \in Classifier'
         /\ hydrates \subseteq Session' /\ prompts \subseteq Prompt'
<1>1. Session \subseteq Session'
  BY DEF TypeOK, Session
<1>2. Message \subseteq Message'
  BY DEF Message
<1>3. \A q \in Seq(Message) : q \in Seq(Message')
  BY <1>2, SeqMonotonic
<1>4. App \subseteq App'
  <2> HIDE DEF Session, Message, Prompt
  <2> QED BY <1>1, <1>3 DEF App
<1>5. SentPrompt \subseteq SentPrompt'
  <2>1. 1..Len(verdict) \subseteq 1..Len(verdict')
    BY SeqOps DEF TypeOK
  <2> HIDE DEF Session
  <2> QED BY <1>1, <2>1 DEF SentPrompt
<1>6. sent \in Seq(SentPrompt) /\ apps \in Seq(App)
  BY DEF TypeOK, SentPrompt
<1>7. sent \in Seq(SentPrompt') /\ apps \in Seq(App')
  BY <1>4, <1>5, <1>6, SeqMonotonic
<1>8. chat \in Screen'
  <2> HIDE DEF Message, Prompt
  <2> QED BY <1>3 DEF TypeOK, Screen
<1>9. ama \in Classifier'
  <2>1. 0..Len(verdict) \subseteq 0..Len(verdict')
    BY SeqOps DEF TypeOK
  <2> HIDE DEF Session, Prompt
  <2> QED BY <1>1, <2>1 DEF TypeOK, Classifier
<1> HIDE DEF Session, Prompt, App, Message, Screen, Classifier, SentPrompt
<1> QED BY <1>1, <1>2, <1>4, <1>7, <1>8, <1>9 DEF TypeOK

(* The parts of the type invariant under their names here. *)
LEMMA TypeParts ==
  TypeOK <=>
    /\ nextSession \in Nat /\ moves \in Nat /\ live \subseteq Session
    /\ sent \in Seq(SentPrompt) /\ verdict \in Seq(Answers \cup {Reason, NoText})
    /\ apps \in Seq(App) /\ foreground \in DOMAIN apps
    /\ chat \in Screen /\ ama \in Classifier
    /\ hydrates \subseteq Session
    /\ prompts \subseteq Prompt /\ turns \subseteq prompts
BY DEF TypeOK, SentPrompt, Screen, Classifier

(* The app that a domain is routed to: there is one, at its place. *)
TheApp(d) == CHOOSE j \in AppsOf(d) : \A k \in AppsOf(d) : j <= k

LEMMA AppOfDomain ==
  ASSUME TypeOK, PlacesOK, NEW d, d # NoDomain, AppsOf(d) # {}
  PROVE  /\ TheApp(d) \in DOMAIN apps /\ apps[TheApp(d)].domain = d
         /\ TheApp(d) \in 1..Len(Domains)
<1>1. apps \in Seq(App)
  BY DEF TypeOK
<1>2. DOMAIN apps = 1..Len(apps) /\ Len(apps) \in Nat
  BY <1>1, SeqOps
<1>3. \A i \in AppsOf(d) : i \in 1..3 /\ Domains[i] = d
  BY <1>2, DomainsAre DEF AppsOf, PlacesOK
<1>4. \A i, j \in AppsOf(d) : i = j
  BY <1>3, DomainsAre
<1>5. PICK i \in AppsOf(d) : TRUE
  OBVIOUS
<1>6. \A k \in AppsOf(d) : i <= k
  BY <1>3, <1>4
<1>7. TheApp(d) \in AppsOf(d)
  BY <1>5, <1>6 DEF TheApp
<1> QED BY <1>3, <1>7, DomainsAre DEF AppsOf

-----------------------------------------------------------------------------
(***************************************************************************)
(* The shape of the steps that end a turn.  Settled(p) are the states that *)
(* the agent and the server may be in when the turn of p has ended, or has *)
(* been blamed for a refusal.                                              *)
(***************************************************************************)
Settled(p) ==
  {t \in [prompts : SUBSET Prompt, turns : SUBSET Prompt, moves : Nat] :
     /\ t.turns \subseteq t.prompts
     /\ t.prompts \subseteq prompts /\ prompts \ {p} \subseteq t.prompts}

Posts(p, t) ==
  /\ prompts' = t.prompts \cup {p}
  /\ turns' \subseteq t.turns \cup {p}
  /\ moves' \in {t.moves, t.moves + 1}

Activates(i, t) ==
  /\ ama.intent # None
  /\ i \in DOMAIN apps /\ i \in 1..Len(Domains)
  /\ foreground' = i /\ chat' = chat
  /\ apps' = [apps EXCEPT ![i].prompt = Len(sent) + 1]
  /\ sent' = Append(sent, [session |-> apps[i].session, intent |-> ama.intent, app |-> i])
  /\ Posts(Len(sent) + 1, t)

Idles(t) ==
  /\ \/ chat' = [chat EXCEPT !.busy = FALSE]
     \/ chat' = chat /\ ama.intent = None
  /\ Become(t) /\ apps' = apps /\ foreground' = foreground /\ sent' = sent

Finishes(p, t) ==
  /\ \/ /\ p = ama.prompt
        /\ ama' = [ama EXCEPT !.prompt = None, !.intent = None]
        /\ (\E i \in DOMAIN apps : Activates(i, t)) \/ Idles(t)
     \/ /\ p # ama.prompt /\ InBackground(p) /\ Badge(p, None) /\ chat' = chat
        /\ Become(t)
        /\ foreground' = foreground /\ ama' = ama /\ sent' = sent
     \/ /\ p # ama.prompt /\ ~InBackground(p)
        /\ \E added \in Seq(Message) : \E s \in SUBSET Prompt : EndsOnScreen(added, s)
        /\ Become(t)
        /\ foreground' = foreground /\ ama' = ama /\ sent' = sent
  /\ hydrates' = hydrates /\ nextSession' = nextSession
  /\ verdict' = verdict /\ live' = live

LEMMA SendPosts ==
  ASSUME NEW p, NEW s, NEW k, NEW i,
         NEW t \in [prompts : SUBSET Prompt, turns : SUBSET Prompt, moves : Nat],
         SendPrompt(p, s, k, i, t)
  PROVE  Posts(p, t) /\ sent' = Append(sent, [session |-> s, intent |-> k, app |-> i])
BY DEF SendPrompt, Become, Posts

LEMMA Routes ==
  ASSUME TypeOK, PlacesOK, NEW d, d # NoDomain, NEW p, NEW t \in Settled(p), RouteToApp(d, t)
  PROVE  /\ ama' = [ama EXCEPT !.prompt = None, !.intent = None]
         /\ \/ \E i \in DOMAIN apps : Activates(i, t) /\ apps[i].domain = d
            \/ Idles(t)
<1>1. ama' = [ama EXCEPT !.prompt = None, !.intent = None]
  BY DEF RouteToApp
<1>2. t \in [prompts : SUBSET Prompt, turns : SUBSET Prompt, moves : Nat]
  BY DEF Settled
<1> DEFINE i == TheApp(d)
<1>3. ASSUME ama.intent # None, AppsOf(d) # {}
      PROVE  \E j \in DOMAIN apps : Activates(j, t) /\ apps[j].domain = d
  <2>1. i \in DOMAIN apps /\ i \in 1..Len(Domains) /\ apps[i].domain = d
    BY <1>3, AppOfDomain
  <2>2. /\ foreground' = i /\ chat' = chat
        /\ apps' = [apps EXCEPT ![i].prompt = Len(sent) + 1]
        /\ SendPrompt(Len(sent) + 1, apps[i].session, ama.intent, i, t)
    BY <1>3 DEF RouteToApp, TheApp
  <2> HIDE DEF i
  <2>3. /\ Posts(Len(sent) + 1, t)
        /\ sent' = Append(sent, [session |-> apps[i].session, intent |-> ama.intent, app |-> i])
    BY <1>2, <2>2, SendPosts
  <2> QED BY <1>3, <2>1, <2>2, <2>3 DEF Activates
<1>4. ASSUME ama.intent = None \/ AppsOf(d) = {}
      PROVE  Idles(t)
  BY <1>4 DEF RouteToApp, Idles
<1> QED BY <1>1, <1>3, <1>4

LEMMA NowIs ==
  ASSUME TypeOK
  PROVE  /\ Now \in [prompts : SUBSET Prompt, turns : SUBSET Prompt, moves : Nat]
         /\ Now.prompts = prompts /\ Now.turns = turns /\ Now.moves = moves
<1> HIDE DEF Prompt
<1> QED BY DEF TypeOK, Now

LEMMA EndedSettles ==
  ASSUME TypeOK, NEW p
  PROVE  Ended(p) \in Settled(p)
<1>1. /\ Ended(p) \in [prompts : SUBSET Prompt, turns : SUBSET Prompt, moves : Nat]
      /\ Ended(p).prompts = prompts \ {p} /\ Ended(p).turns = turns \ {p} /\ Ended(p).moves = moves
  <2> HIDE DEF Prompt, Now
  <2> QED BY NowIs DEF Ended
<1> HIDE DEF Prompt
<1> QED BY <1>1 DEF TypeOK, Settled

LEMMA AssistantSays ==
  ASSUME TypeOK
  PROVE  /\ <<>> \in Seq(Message) /\ <<Says("assistant", chat.streaming)>> \in Seq(Message)
         /\ \A p \in Prompt : <<Says("error", {p})>> \in Seq(Message)
         /\ chat.streaming \in SUBSET Prompt /\ {} \in SUBSET Prompt
<1>1. chat.streaming \in SUBSET Prompt
  BY DEF TypeOK
<1>2. Says("assistant", chat.streaming) \in Message
  BY <1>1 DEF Says, Message
<1>3. \A p \in Prompt : Says("error", {p}) \in Message
  BY DEF Says, Message
<1>4. \A m \in Message : <<m>> \in Seq(Message)
  OBVIOUS
<1> HIDE DEF Message, Prompt, Says
<1> QED BY <1>1, <1>2, <1>3, <1>4, EmptySeq

LEMMA TextIsNoDomain == TypeOK => ama.text # NoDomain
BY MultiAppAssumption DEF TypeOK, NoDomain, Reason, NoText

LEMMA CompleteFinishes ==
  ASSUME TypeOK, PlacesOK, NEW p, TurnComplete(p)
  PROVE  Finishes(p, Ended(p))
<1>1. CASE p = ama.prompt
  <2>1. RouteToApp(ama.text, Ended(p))
    BY <1>1 DEF TurnComplete
  <2>2. /\ ama' = [ama EXCEPT !.prompt = None, !.intent = None]
        /\ (\E i \in DOMAIN apps : Activates(i, Ended(p))) \/ Idles(Ended(p))
    BY <2>1, Routes, EndedSettles, TextIsNoDomain
  <2> QED BY <1>1, <2>2 DEF TurnComplete, Finishes
<1>2. CASE p # ama.prompt /\ InBackground(p)
  BY <1>2 DEF TurnComplete, Finishes
<1>3. CASE p # ama.prompt /\ ~InBackground(p)
  <2>1. \E added \in Seq(Message) : \E s \in SUBSET Prompt : EndsOnScreen(added, s)
    <3>1. PICK added \in {<<>>, <<Says("assistant", chat.streaming)>>} : EndsOnScreen(added, {})
      BY <1>3 DEF TurnComplete
    <3>2. added \in Seq(Message) /\ {} \in SUBSET Prompt
      BY AssistantSays
    <3> QED BY <3>1, <3>2
  <2>2. /\ Become(Ended(p))
        /\ foreground' = foreground /\ ama' = ama /\ sent' = sent
        /\ hydrates' = hydrates /\ nextSession' = nextSession
        /\ verdict' = verdict /\ live' = live
    BY <1>3 DEF TurnComplete
  <2> QED BY <1>3, <2>1, <2>2 DEF Finishes
<1> QED BY <1>1, <1>2, <1>3

LEMMA ErrorFinishes ==
  ASSUME TypeOK, PlacesOK, NEW p \in Prompt, NEW q, NEW t \in Settled(q), PromptError(p, t)
  PROVE  Finishes(p, t)
<1>1. CASE p = ama.prompt
  <2>1. RouteToApp("weather", t) /\ "weather" # NoDomain
    BY <1>1 DEF PromptError, NoDomain
  <2>2. /\ ama' = [ama EXCEPT !.prompt = None, !.intent = None]
        /\ (\E i \in DOMAIN apps : Activates(i, t)) \/ Idles(t)
    BY <2>1, Routes
  <2> QED BY <1>1, <2>2 DEF PromptError, Finishes
<1>2. CASE p # ama.prompt /\ InBackground(p)
  BY <1>2 DEF PromptError, Finishes
<1>3. CASE p # ama.prompt /\ ~InBackground(p)
  <2>1. EndsOnScreen(<<Says("error", {p})>>, chat.streaming)
    BY <1>3 DEF PromptError
  <2>2. \E added \in Seq(Message) : \E s \in SUBSET Prompt : EndsOnScreen(added, s)
    BY <2>1, AssistantSays
  <2>3. /\ Become(t)
        /\ foreground' = foreground /\ ama' = ama /\ sent' = sent
        /\ hydrates' = hydrates /\ nextSession' = nextSession
        /\ verdict' = verdict /\ live' = live
    BY <1>3 DEF PromptError
  <2> QED BY <1>3, <2>2, <2>3 DEF Finishes
<1> QED BY <1>1, <1>2, <1>3

LEMMA RefusalSettles ==
  ASSUME TypeOK, NEW r, NEW p
  PROVE  [Now EXCEPT !.turns = @ \ {r}, !.moves = @ + 1] \in Settled(p)
<1> DEFINE t == [Now EXCEPT !.turns = @ \ {r}, !.moves = @ + 1]
<1>1. /\ t \in [prompts : SUBSET Prompt, turns : SUBSET Prompt, moves : Nat]
      /\ t.prompts = prompts /\ t.turns = turns \ {r} /\ t.moves = moves + 1
  <2>1. /\ Now \in [prompts : SUBSET Prompt, turns : SUBSET Prompt, moves : Nat]
        /\ Now.prompts = prompts /\ Now.turns = turns /\ Now.moves = moves
    BY NowIs
  <2>2. moves + 1 \in Nat
    BY DEF TypeOK
  <2> HIDE DEF Prompt, Now
  <2> QED BY <2>1, <2>2
<1> HIDE DEF t, Prompt
<1>2. t \in Settled(p)
  BY <1>1 DEF TypeOK, Settled
<1> QED BY <1>2 DEF t

(* Every end of a turn, and every refusal, finishes some prompt. *)
LEMMA EveryEndFinishes ==
  ASSUME TypeOK, PlacesOK,
         (\E p \in Prompt : Ends(p)) \/ (\E r \in Prompt \cup {None}, p \in Prompt : Refused(r, p))
  PROVE  \E p \in Prompt : \E t \in Settled(p) : Finishes(p, t)
<1>1. ASSUME NEW p \in Prompt, Ends(p) PROVE \E t \in Settled(p) : Finishes(p, t)
  <2>1. CASE TurnComplete(p)
    BY <2>1, CompleteFinishes, EndedSettles
  <2>2. CASE TurnError(p)
    <3>1. PromptError(p, Ended(p))
      BY <2>2 DEF TurnError
    <3> QED BY <3>1, ErrorFinishes, EndedSettles
  <2> QED BY <1>1, <2>1, <2>2 DEF Ends
<1>2. ASSUME NEW r \in Prompt \cup {None}, NEW p \in Prompt, Refused(r, p)
      PROVE  \E t \in Settled(p) : Finishes(p, t)
  <2>1. PromptError(p, [Now EXCEPT !.turns = @ \ {r}, !.moves = @ + 1])
    BY <1>2 DEF Refused
  <2> QED BY <2>1, ErrorFinishes, RefusalSettles
<1> QED BY <1>1, <1>2

-----------------------------------------------------------------------------
(***************************************************************************)
(* Types.                                                                  *)
(***************************************************************************)
AppIn(SS, PP, MM) ==
  [session : SS, domain : {"weather", "stock", "news", NoDomain},
   prompt : PP \cup {None}, updates : BOOLEAN, saved : Seq(MM)]

LEMMA AppOps ==
  ASSUME NEW SS, NEW PP, NEW MM, NEW q \in Seq(AppIn(SS, PP, MM))
  PROVE  /\ \A i \in DOMAIN q : \A p \in PP \cup {None} :
              [q EXCEPT ![i].prompt = p] \in Seq(AppIn(SS, PP, MM))
         /\ \A i \in DOMAIN q : \A b \in BOOLEAN :
              [q EXCEPT ![i].updates = b] \in Seq(AppIn(SS, PP, MM))
         /\ \A i \in DOMAIN q : \A m \in Seq(MM) :
              [q EXCEPT ![i].saved = m] \in Seq(AppIn(SS, PP, MM))
         /\ \A s \in SS : \A d \in {"weather", "stock", "news", NoDomain} :
              AppRecord(s, d) \in AppIn(SS, PP, MM)
         /\ \A i \in DOMAIN q : /\ q[i].saved \in Seq(MM) /\ q[i].session \in SS
                                /\ q[i].prompt \in PP \cup {None}
<1> DEFINE A == AppIn(SS, PP, MM)
<1>1. \A i \in DOMAIN q : q[i] \in A
  BY SeqOps
<1>2. \A a \in A : /\ \A p \in PP \cup {None} : [a EXCEPT !.prompt = p] \in A
                   /\ \A b \in BOOLEAN : [a EXCEPT !.updates = b] \in A
                   /\ \A m \in Seq(MM) : [a EXCEPT !.saved = m] \in A
                   /\ a.saved \in Seq(MM) /\ a.session \in SS /\ a.prompt \in PP \cup {None}
  BY DEF AppIn
<1>3. \A s \in SS : \A d \in {"weather", "stock", "news", NoDomain} : AppRecord(s, d) \in A
  <2>1. <<>> \in Seq(MM)
    BY EmptySeq
  <2> QED BY <2>1 DEF AppIn, AppRecord
<1> HIDE DEF A
<1>4. \A i \in DOMAIN q : \A e \in A : [q EXCEPT ![i] = e] \in Seq(A)
  <2>1. q \in Seq(A)
    BY DEF A
  <2> QED BY <2>1, SeqOps
<1>5. \A i \in DOMAIN q : \A p \in PP \cup {None} : [q EXCEPT ![i].prompt = p] \in Seq(A)
  BY <1>1, <1>2, <1>4
<1>6. \A i \in DOMAIN q : \A b \in BOOLEAN : [q EXCEPT ![i].updates = b] \in Seq(A)
  BY <1>1, <1>2, <1>4
<1>7. \A i \in DOMAIN q : \A m \in Seq(MM) : [q EXCEPT ![i].saved = m] \in Seq(A)
  BY <1>1, <1>2, <1>4
<1>8. \A i \in DOMAIN q : /\ q[i].saved \in Seq(MM) /\ q[i].session \in SS
                          /\ q[i].prompt \in PP \cup {None}
  BY <1>1, <1>2
<1> QED BY <1>3, <1>5, <1>6, <1>7, <1>8 DEF A

LEMMA AppIsIn == App = AppIn(Session, Prompt, Message) /\ App' = AppIn(Session', Prompt', Message')
BY DEF App, AppIn

LEMMA InitType == Init => TypeOK /\ PlacesOK
<1> SUFFICES ASSUME Init PROVE TypeOK /\ PlacesOK
  OBVIOUS
<1>1. nextSession = 5 /\ Session = (1..4) \cup OldSessions /\ Prompt = {}
  BY DomainsAre DEF Init, Session, Prompt
<1>2. apps = [i \in 1..3 |-> AppRecord(i, Domains[i])]
  BY DomainsAre DEF Init, FreshApps
<1>3. \A i \in 1..3 : AppRecord(i, Domains[i]) \in App
  <2>1. <<>> \in Seq(AppIn(Session, Prompt, Message))
    BY EmptySeq
  <2>2. \A i \in 1..3 : i \in Session
    BY <1>1
  <2> HIDE DEF Session, Prompt, Message
  <2> QED BY <2>1, <2>2, AppOps, AppIsIn, DomainsAre
<1>4. apps \in Seq(App) /\ DOMAIN apps = 1..3 /\ Len(apps) = 3
  <2> HIDE DEF App, AppRecord
  <2> QED BY <1>2, <1>3
<1>5. PlacesOK
  BY <1>1, <1>2, <1>4, DomainsAre DEF PlacesOK, AppRecord
<1>6. chat \in Screen
  <2>1. <<>> \in Seq(Message)
    BY EmptySeq
  <2> HIDE DEF Message, Prompt
  <2> QED BY <2>1 DEF Init, EmptyScreen, Screen
<1>7. ama \in Classifier
  <2>1. ama = [session |-> 4, prompt |-> None, text |-> NoText, intent |-> 0]
    BY DomainsAre DEF Init, None
  <2>2. 4 \in Session /\ 0 \in 0..Len(verdict)
    BY <1>1, EmptySeq DEF Init
  <2> HIDE DEF Session, Prompt
  <2> QED BY <2>1, <2>2 DEF Classifier
<1>8. sent \in Seq(SentPrompt) /\ verdict \in Seq(Answers \cup {Reason, NoText})
  BY EmptySeq DEF Init
<1> HIDE DEF App, Screen, Classifier, SentPrompt, Session, Prompt
<1>9. /\ nextSession \in Nat /\ moves \in Nat /\ live \subseteq Session
      /\ foreground \in DOMAIN apps /\ hydrates \subseteq Session
      /\ prompts \subseteq Prompt /\ turns \subseteq prompts
  <2>1. hydrates \subseteq Session /\ prompts \subseteq Prompt /\ turns \subseteq prompts
    BY DEF Init
  <2>2. nextSession \in Nat /\ moves \in Nat /\ foreground \in DOMAIN apps
    BY <1>1, <1>4 DEF Init
  <2>3. live \subseteq Session
    BY <1>1, DomainsAre DEF Init, Session
  <2> QED BY <2>1, <2>2, <2>3
<1>10. TypeOK
  BY <1>4, <1>6, <1>7, <1>8, <1>9, TypeParts
<1> QED BY <1>5, <1>10

(* A step that creates sessions only. *)
LEMMA ClearTypes ==
  ASSUME TypeOK, PlacesOK, ClearChat
  PROVE  /\ nextSession' \in Nat /\ nextSession' >= nextSession /\ moves' \in Nat
         /\ apps' \in Seq(App') /\ foreground' \in DOMAIN apps'
         /\ chat' \in Screen' /\ ama' \in Classifier' /\ PlacesOK'
<1>1. nextSession \in Nat /\ moves \in Nat /\ ama \in Classifier
  BY TypeParts
<1>2. /\ apps' = [i \in 1..3 |-> AppRecord(nextSession + i - 1, Domains[i])]
      /\ foreground' = 1 /\ chat' = EmptyScreen
      /\ ama' = [ama EXCEPT !.session = nextSession + 3, !.intent = None]
      /\ nextSession' = nextSession + 4 /\ moves' = moves + 1
      /\ sent' = sent /\ verdict' = verdict
  <2>1. /\ foreground' = 1 /\ chat' = EmptyScreen /\ moves' = moves + 1
        /\ sent' = sent /\ verdict' = verdict
        /\ nextSession' = nextSession + Len(Domains) + 1
    BY DEF ClearChat, Move
  <2>2. nextSession' = nextSession + 4
    BY <1>1, <2>1, DomainsAre
  <2>3. apps' = [i \in 1..Len(Domains) |-> AppRecord(nextSession + i - 1, Domains[i])]
    BY DEF ClearChat, FreshApps
  <2>4. apps' = [i \in 1..3 |-> AppRecord(nextSession + i - 1, Domains[i])]
    <3> HIDE DEF AppRecord, Domains
    <3> QED BY <2>3, DomainsAre
  <2>5. ama' = [ama EXCEPT !.session = nextSession + Len(Domains), !.intent = None]
    BY DEF ClearChat
  <2>6. ama' = [ama EXCEPT !.session = nextSession + 3, !.intent = None]
    <3> HIDE DEF Domains
    <3> QED BY <2>5, DomainsAre
  <2> QED BY <2>1, <2>2, <2>4, <2>6
<1>3. \A i \in 1..4 : nextSession + i - 1 \in Session'
  <2>1. Session' = (1..(nextSession' - 1)) \cup OldSessions
    BY DEF Session
  <2>2. nextSession > 0
    BY DEF PlacesOK
  <2>3. nextSession' = nextSession + 4
    BY <1>2
  <2>4. \A i \in 1..4 : nextSession + i - 1 \in 1..(nextSession' - 1)
    BY <1>1, <2>2, <2>3
  <2> QED BY <2>1, <2>4
<1>4. \A i \in 1..3 : AppRecord(nextSession + i - 1, Domains[i]) \in App'
  <2>1. <<>> \in Seq(AppIn(Session', Prompt', Message'))
    BY EmptySeq
  <2>2. \A i \in 1..3 : nextSession + i - 1 \in Session'
    BY <1>3
  <2> HIDE DEF Session, Prompt, Message
  <2> QED BY <2>1, <2>2, AppOps, AppIsIn, DomainsAre
<1>5. apps' \in Seq(App') /\ DOMAIN apps' = 1..3 /\ Len(apps') = 3
  <2> HIDE DEF App, AppRecord
  <2> QED BY <1>2, <1>4
<1>6. PlacesOK'
  <2>1. nextSession' > 0
    BY <1>1, <1>2
  <2>2. \A i \in DOMAIN apps' : i <= 3 /\ apps'[i].domain = Domains[i]
    BY <1>2, <1>5 DEF AppRecord
  <2> HIDE DEF AppRecord, Domains
  <2> QED BY <1>5, <2>1, <2>2, DomainsAre DEF PlacesOK
<1>7. chat' \in Screen'
  <2>1. <<>> \in Seq(Message')
    BY EmptySeq
  <2> HIDE DEF Message, Prompt
  <2> QED BY <1>2, <2>1 DEF EmptyScreen, Screen
<1>8. ama' \in Classifier'
  <2>1. nextSession + 3 \in Session'
    BY <1>3
  <2>2. Prompt' = Prompt
    BY <1>2 DEF Prompt
  <2>3. 0 \in 0..Len(verdict)
    BY SeqOps DEF TypeOK
  <2> HIDE DEF Session, Prompt
  <2> QED BY <1>1, <1>2, <2>1, <2>2, <2>3 DEF Classifier, None
<1> QED BY <1>1, <1>2, <1>5, <1>6, <1>7, <1>8

(* The conversation on the screen, whatever ends a turn, stays of its type. *)
LEMMA BadgeTypes ==
  ASSUME TypeOK, PlacesOK, Prompt' = Prompt, NEW p, NEW pr \in Prompt \cup {None}, Badge(p, pr)
  PROVE  /\ apps' \in Seq(App) /\ DOMAIN apps' = DOMAIN apps
         /\ \A i \in DOMAIN apps : /\ apps'[i].domain = apps[i].domain
                                   /\ apps'[i].prompt = IF i \in Owners(p) THEN pr ELSE apps[i].prompt
<1>1. apps \in Seq(App)
  BY DEF TypeOK
<1>2. DOMAIN apps = 1..Len(apps) /\ Len(apps) \in Nat /\ \A i \in DOMAIN apps : apps[i] \in App
  BY <1>1, SeqOps
<1>3. \A a \in App : [a EXCEPT !.updates = TRUE, !.prompt = pr] \in App
  <2> HIDE DEF Session, Prompt, Message
  <2> QED BY DEF App
<1> DEFINE e(i) == IF i \in Owners(p) THEN [apps[i] EXCEPT !.updates = TRUE, !.prompt = pr] ELSE apps[i]
<1>4. apps' = [i \in 1..Len(apps) |-> e(i)] /\ \A i \in 1..Len(apps) : e(i) \in App
  BY <1>2, <1>3 DEF Badge
<1>5. \A i \in DOMAIN apps : /\ e(i).domain = apps[i].domain
                             /\ e(i).prompt = IF i \in Owners(p) THEN pr ELSE apps[i].prompt
  BY <1>2 DEF App
<1> HIDE DEF e, App
<1>6. apps' \in Seq(App) /\ DOMAIN apps' = DOMAIN apps
  BY <1>2, <1>4
<1> QED BY <1>2, <1>4, <1>5, <1>6

LEMMA FinishTypes ==
  ASSUME TypeOK, PlacesOK, NEW p \in Prompt, NEW t \in Settled(p), Finishes(p, t)
  PROVE  TypeOK' /\ PlacesOK'
<1>1. /\ nextSession \in Nat /\ moves \in Nat /\ live \subseteq Session
      /\ sent \in Seq(SentPrompt) /\ verdict \in Seq(Answers \cup {Reason, NoText})
      /\ apps \in Seq(App) /\ foreground \in DOMAIN apps
      /\ chat \in Screen /\ ama \in Classifier
      /\ hydrates \subseteq Session
      /\ prompts \subseteq Prompt /\ turns \subseteq prompts
  BY TypeParts
<1>2. /\ t \in [prompts : SUBSET Prompt, turns : SUBSET Prompt, moves : Nat]
      /\ t.turns \subseteq t.prompts
  BY DEF Settled
<1>3. /\ hydrates' = hydrates /\ nextSession' = nextSession
      /\ verdict' = verdict /\ live' = live
  BY DEF Finishes
<1>4. Session' = Session /\ Len(verdict) \in Nat
  BY <1>1, <1>3, SeqOps DEF Session
<1>5. [ama EXCEPT !.prompt = None, !.intent = None] \in Classifier
  <2>1. 0 \in 0..Len(verdict)
    BY <1>4
  <2> HIDE DEF Session, Prompt
  <2> QED BY <1>1, <2>1 DEF Classifier, None
<1>6. CASE \E i \in DOMAIN apps : Activates(i, t)
  <2>1. PICK i \in DOMAIN apps : Activates(i, t)
    BY <1>6
  <2>2. i \in 0..MaxApps /\ ama.intent \in 1..Len(verdict) /\ apps[i] \in App
    BY <1>1, <1>4, <2>1, DomainsAre, MultiAppAssumption, SeqOps DEF Activates, Classifier, None
  <2>3. [session |-> apps[i].session, intent |-> ama.intent, app |-> i] \in SentPrompt
    <3> HIDE DEF Session, Prompt
    <3> QED BY <2>2 DEF SentPrompt, App
  <2>4. sent' \in Seq(SentPrompt) /\ Prompt' = Prompt \cup {Len(sent) + 1}
    <3>1. sent' = Append(sent, [session |-> apps[i].session, intent |-> ama.intent, app |-> i])
      BY <2>1 DEF Activates
    <3> HIDE DEF SentPrompt
    <3> QED BY <1>1, <2>3, <3>1, SeqOps DEF Prompt
  <2>5. /\ Session \subseteq Session' /\ sent \in Seq(SentPrompt') /\ apps \in Seq(App')
        /\ chat \in Screen' /\ Classifier \subseteq Classifier'
    <3>1. Prompt \subseteq Prompt' /\ Len(verdict') \in Nat /\ Len(verdict') >= Len(verdict)
      BY <1>3, <1>4, <2>4
    <3>2. Session \subseteq Session' /\ sent \in Seq(SentPrompt') /\ apps \in Seq(App') /\ chat \in Screen'
      BY <1>1, <1>3, <3>1, Carried
    <3>3. Classifier \subseteq Classifier'
      BY <1>3, <1>4, <3>1 DEF Classifier
    <3> QED BY <3>2, <3>3
  <2>6. apps' \in Seq(App') /\ DOMAIN apps' = DOMAIN apps
    <3>1. apps' = [apps EXCEPT ![i].prompt = Len(sent) + 1]
      BY <2>1 DEF Activates
    <3> HIDE DEF Session, Prompt, Message, App
    <3> QED BY <2>4, <2>5, <3>1, AppOps, AppIsIn
  <2>7. SentPrompt' = SentPrompt
    BY <1>3, <1>4 DEF SentPrompt
  <2>8. ama' \in Classifier' /\ chat' \in Screen' /\ foreground' \in DOMAIN apps'
    <3>1. ama' = [ama EXCEPT !.prompt = None, !.intent = None] /\ chat' = chat /\ foreground' = i
      BY <2>1 DEF Finishes, Activates
    <3> HIDE DEF Classifier, Screen
    <3> QED BY <1>5, <2>5, <2>6, <3>1
  <2>9. prompts' \subseteq Prompt' /\ turns' \subseteq prompts' /\ moves' \in Nat
    BY <1>2, <2>1, <2>4 DEF Activates, Posts
  <2>10. PlacesOK'
    <3>1. \A j \in DOMAIN apps : apps'[j].domain = apps[j].domain
      BY <1>1, <2>1, SeqOps DEF Activates, App
    <3>2. Len(apps') = Len(apps)
      BY <1>1, <2>6, SeqOps
    <3> QED BY <1>3, <2>6, <3>1, <3>2 DEF PlacesOK
  <2> HIDE DEF App, Screen, Classifier, SentPrompt, Session, Prompt
  <2>11. /\ nextSession' \in Nat /\ live' \subseteq Session'
         /\ verdict' \in Seq(Answers \cup {Reason, NoText}) /\ hydrates' \subseteq Session'
         /\ sent' \in Seq(SentPrompt')
    BY <1>1, <1>3, <1>4, <2>4, <2>7
  <2> QED BY <2>6, <2>8, <2>9, <2>10, <2>11 DEF TypeOK, SentPrompt, Screen, Classifier
<1>7. CASE ~(\E i \in DOMAIN apps : Activates(i, t))
  <2>1. sent' = sent /\ foreground' = foreground /\ Become(t)
    BY <1>7 DEF Finishes, Idles
  <2>2. /\ Prompt' = Prompt /\ Message' = Message /\ App' = App /\ SentPrompt' = SentPrompt
        /\ Screen' = Screen /\ Classifier' = Classifier
    BY <1>3, <1>4, <2>1 DEF Prompt, Message, App, SentPrompt, Screen, Classifier
  <2>3. /\ apps' \in Seq(App) /\ DOMAIN apps' = DOMAIN apps
        /\ \A i \in DOMAIN apps : apps'[i].domain = apps[i].domain
    <3>1. CASE Badge(p, None)
      BY <2>2, <3>1, BadgeTypes
    <3>2. CASE apps' = [apps EXCEPT ![foreground].prompt = None]
      <4>1. apps' \in Seq(App) /\ DOMAIN apps' = DOMAIN apps
        <5> HIDE DEF Session, Prompt, Message, App
        <5> QED BY <1>1, <3>2, AppOps, AppIsIn
      <4>2. \A i \in DOMAIN apps : apps'[i].domain = apps[i].domain
        BY <1>1, <3>2, SeqOps DEF App
      <4> QED BY <4>1, <4>2
    <3>3. CASE apps' = apps
      BY <1>1, <3>3
    <3> QED BY <1>7, <3>1, <3>2, <3>3 DEF Finishes, Idles, EndsOnScreen
  <2>4. chat' \in Screen
    <3>1. CASE chat' = chat \/ chat' = [chat EXCEPT !.busy = FALSE]
      BY <1>1, <3>1 DEF Screen
    <3>2. ASSUME NEW added \in Seq(Message), NEW s \in SUBSET Prompt, EndsOnScreen(added, s)
          PROVE  chat' \in Screen
      <4>1. chat.messages \o added \in Seq(Message)
        <5>1. chat.messages \in Seq(Message)
          BY <1>1 DEF Screen
        <5> HIDE DEF Message
        <5> QED BY <5>1, ConcatProperties
      <4> HIDE DEF Message, Prompt
      <4> QED BY <3>2, <4>1 DEF EndsOnScreen, Screen
    <3> QED BY <1>7, <3>1, <3>2 DEF Finishes, Idles
  <2>5. ama' \in Classifier
    BY <1>1, <1>5, <1>7 DEF Finishes
  <2>6. prompts' \subseteq Prompt /\ turns' \subseteq prompts' /\ moves' \in Nat
    BY <1>2, <2>1 DEF Become
  <2>7. PlacesOK'
    <3>1. Len(apps') = Len(apps)
      BY <1>1, <2>3, SeqOps
    <3> QED BY <1>3, <2>3, <3>1 DEF PlacesOK
  <2> HIDE DEF App, Screen, Classifier, SentPrompt, Session, Prompt
  <2> QED BY <1>1, <1>3, <1>4, <2>1, <2>2, <2>3, <2>4, <2>5, <2>6, <2>7
          DEF TypeOK, SentPrompt, Screen, Classifier
<1> QED BY <1>6, <1>7

(* The other steps: submitting a message. *)
LEMMA SubmitTypes ==
  ASSUME TypeOK, PlacesOK, Submit
  PROVE  /\ TypeOK' /\ PlacesOK'
         /\ Posts(Len(sent) + 1, Now) /\ Prompt' = Prompt \cup {Len(sent) + 1}
         /\ sent' = Append(sent, [session |-> ama.session, intent |-> Len(verdict) + 1, app |-> None])
         /\ verdict' = Append(verdict, NoText) /\ verdict' \in Seq(Answers \cup {Reason, NoText})
<1> DEFINE k == Len(verdict) + 1
           rec == [session |-> ama.session, intent |-> k, app |-> None]
<1>1. /\ nextSession \in Nat /\ moves \in Nat /\ live \subseteq Session
      /\ sent \in Seq(SentPrompt) /\ verdict \in Seq(Answers \cup {Reason, NoText})
      /\ apps \in Seq(App) /\ foreground \in DOMAIN apps
      /\ chat \in Screen /\ ama \in Classifier
      /\ hydrates \subseteq Session
      /\ prompts \subseteq Prompt /\ turns \subseteq prompts
  BY TypeParts
<1>2. /\ k <= MaxSubmits /\ verdict' = Append(verdict, NoText)
      /\ chat' = [messages |-> Append(chat.messages, Says("user", {k})), streaming |-> {}, busy |-> TRUE]
      /\ ama' = [ama EXCEPT !.prompt = Len(sent) + 1, !.text = NoText, !.intent = k]
      /\ SendPrompt(Len(sent) + 1, ama.session, k, None, Now)
      /\ apps' = apps /\ foreground' = foreground /\ hydrates' = hydrates
      /\ nextSession' = nextSession /\ live' = live
  BY DEF Submit
<1>3. Posts(Len(sent) + 1, Now) /\ sent' = Append(sent, rec)
  BY <1>2, NowIs, SendPosts
<1>4. /\ Len(verdict) \in Nat /\ Len(sent) \in Nat /\ Len(verdict') = k
      /\ verdict' \in Seq(Answers \cup {Reason, NoText})
  BY <1>1, <1>2, SeqOps
<1>5. Prompt' = Prompt \cup {Len(sent) + 1} /\ Prompt = 1..Len(sent)
  <2> HIDE DEF rec
  <2>1. DOMAIN sent' = 1..(Len(sent) + 1) /\ DOMAIN sent = 1..Len(sent)
    <3>1. /\ DOMAIN sent = 1..Len(sent)
          /\ \A e : DOMAIN Append(sent, e) = 1..(Len(sent) + 1)
      BY <1>1, <1>4, SeqOps
    <3> QED BY <1>3, <3>1
  <2> QED BY <1>4, <2>1 DEF Prompt
<1> HIDE DEF k
<1>6. /\ Session \subseteq Session' /\ sent \in Seq(SentPrompt') /\ apps \in Seq(App')
      /\ chat \in Screen' /\ ama \in Classifier' /\ Message \subseteq Message'
  <2>1. Len(verdict') \in Nat /\ Len(verdict') >= Len(verdict)
    BY <1>4 DEF k
  <2> QED BY <1>1, <1>2, <1>5, <2>1, Carried
<1>7. k \in 1..MaxSubmits /\ k \in 1..Len(verdict') /\ k \in 0..Len(verdict')
  BY <1>2, <1>4, MultiAppAssumption DEF k
<1>8. rec \in SentPrompt'
  <2>1. ama.session \in Session'
    BY <1>1, <1>6 DEF Classifier
  <2>2. None \in 0..MaxApps
    BY MultiAppAssumption DEF None
  <2> HIDE DEF Session
  <2> QED BY <1>7, <2>1, <2>2 DEF SentPrompt
<1> HIDE DEF rec
<1>9. sent' \in Seq(SentPrompt')
  <2> HIDE DEF SentPrompt
  <2> QED BY <1>3, <1>6, <1>8, SeqOps
<1>10. chat' \in Screen'
  <2>1. chat.messages \in Seq(Message')
    BY <1>6 DEF Screen
  <2>2. Says("user", {k}) \in Message'
    BY <1>7 DEF Says, Message
  <2>3. Append(chat.messages, Says("user", {k})) \in Seq(Message')
    <3> HIDE DEF Message, Says
    <3> QED BY <2>1, <2>2, SeqOps
  <2> HIDE DEF Message, Prompt, Says
  <2> QED BY <1>2, <2>3 DEF Screen
<1>11. ama' \in Classifier'
  <2>1. Len(sent) + 1 \in Prompt'
    BY <1>5
  <2> HIDE DEF Session, Prompt
  <2> QED BY <1>2, <1>6, <1>7, <2>1 DEF Classifier
<1>12. prompts' \subseteq Prompt' /\ turns' \subseteq prompts' /\ moves' \in Nat
  BY <1>1, <1>3, <1>5, NowIs DEF Posts
<1>13. PlacesOK'
  BY <1>2 DEF PlacesOK
<1>14. TypeOK'
  <2>1. /\ nextSession' \in Nat /\ live' \subseteq Session' /\ apps' \in Seq(App')
        /\ foreground' \in DOMAIN apps' /\ hydrates' \subseteq Session'
    BY <1>1, <1>2, <1>6
  <2> HIDE DEF App, Screen, Classifier, SentPrompt, Session, Prompt
  <2> QED BY <1>4, <1>9, <1>10, <1>11, <1>12, <2>1 DEF TypeOK, SentPrompt, Screen, Classifier
<1> QED BY <1>2, <1>3, <1>4, <1>5, <1>13, <1>14 DEF k, rec

(* The steps that send nothing and end nothing, from the pieces they replace. *)
LEMMA QuietTypes ==
  ASSUME TypeOK, sent' = sent, Len(verdict') = Len(verdict), verdict' \in Seq(Answers \cup {Reason, NoText}),
         nextSession' \in Nat, nextSession' >= nextSession, moves' \in Nat,
         apps' \in Seq(App'), foreground' \in DOMAIN apps', chat' \in Screen', ama' \in Classifier',
         hydrates' \subseteq Session', prompts' \subseteq prompts, turns' \subseteq prompts',
         live' \subseteq Session'
  PROVE  TypeOK'
<1>1. Prompt' = Prompt /\ Len(verdict) \in Nat
  BY SeqOps DEF Prompt, TypeOK
<1>2. sent \in Seq(SentPrompt') /\ prompts \subseteq Prompt
  <2>1. Prompt \subseteq Prompt' /\ Len(verdict') \in Nat /\ Len(verdict') >= Len(verdict)
    BY <1>1
  <2> QED BY <2>1, Carried, TypeParts
<1>3. sent' \in Seq(SentPrompt') /\ prompts' \subseteq Prompt'
  BY <1>1, <1>2
<1> HIDE DEF App, Screen, Classifier, SentPrompt, Session, Prompt
<1> QED BY <1>3 DEF TypeOK, SentPrompt, Screen, Classifier

LEMMA QuietStays ==
  ASSUME TypeOK, sent' = sent, Len(verdict') = Len(verdict), nextSession' = nextSession
  PROVE  /\ Session' = Session /\ Prompt' = Prompt /\ Message' = Message /\ App' = App
         /\ Screen' = Screen /\ Classifier' = Classifier
BY DEF Session, Prompt, Message, App, Screen, Classifier

(* Putting the conversation of the screen aside keeps domain and prompt of every app. *)
LEMMA SnapshotTypes ==
  ASSUME TypeOK, NEW i \in DOMAIN apps
  PROVE  /\ Snapshot(i) \in Seq(App) /\ DOMAIN Snapshot(i) = DOMAIN apps /\ Len(Snapshot(i)) = Len(apps)
         /\ \A j \in DOMAIN apps : /\ Snapshot(i)[j].domain = apps[j].domain
                                   /\ Snapshot(i)[j].prompt = apps[j].prompt
<1>1. apps \in Seq(App) /\ chat.messages \in Seq(Message)
  BY DEF TypeOK
<1>2. Snapshot(i) \in Seq(App) /\ DOMAIN Snapshot(i) = DOMAIN apps
  <2> HIDE DEF Session, Prompt, Message, App
  <2> QED BY <1>1, AppOps, AppIsIn DEF Snapshot
<1>3. Len(Snapshot(i)) = Len(apps)
  BY <1>1, <1>2, SeqOps
<1>4. \A j \in DOMAIN apps : /\ Snapshot(i)[j].domain = apps[j].domain
                             /\ Snapshot(i)[j].prompt = apps[j].prompt
  BY <1>1, SeqOps DEF Snapshot, App
<1> QED BY <1>2, <1>3, <1>4

(* Taking the badge away likewise. *)
LEMMA SeenTypes ==
  ASSUME NEW q \in Seq(App), NEW i \in DOMAIN q
  PROVE  LET r == [q EXCEPT ![i].updates = FALSE]
         IN  /\ r \in Seq(App) /\ DOMAIN r = DOMAIN q /\ Len(r) = Len(q)
             /\ \A j \in DOMAIN q : r[j].domain = q[j].domain /\ r[j].prompt = q[j].prompt
<1> DEFINE r == [q EXCEPT ![i].updates = FALSE]
<1>1. r \in Seq(App) /\ DOMAIN r = DOMAIN q
  <2> HIDE DEF Session, Prompt, Message, App
  <2> QED BY AppOps, AppIsIn
<1>2. Len(r) = Len(q)
  BY <1>1, SeqOps
<1>3. \A j \in DOMAIN q : r[j].domain = q[j].domain /\ r[j].prompt = q[j].prompt
  BY SeqOps DEF App
<1> QED BY <1>1, <1>2, <1>3

(* A new app goes to the end. *)
LEMMA NewAppTypes ==
  ASSUME NEW SS, NEW PP, NEW MM, NEW q \in Seq(AppIn(SS, PP, MM)), NEW s \in SS
  PROVE  LET r == Append(q, AppRecord(s, NoDomain))
         IN  /\ r \in Seq(AppIn(SS, PP, MM)) /\ DOMAIN r = 1..(Len(q) + 1) /\ Len(r) = Len(q) + 1
             /\ r[Len(q) + 1].domain = NoDomain /\ r[Len(q) + 1].prompt = None
             /\ \A j \in DOMAIN q : r[j] = q[j]
<1>1. AppRecord(s, NoDomain) \in AppIn(SS, PP, MM)
  BY AppOps
<1>2. AppRecord(s, NoDomain).domain = NoDomain /\ AppRecord(s, NoDomain).prompt = None
  BY DEF AppRecord
<1> HIDE DEF AppRecord, AppIn
<1> QED BY <1>1, <1>2, SeqOps

LEMMA Lengths ==
  ASSUME TypeOK
  PROVE  Len(verdict) \in Nat /\ Len(sent) \in Nat /\ Prompt = 1..Len(sent)
<1>1. verdict \in Seq(Answers \cup {Reason, NoText}) /\ sent \in Seq(SentPrompt)
  BY TypeParts
<1> HIDE DEF SentPrompt
<1> QED BY <1>1, SeqOps DEF Prompt

LEMMA SessionsStay ==
  ASSUME nextSession \in Nat, nextSession' \in Nat, nextSession' >= nextSession
  PROVE  Session \subseteq Session'
BY DEF Session

LEMMA CancelTypes ==
  ASSUME TypeOK, PlacesOK, Cancel
  PROVE  /\ TypeOK' /\ PlacesOK'
         /\ apps' = [apps EXCEPT ![foreground].prompt = None] /\ chat'.busy = FALSE
<1>1. /\ apps \in Seq(App) /\ foreground \in DOMAIN apps /\ chat \in Screen /\ ama \in Classifier
      /\ moves \in Nat /\ nextSession \in Nat
  BY TypeParts
<1>2. /\ apps' = [apps EXCEPT ![foreground].prompt = None] /\ moves' = moves + 1
      /\ foreground' = foreground /\ ama' = ama /\ hydrates' = hydrates /\ prompts' = prompts
      /\ nextSession' = nextSession /\ turns' = turns /\ sent' = sent /\ verdict' = verdict
      /\ live' = live
  BY DEF Cancel, Move
<1>3. /\ Session' = Session /\ Prompt' = Prompt /\ Message' = Message /\ App' = App
      /\ Screen' = Screen /\ Classifier' = Classifier
  BY <1>2, QuietStays
<1>4. apps' \in Seq(App) /\ DOMAIN apps' = DOMAIN apps
  <2> HIDE DEF Session, Prompt, Message, App
  <2> QED BY <1>1, <1>2, AppOps, AppIsIn
<1>5. chat' \in Screen /\ chat'.busy = FALSE
  <2> DEFINE kept == IF chat.streaming = {} THEN chat.messages
                     ELSE Append(chat.messages, Says("assistant", chat.streaming))
  <2>1. chat' = [messages |-> kept, streaming |-> {}, busy |-> FALSE]
    BY DEF Cancel
  <2>2. chat.messages \in Seq(Message) /\ Says("assistant", chat.streaming) \in Message
    BY <1>1 DEF Screen, Says, Message
  <2>3. kept \in Seq(Message)
    <3> HIDE DEF Message, Says
    <3> QED BY <2>2, SeqOps
  <2> HIDE DEF kept, Message, Prompt
  <2> QED BY <2>1, <2>3 DEF Screen
<1>6. PlacesOK'
  <2>1. \A i \in DOMAIN apps : apps'[i].domain = apps[i].domain
    BY <1>1, <1>2, SeqOps DEF App
  <2>2. Len(apps') = Len(apps)
    BY <1>1, <1>4, SeqOps
  <2> QED BY <1>2, <1>4, <2>1, <2>2 DEF PlacesOK
<1>7. TypeOK'
  <2> HIDE DEF App, Screen, Classifier, Session, Prompt
  <2> QED BY <1>1, <1>2, <1>3, <1>4, <1>5, QuietTypes, TypeParts
<1> QED BY <1>2, <1>5, <1>6, <1>7

LEMMA ClearAllTypes ==
  ASSUME TypeOK, PlacesOK, Clear \/ Reconnect
  PROVE  TypeOK' /\ PlacesOK'
<1>1. ClearChat
  BY DEF Clear, Reconnect
<1>2. /\ sent' = sent /\ verdict' = verdict /\ live' \subseteq live \cup Fresh
      /\ hydrates' \subseteq hydrates /\ prompts' \subseteq prompts /\ turns' \subseteq prompts'
  BY DEF Clear, Reconnect, ClearChat, TypeOK
<1>3. hydrates' \subseteq Session' /\ live' \subseteq Session'
  <2>1. Session \subseteq Session'
    BY <1>1, ClearTypes, SessionsStay DEF TypeOK
  <2>2. Fresh \subseteq Session'
    BY <1>1, DomainsAre DEF ClearChat, Fresh, Session, TypeOK, PlacesOK
  <2> QED BY <1>2, <2>1, <2>2 DEF TypeOK
<1> HIDE DEF App, Screen, Classifier, Session, Prompt
<1> QED BY <1>1, <1>2, <1>3, ClearTypes, QuietTypes, TypeParts

LEMMA EmptyScreenTypes == EmptyScreen' = EmptyScreen /\ EmptyScreen \in Screen'
<1>1. <<>> \in Seq(Message')
  BY EmptySeq
<1> HIDE DEF Message, Prompt
<1> QED BY <1>1 DEF EmptyScreen, Screen

LEMMA OpenTypes ==
  ASSUME TypeOK, PlacesOK, OpenNewApp
  PROVE  /\ TypeOK' /\ PlacesOK' /\ DOMAIN apps' = 1..(Len(apps) + 1)
         /\ apps'[Len(apps) + 1].prompt = None
         /\ \A i \in DOMAIN apps : apps'[i].prompt = apps[i].prompt
<1>1. /\ apps \in Seq(App) /\ foreground \in DOMAIN apps /\ ama \in Classifier
      /\ moves \in Nat /\ nextSession \in Nat
      /\ DOMAIN apps = 1..Len(apps) /\ Len(apps) \in Nat
  BY TypeParts, SeqOps
<1>2. /\ apps' = Append(Snapshot(foreground), AppRecord(nextSession, NoDomain))
      /\ foreground' = Len(apps) + 1 /\ chat' = EmptyScreen /\ nextSession' = nextSession + 1
      /\ ama' = ama /\ hydrates' = hydrates /\ prompts' = prompts
      /\ turns' = turns /\ sent' = sent /\ verdict' = verdict
      /\ live' = live \cup {nextSession} /\ moves' = moves + 1
  BY DEF OpenNewApp, Move
<1>3. /\ Session \subseteq Session' /\ App \subseteq App' /\ ama \in Classifier' /\ hydrates \subseteq Session'
      /\ live \subseteq Session'
  <2>1. Prompt \subseteq Prompt' /\ nextSession' \in Nat /\ nextSession' >= nextSession
        /\ Len(verdict') \in Nat /\ Len(verdict') >= Len(verdict)
    BY <1>1, <1>2, Lengths DEF Prompt
  <2> QED BY <2>1, Carried, TypeParts
<1>4. nextSession \in Session'
  BY <1>1, <1>2 DEF Session, PlacesOK
<1> DEFINE q == Snapshot(foreground)
<1>5. /\ q \in Seq(App) /\ DOMAIN q = DOMAIN apps /\ Len(q) = Len(apps)
      /\ \A j \in DOMAIN apps : q[j].domain = apps[j].domain /\ q[j].prompt = apps[j].prompt
  BY <1>1, SnapshotTypes
<1>6. q \in Seq(App')
  BY <1>3, <1>5, SeqMonotonic
<1> HIDE DEF q
<1>7. /\ apps' \in Seq(App') /\ DOMAIN apps' = 1..(Len(apps) + 1) /\ Len(apps') = Len(apps) + 1
      /\ apps'[Len(apps) + 1].domain = NoDomain /\ apps'[Len(apps) + 1].prompt = None
      /\ \A j \in DOMAIN apps : apps'[j] = q[j]
  <2>1. apps' = Append(q, AppRecord(nextSession, NoDomain))
    BY <1>2 DEF q
  <2> HIDE DEF Session, Prompt, Message, App, AppRecord
  <2> QED BY <1>4, <1>5, <1>6, <2>1, NewAppTypes, AppIsIn
<1>8. PlacesOK'
  <2>1. \A i \in DOMAIN apps' : i \in DOMAIN apps \/ i = Len(apps) + 1
    BY <1>1, <1>7
  <2>2. nextSession' > 0
    BY <1>1, <1>2
  <2> QED BY <1>1, <1>5, <1>7, <2>1, <2>2, DomainsAre DEF PlacesOK
<1>9. TypeOK'
  <2>1. foreground' \in DOMAIN apps'
    BY <1>1, <1>2, <1>7
  <2> HIDE DEF App, Screen, Classifier, Session, Prompt
  <2> QED BY <1>1, <1>2, <1>3, <1>4, <1>7, <2>1, EmptyScreenTypes, QuietTypes, TypeParts
<1> QED BY <1>5, <1>7, <1>8, <1>9

LEMMA SwitchTypes ==
  ASSUME TypeOK, PlacesOK, SwitchToApp
  PROVE  /\ TypeOK' /\ PlacesOK' /\ DOMAIN apps' = DOMAIN apps
         /\ \A i \in DOMAIN apps : apps'[i].prompt = apps[i].prompt
         /\ chat'.busy = FALSE
<1> DEFINE i == (foreground % Len(apps)) + 1
           q == Snapshot(foreground)
<1>1. /\ apps \in Seq(App) /\ foreground \in DOMAIN apps /\ ama \in Classifier
      /\ moves \in Nat /\ nextSession \in Nat
      /\ DOMAIN apps = 1..Len(apps) /\ Len(apps) \in Nat /\ \A j \in DOMAIN apps : apps[j] \in App
  BY TypeParts, SeqOps
<1>2. /\ apps' = [q EXCEPT ![i].updates = FALSE]
      /\ foreground' = i /\ chat' = [EmptyScreen EXCEPT !.messages = apps[i].saved]
      /\ nextSession' = nextSession
      /\ ama' = ama /\ hydrates' = hydrates /\ prompts' = prompts
      /\ turns' = turns /\ sent' = sent /\ verdict' = verdict
      /\ live' = live /\ moves' = moves + 1
  BY DEF SwitchToApp, Move
<1>3. i \in DOMAIN apps
  <2>1. foreground \in Nat /\ Len(apps) > 0
    BY <1>1
  <2> QED BY <1>1, <2>1
<1> HIDE DEF i
<1>4. /\ q \in Seq(App) /\ DOMAIN q = DOMAIN apps /\ Len(q) = Len(apps)
      /\ \A j \in DOMAIN apps : q[j].domain = apps[j].domain /\ q[j].prompt = apps[j].prompt
  BY <1>1, SnapshotTypes
<1> HIDE DEF q
<1>5. /\ apps' \in Seq(App) /\ DOMAIN apps' = DOMAIN q /\ Len(apps') = Len(q)
      /\ \A j \in DOMAIN q : apps'[j].domain = q[j].domain /\ apps'[j].prompt = q[j].prompt
  <2> HIDE DEF App
  <2> QED BY <1>2, <1>3, <1>4, SeenTypes
<1>6. /\ Session' = Session /\ Prompt' = Prompt /\ Message' = Message /\ App' = App
      /\ Screen' = Screen /\ Classifier' = Classifier
  BY <1>2, QuietStays
<1>7. chat' \in Screen /\ chat'.busy = FALSE
  <2>1. apps[i].saved \in Seq(Message)
    BY <1>1, <1>3 DEF App
  <2> HIDE DEF Message, Prompt
  <2> QED BY <1>2, <2>1 DEF EmptyScreen, Screen
<1>8. PlacesOK'
  BY <1>2, <1>4, <1>5 DEF PlacesOK
<1>9. TypeOK'
  <2> HIDE DEF App, Screen, Classifier, Session, Prompt
  <2> QED BY <1>1, <1>2, <1>3, <1>4, <1>5, <1>6, <1>7, QuietTypes, TypeParts
<1> QED BY <1>4, <1>5, <1>7, <1>8, <1>9

LEMMA SelectTypes ==
  ASSUME TypeOK, PlacesOK, NEW s \in Session, Select(s)
  PROVE  /\ TypeOK' /\ PlacesOK' /\ DOMAIN apps \subseteq DOMAIN apps'
         /\ \A i \in DOMAIN apps : apps'[i].prompt = apps[i].prompt
         /\ \A i \in DOMAIN apps' \ DOMAIN apps : apps'[i].prompt = None
<1> DEFINE open == {i \in DOMAIN apps : apps[i].session = s}
           all  == IF open # {} THEN apps ELSE Append(apps, AppRecord(s, NoDomain))
           i    == IF open # {} THEN CHOOSE j \in open : TRUE ELSE Len(apps) + 1
<1>1. /\ apps \in Seq(App) /\ foreground \in DOMAIN apps /\ ama \in Classifier
      /\ moves \in Nat /\ nextSession \in Nat /\ hydrates \subseteq Session
      /\ DOMAIN apps = 1..Len(apps) /\ Len(apps) \in Nat
  BY TypeParts, SeqOps
<1>2. /\ apps' = [all EXCEPT ![i].updates = FALSE]
      /\ foreground' = i /\ chat' = EmptyScreen /\ hydrates' = hydrates \cup {s}
      /\ nextSession' = nextSession
      /\ ama' = ama /\ prompts' = prompts
      /\ turns' = turns /\ sent' = sent /\ verdict' = verdict
      /\ live' = live \cup {s} /\ moves' = moves + 1
  BY DEF Select, Move
<1>3. /\ all \in Seq(App) /\ DOMAIN all = 1..Len(all) /\ Len(all) \in Nat /\ Len(all) >= Len(apps)
      /\ i \in DOMAIN all
      /\ \A j \in DOMAIN apps : j \in DOMAIN all /\ all[j] = apps[j]
      /\ \A j \in DOMAIN all \ DOMAIN apps : all[j].domain = NoDomain /\ all[j].prompt = None
  <2>1. CASE open # {}
    <3>1. i \in open /\ all = apps
      BY <2>1
    <3> HIDE DEF i, all, App
    <3> QED BY <1>1, <3>1
  <2>2. CASE open = {}
    <3>1. i = Len(apps) + 1 /\ all = Append(apps, AppRecord(s, NoDomain))
      BY <2>2
    <3> HIDE DEF i, all, open
    <3>2. /\ all \in Seq(App) /\ DOMAIN all = 1..(Len(apps) + 1) /\ Len(all) = Len(apps) + 1
          /\ all[Len(apps) + 1].domain = NoDomain /\ all[Len(apps) + 1].prompt = None
          /\ \A j \in DOMAIN apps : all[j] = apps[j]
      <4> HIDE DEF Session, Prompt, Message, App, AppRecord
      <4> QED BY <1>1, <3>1, NewAppTypes, AppIsIn
    <3>3. \A j \in DOMAIN all : j \in DOMAIN apps \/ j = Len(apps) + 1
      BY <1>1, <3>2
    <3> HIDE DEF App
    <3> QED BY <1>1, <3>1, <3>2, <3>3
  <2> QED BY <2>1, <2>2
<1> HIDE DEF i, all, open
<1>4. /\ apps' \in Seq(App) /\ DOMAIN apps' = DOMAIN all /\ Len(apps') = Len(all)
      /\ \A j \in DOMAIN all : apps'[j].domain = all[j].domain /\ apps'[j].prompt = all[j].prompt
  <2> HIDE DEF App
  <2> QED BY <1>2, <1>3, SeenTypes
<1>5. /\ Session' = Session /\ Prompt' = Prompt /\ Message' = Message /\ App' = App
      /\ Screen' = Screen /\ Classifier' = Classifier
  BY <1>2, QuietStays
<1>6. PlacesOK'
  <2>1. \A j \in DOMAIN apps' \ DOMAIN apps : j > Len(Domains)
    BY <1>1, <1>3, <1>4, DomainsAre DEF PlacesOK
  <2>2. \A j \in DOMAIN apps' : apps'[j].domain = IF j <= Len(Domains) THEN Domains[j] ELSE NoDomain
    <3>1. ASSUME NEW j \in DOMAIN apps, j \in DOMAIN apps'
          PROVE  apps'[j].domain = IF j <= Len(Domains) THEN Domains[j] ELSE NoDomain
      BY <1>3, <1>4, <3>1 DEF PlacesOK
    <3>2. ASSUME NEW j \in DOMAIN apps' \ DOMAIN apps
          PROVE  apps'[j].domain = IF j <= Len(Domains) THEN Domains[j] ELSE NoDomain
      <4>1. j > 3 /\ j \in Nat /\ apps'[j].domain = NoDomain
        BY <1>3, <1>4, <2>1, DomainsAre
      <4>2. ~(j <= Len(Domains))
        BY <4>1, DomainsAre
      <4> QED BY <4>1, <4>2
    <3> QED BY <3>1, <3>2
  <2>3. Len(apps') >= Len(Domains) /\ nextSession' > 0
    BY <1>1, <1>2, <1>3, <1>4, DomainsAre DEF PlacesOK
  <2> QED BY <2>2, <2>3 DEF PlacesOK
<1>7. TypeOK'
  <2> HIDE DEF App, Screen, Classifier, Session, Prompt
  <2> QED BY <1>1, <1>2, <1>3, <1>4, <1>5, EmptyScreenTypes, QuietTypes, TypeParts
<1> QED BY <1>3, <1>4, <1>6, <1>7

LEMMA HydratedTypes ==
  ASSUME TypeOK, PlacesOK, NEW s \in Session, Hydrated(s)
  PROVE  TypeOK' /\ PlacesOK' /\ (chat' = chat \/ chat'.busy = FALSE)
<1>1. /\ apps \in Seq(App) /\ foreground \in DOMAIN apps /\ ama \in Classifier
      /\ chat \in Screen /\ moves \in Nat /\ nextSession \in Nat /\ hydrates \subseteq Session
  BY TypeParts
<1>2. /\ apps' = apps /\ foreground' = foreground /\ hydrates' = hydrates \ {s}
      /\ nextSession' = nextSession /\ ama' = ama /\ prompts' = prompts
      /\ turns' = turns /\ sent' = sent /\ verdict' = verdict
      /\ live' = live /\ moves' = moves
      /\ \/ chat' = chat
         \/ chat' = [chat EXCEPT !.messages = <<Says("history", {})>>, !.busy = FALSE]
  BY DEF Hydrated
<1>3. /\ Session' = Session /\ Prompt' = Prompt /\ Message' = Message /\ App' = App
      /\ Screen' = Screen /\ Classifier' = Classifier
  BY <1>2, QuietStays
<1>4. chat' \in Screen /\ (chat' = chat \/ chat'.busy = FALSE)
  <2>1. Says("history", {}) \in Message
    BY DEF Says, Message
  <2>2. <<Says("history", {})>> \in Seq(Message)
    <3> HIDE DEF Says, Message
    <3> QED BY <2>1
  <2> HIDE DEF Message, Prompt, Says
  <2> QED BY <1>1, <1>2, <2>2 DEF Screen
<1>5. PlacesOK'
  BY <1>2 DEF PlacesOK
<1>6. TypeOK'
  <2> HIDE DEF App, Screen, Classifier, Session, Prompt
  <2> QED BY <1>1, <1>2, <1>3, <1>4, QuietTypes, TypeParts
<1> QED BY <1>4, <1>5, <1>6

(* What was sent: its session, its message and its app. *)
LEMMA SentIs ==
  ASSUME TypeOK, NEW p \in Prompt
  PROVE  sent[p].intent \in 1..Len(verdict) /\ sent[p].app \in 0..MaxApps
<1>1. sent \in Seq(SentPrompt)
  BY TypeParts
<1>2. sent[p] \in SentPrompt
  <2> HIDE DEF SentPrompt
  <2> QED BY <1>1, SeqOps DEF Prompt
<1> QED BY <1>2 DEF SentPrompt

LEMMA DeltaTypes ==
  ASSUME TypeOK, PlacesOK, NEW p \in Prompt, TextDelta(p)
  PROVE  /\ TypeOK' /\ PlacesOK' /\ DOMAIN apps' = DOMAIN apps
         /\ \A i \in DOMAIN apps : apps'[i].prompt = apps[i].prompt
         /\ chat'.busy = chat.busy
<1>1. /\ apps \in Seq(App) /\ foreground \in DOMAIN apps /\ ama \in Classifier
      /\ chat \in Screen /\ moves \in Nat /\ nextSession \in Nat /\ hydrates \subseteq Session
      /\ verdict \in Seq(Answers \cup {Reason, NoText})
  BY TypeParts
<1>2. PICK w \in Word(p) :
       /\ verdict' = IF Undecided(p)
                     THEN [verdict EXCEPT ![sent[p].intent] = w] ELSE verdict
       /\ \/ /\ p = ama.prompt
             /\ ama' = [ama EXCEPT !.text = IF @ = NoText THEN w ELSE @]
             /\ UNCHANGED <<apps, chat>>
          \/ /\ p # ama.prompt /\ InBackground(p)
             /\ Badge(p, p)
             /\ UNCHANGED <<ama, chat>>
          \/ /\ p # ama.prompt /\ ~InBackground(p)
             /\ chat' = [chat EXCEPT !.streaming = @ \cup {p}]
             /\ UNCHANGED <<ama, apps>>
  BY DEF TextDelta
<1>3. /\ foreground' = foreground /\ hydrates' = hydrates
      /\ nextSession' = nextSession /\ prompts' = prompts
      /\ turns' = turns /\ sent' = sent
      /\ live' = live /\ moves' = moves
  BY DEF TextDelta
<1>4. w \in Answers \cup {Reason}
  BY DEF Word
<1>5. verdict' \in Seq(Answers \cup {Reason, NoText}) /\ Len(verdict') = Len(verdict)
  <2>1. sent[p].intent \in DOMAIN verdict
    BY <1>1, SentIs, SeqOps
  <2>2. \A e \in Answers \cup {Reason, NoText} :
          /\ [verdict EXCEPT ![sent[p].intent] = e] \in Seq(Answers \cup {Reason, NoText})
          /\ Len([verdict EXCEPT ![sent[p].intent] = e]) = Len(verdict)
    BY <1>1, SentIs, ExceptSeq
  <2> QED BY <1>1, <1>2, <1>4, <2>2
<1>6. /\ Session' = Session /\ Prompt' = Prompt /\ Message' = Message /\ App' = App
      /\ Screen' = Screen /\ Classifier' = Classifier
  BY <1>3, <1>5, QuietStays
<1>7. ama' \in Classifier
  <2> HIDE DEF Session, Prompt
  <2> QED BY <1>1, <1>2, <1>4 DEF Classifier
<1>8. chat' \in Screen /\ chat'.busy = chat.busy
  <2> HIDE DEF Message, Prompt
  <2> QED BY <1>1, <1>2 DEF Screen
<1>9. /\ apps' \in Seq(App) /\ DOMAIN apps' = DOMAIN apps
      /\ \A i \in DOMAIN apps : /\ apps'[i].domain = apps[i].domain
                                /\ apps'[i].prompt = apps[i].prompt
  <2>1. CASE apps' = apps
    BY <1>1, <2>1
  <2>2. CASE Badge(p, p)
    <3>1. /\ apps' \in Seq(App) /\ DOMAIN apps' = DOMAIN apps
          /\ \A i \in DOMAIN apps : /\ apps'[i].domain = apps[i].domain
                                    /\ apps'[i].prompt = IF i \in Owners(p) THEN p ELSE apps[i].prompt
      BY <1>6, <2>2, BadgeTypes
    <3>2. \A i \in Owners(p) : apps[i].prompt = p
      BY DEF Owners
    <3> QED BY <3>1, <3>2
  <2> QED BY <1>2, <2>1, <2>2
<1>10. PlacesOK'
  <2>1. Len(apps') = Len(apps)
    BY <1>1, <1>9, SeqOps
  <2> QED BY <1>3, <1>9, <2>1 DEF PlacesOK
<1>11. TypeOK'
  <2> HIDE DEF App, Screen, Classifier, Session, Prompt
  <2> QED BY <1>1, <1>3, <1>5, <1>6, <1>7, <1>8, <1>9, QuietTypes, TypeParts
<1> QED BY <1>8, <1>9, <1>10, <1>11

(* A step that the client does not notice: the socket drops, a turn ends unheard. *)
Silent ==
  /\ UNCHANGED <<appVars, prompts, nextSession, sent, verdict>>
  /\ turns' \subseteq turns /\ live' \subseteq live /\ moves' \in {moves, moves + 1}

LEMMA SilentTypes ==
  ASSUME TypeOK, PlacesOK, Silent
  PROVE  TypeOK' /\ PlacesOK'
<1>1. TypeOK'
  <2>1. moves' \in Nat
    BY DEF Silent, TypeOK
  <2>2. /\ Session' = Session /\ Prompt' = Prompt /\ Message' = Message /\ App' = App
        /\ Screen' = Screen /\ Classifier' = Classifier
    BY QuietStays DEF Silent
  <2> HIDE DEF App, Screen, Classifier, Session, Prompt, Message
  <2> QED BY <2>1, <2>2, QuietTypes, TypeParts DEF Silent, appVars
<1>2. PlacesOK'
  BY DEF Silent, appVars, PlacesOK
<1> QED BY <1>1, <1>2

(* The steps of the specification, with the ends of turns in one. *)
LEMMA Steps ==
  ASSUME TypeOK, PlacesOK, [Next]_vars
  PROVE  \/ Submit \/ Cancel \/ Clear \/ Reconnect \/ OpenNewApp \/ SwitchToApp
         \/ \E s \in Session : Select(s) \/ Hydrated(s)
         \/ \E p \in Prompt : TextDelta(p)
         \/ \E p \in Prompt : \E t \in Settled(p) : Finishes(p, t)
         \/ Silent
<1>1. SocketDrop => Silent
  BY DEF SocketDrop, Silent, Move
<1>2. (\E p \in Prompt : EndsUnheard(p)) => Silent
  BY DEF EndsUnheard, Silent
<1>3. UNCHANGED vars => Silent
  BY DEF vars, Silent
<1> QED BY <1>1, <1>2, <1>3, EveryEndFinishes DEF Next

LEMMA TypeStep ==
  ASSUME TypeOK, PlacesOK, [Next]_vars
  PROVE  TypeOK' /\ PlacesOK'
BY Steps, SubmitTypes, CancelTypes, ClearAllTypes, OpenTypes, SwitchTypes, SelectTypes,
   HydratedTypes, DeltaTypes, FinishTypes, SilentTypes

(* Every variable has its type, for every number of messages, moves and apps. *)
THEOREM TypeCorrect == Spec => []TypeOK
<1>1. TypeOK /\ PlacesOK /\ [Next]_vars => TypeOK' /\ PlacesOK'
  BY TypeStep
<1> QED BY InitType, <1>1, PTL DEF Spec

-----------------------------------------------------------------------------
(***************************************************************************)
(* Whose prompt is tracked.  Only a submission and an activation send one; *)
(* every other step keeps the prompt of an app or drops it.                *)
(***************************************************************************)
KeepsOrDrops ==
  \A i \in DOMAIN apps' :
    \/ apps'[i].prompt = None
    \/ i \in DOMAIN apps /\ apps'[i].prompt = apps[i].prompt

LEMMA PromptsAre ==
  ASSUME TypeOK
  PROVE  /\ \A i \in DOMAIN apps : apps[i].prompt \in Prompt \cup {None}
         /\ ama.prompt \in Prompt \cup {None} /\ ama.intent \in 0..Len(verdict)
         /\ prompts \subseteq Prompt /\ None \notin Prompt
<1>1. apps \in Seq(App) /\ ama \in Classifier /\ prompts \subseteq Prompt
  BY TypeParts
<1>2. \A i \in DOMAIN apps : apps[i].prompt \in Prompt \cup {None}
  <2> HIDE DEF Session, Prompt, Message, App
  <2> QED BY <1>1, AppOps, AppIsIn
<1>3. None \notin Prompt
  BY Lengths DEF None
<1> QED BY <1>1, <1>2, <1>3 DEF Classifier

LEMMA Extends ==
  ASSUME TypeOK, NEW rec, sent' = Append(sent, rec)
  PROVE  /\ Prompt' = Prompt \cup {Len(sent) + 1} /\ Len(sent') = Len(sent) + 1
         /\ Len(sent) + 1 \notin Prompt /\ Len(sent) + 1 # None
         /\ sent'[Len(sent) + 1] = rec /\ \A q \in Prompt : sent'[q] = sent[q]
<1> DEFINE S == SentPrompt \cup {rec}
<1>1. sent \in Seq(SentPrompt) /\ Len(sent) \in Nat
  BY TypeParts, Lengths
<1>2. sent \in Seq(S) /\ rec \in S
  BY <1>1, SeqMonotonic
<1> HIDE DEF S
<1>3. /\ DOMAIN sent = 1..Len(sent) /\ DOMAIN sent' = 1..(Len(sent) + 1)
      /\ Len(sent') = Len(sent) + 1
      /\ sent'[Len(sent) + 1] = rec /\ \A q \in DOMAIN sent : sent'[q] = sent[q]
  BY <1>2, SeqOps
<1> QED BY <1>1, <1>3 DEF Prompt, None

LEMMA SendExtends ==
  ASSUME TypeOK, NEW s, NEW k, NEW i,
         sent' = Append(sent, [session |-> s, intent |-> k, app |-> i])
  PROVE  /\ Prompt' = Prompt \cup {Len(sent) + 1} /\ Len(sent') = Len(sent) + 1
         /\ Len(sent) + 1 \notin Prompt /\ Len(sent) + 1 # None
         /\ sent'[Len(sent) + 1].app = i /\ sent'[Len(sent) + 1].intent = k
         /\ \A q \in Prompt : sent'[q] = sent[q]
<1> DEFINE rec == [session |-> s, intent |-> k, app |-> i]
<1>1. sent' = Append(sent, rec) /\ rec.app = i /\ rec.intent = k
  OBVIOUS
<1> HIDE DEF rec
<1> QED BY <1>1, Extends

LEMMA ActivatePrompts ==
  ASSUME TypeOK, NEW i \in DOMAIN apps, NEW t, Activates(i, t)
  PROVE  /\ DOMAIN apps' = DOMAIN apps
         /\ \A j \in DOMAIN apps :
              apps'[j].prompt = IF j = i THEN Len(sent) + 1 ELSE apps[j].prompt
<1>1. apps \in Seq(App) /\ apps' = [apps EXCEPT ![i].prompt = Len(sent) + 1]
  BY TypeParts DEF Activates
<1>2. \A j \in DOMAIN apps : apps[j] \in App
  <2> HIDE DEF App
  <2> QED BY <1>1, SeqOps
<1> QED BY <1>1, <1>2 DEF App

LEMMA OnScreenPrompts ==
  ASSUME TypeOK, apps' = [apps EXCEPT ![foreground].prompt = None]
  PROVE  /\ DOMAIN apps' = DOMAIN apps
         /\ \A j \in DOMAIN apps :
              apps'[j].prompt = IF j = foreground THEN None ELSE apps[j].prompt
<1>1. apps \in Seq(App)
  BY TypeParts
<1>2. \A j \in DOMAIN apps : apps[j] \in App
  <2> HIDE DEF App
  <2> QED BY <1>1, SeqOps
<1> QED BY <1>2 DEF App

LEMMA FreshPrompts ==
  ASSUME ClearChat
  PROVE  \A i \in DOMAIN apps' : apps'[i].prompt = None
BY DEF ClearChat, FreshApps, AppRecord

(* A turn that ends without an activation. *)
LEMMA IdlePrompts ==
  ASSUME TypeOK, NEW p \in Prompt, NEW t, Finishes(p, t),
         ~(\E i \in DOMAIN apps : Activates(i, t))
  PROVE  /\ sent' = sent /\ KeepsOrDrops /\ foreground' = foreground /\ Become(t)
         /\ DOMAIN apps' = DOMAIN apps
         /\ \/ /\ p = ama.prompt /\ Idles(t) /\ apps' = apps
               /\ ama' = [ama EXCEPT !.prompt = None, !.intent = None]
            \/ /\ p # ama.prompt /\ ama' = ama
               /\ InBackground(p) /\ chat' = chat
               /\ \A i \in DOMAIN apps :
                    apps'[i].prompt = IF i \in Owners(p) THEN None ELSE apps[i].prompt
            \/ /\ p # ama.prompt /\ ama' = ama /\ ~InBackground(p)
               /\ \A i \in DOMAIN apps :
                    apps'[i].prompt = IF i = foreground THEN None ELSE apps[i].prompt
               /\ chat'.busy = FALSE
<1>1. CASE p = ama.prompt
  BY <1>1 DEF Finishes, Idles, KeepsOrDrops
<1>2. CASE p # ama.prompt /\ InBackground(p)
  <2>1. Badge(p, None) /\ chat' = chat /\ ama' = ama /\ sent' = sent /\ foreground' = foreground /\ Become(t)
    BY <1>2 DEF Finishes
  <2>2. Prompt' = Prompt
    BY <2>1 DEF Prompt
  <2>3. /\ DOMAIN apps' = DOMAIN apps
        /\ \A i \in DOMAIN apps :
             apps'[i].prompt = IF i \in Owners(p) THEN None ELSE apps[i].prompt
    <3>1. apps' = [i \in DOMAIN apps |->
                     IF i \in Owners(p) THEN [apps[i] EXCEPT !.updates = TRUE, !.prompt = None]
                     ELSE apps[i]]
      BY <2>1 DEF Badge
    <3>2. apps \in Seq(App)
      BY TypeParts
    <3>3. \A i \in DOMAIN apps : apps[i] \in App
      <4> HIDE DEF App
      <4> QED BY <3>2, SeqOps
    <3> QED BY <3>1, <3>3 DEF App
  <2> QED BY <1>2, <2>1, <2>3 DEF KeepsOrDrops
<1>3. CASE p # ama.prompt /\ ~InBackground(p)
  <2>1. ama' = ama /\ sent' = sent /\ foreground' = foreground /\ Become(t)
    BY <1>3 DEF Finishes
  <2>2. apps' = [apps EXCEPT ![foreground].prompt = None] /\ chat'.busy = FALSE
    BY <1>3 DEF Finishes, EndsOnScreen
  <2> QED BY <1>3, <2>1, <2>2, OnScreenPrompts DEF KeepsOrDrops
<1> QED BY <1>1, <1>2, <1>3

(* What a step may do to the prompts that are tracked. *)
LEMMA PromptStep ==
  ASSUME TypeOK, PlacesOK, [Next]_vars
  PROVE  \/ sent' = sent /\ KeepsOrDrops /\ ama'.prompt \in {ama.prompt, None}
         \/ Submit
         \/ \E p \in Prompt : \E t \in Settled(p) : \E i \in DOMAIN apps :
              /\ p = ama.prompt /\ Activates(i, t)
              /\ ama' = [ama EXCEPT !.prompt = None, !.intent = None]
<1>1. ama \in Classifier
  BY TypeParts
<1>2. CASE Cancel
  BY <1>2, CancelTypes, OnScreenPrompts DEF Cancel, KeepsOrDrops
<1>3. CASE Clear \/ Reconnect
  <2>1. ClearChat
    BY <1>3 DEF Clear, Reconnect
  <2>2. ama'.prompt = ama.prompt /\ sent' = sent
    BY <1>1, <2>1 DEF ClearChat, Classifier
  <2> QED BY <2>1, <2>2, FreshPrompts DEF KeepsOrDrops
<1>4. CASE OpenNewApp
  <2>1. /\ DOMAIN apps' = 1..(Len(apps) + 1) /\ apps'[Len(apps) + 1].prompt = None
        /\ \A i \in DOMAIN apps : apps'[i].prompt = apps[i].prompt
    BY <1>4, OpenTypes
  <2>2. DOMAIN apps = 1..Len(apps) /\ Len(apps) \in Nat
    BY SeqOps, TypeParts
  <2>3. \A i \in DOMAIN apps' : i \in DOMAIN apps \/ i = Len(apps) + 1
    BY <2>1, <2>2
  <2> QED BY <1>4, <2>1, <2>3 DEF OpenNewApp, KeepsOrDrops
<1>5. CASE SwitchToApp
  BY <1>5, SwitchTypes DEF SwitchToApp, KeepsOrDrops
<1>6. ASSUME NEW s \in Session, Select(s)
      PROVE  sent' = sent /\ KeepsOrDrops /\ ama'.prompt \in {ama.prompt, None}
  <2>1. sent' = sent /\ ama' = ama
    BY <1>6 DEF Select
  <2> QED BY <1>6, <2>1, SelectTypes DEF KeepsOrDrops
<1>7. ASSUME NEW s \in Session, Hydrated(s)
      PROVE  sent' = sent /\ KeepsOrDrops /\ ama'.prompt \in {ama.prompt, None}
  BY <1>7 DEF Hydrated, KeepsOrDrops
<1>8. ASSUME NEW p \in Prompt, TextDelta(p)
      PROVE  sent' = sent /\ KeepsOrDrops /\ ama'.prompt \in {ama.prompt, None}
  <2>1. sent' = sent /\ ama'.prompt = ama.prompt
    BY <1>1, <1>8 DEF TextDelta, Classifier
  <2> QED BY <1>8, <2>1, DeltaTypes DEF KeepsOrDrops
<1>9. ASSUME NEW p \in Prompt, NEW t \in Settled(p), Finishes(p, t)
      PROVE  \/ sent' = sent /\ KeepsOrDrops /\ ama'.prompt \in {ama.prompt, None}
             \/ \E i \in DOMAIN apps :
                  /\ p = ama.prompt /\ Activates(i, t)
                  /\ ama' = [ama EXCEPT !.prompt = None, !.intent = None]
  <2>1. CASE \E i \in DOMAIN apps : Activates(i, t)
    <3>1. PICK i \in DOMAIN apps : Activates(i, t)
      BY <2>1
    <3>2. sent' # sent
      <4>1. Len(sent') = Len(sent) + 1 /\ Len(sent) \in Nat
        BY <3>1, Extends, Lengths DEF Activates
      <4> QED BY <4>1
    <3>3. p = ama.prompt /\ ama' = [ama EXCEPT !.prompt = None, !.intent = None]
      BY <1>9, <3>2 DEF Finishes
    <3> QED BY <3>1, <3>3
  <2>2. CASE ~(\E i \in DOMAIN apps : Activates(i, t))
    <3>1. ama'.prompt \in {ama.prompt, None}
      BY <1>1, <1>9, <2>2, IdlePrompts DEF Classifier
    <3> QED BY <1>9, <2>2, <3>1, IdlePrompts
  <2> QED BY <2>1, <2>2
<1>10. CASE Silent
  BY <1>10 DEF Silent, appVars, KeepsOrDrops
<1> QED BY <1>2, <1>3, <1>4, <1>5, <1>6, <1>7, <1>8, <1>9, <1>10, Steps

LEMMA OwnStep ==
  ASSUME TypeOK, PlacesOK, TrackedIsOwn, [Next]_vars
  PROVE  TrackedIsOwn'
<1>1. CASE sent' = sent /\ KeepsOrDrops /\ ama'.prompt \in {ama.prompt, None}
  BY <1>1 DEF TrackedIsOwn, KeepsOrDrops
<1>2. CASE Submit
  <2>1. /\ sent' = Append(sent, [session |-> ama.session, intent |-> Len(verdict) + 1, app |-> None])
        /\ apps' = apps /\ ama' = [ama EXCEPT !.prompt = Len(sent) + 1, !.text = NoText,
                                              !.intent = Len(verdict) + 1]
    BY <1>2, SubmitTypes DEF Submit
  <2>2. ama'.prompt = Len(sent) + 1
    BY <2>1, TypeParts DEF Classifier
  <2>3. sent'[Len(sent) + 1].app = None /\ \A q \in Prompt : sent'[q] = sent[q]
    BY <2>1, SendExtends
  <2> QED BY <2>1, <2>2, <2>3, PromptsAre DEF TrackedIsOwn
<1>3. ASSUME NEW p \in Prompt, NEW t \in Settled(p), NEW i \in DOMAIN apps,
             p = ama.prompt, Activates(i, t),
             ama' = [ama EXCEPT !.prompt = None, !.intent = None]
      PROVE  TrackedIsOwn'
  <2>1. sent'[Len(sent) + 1].app = i /\ \A q \in Prompt : sent'[q] = sent[q]
    BY <1>3, SendExtends DEF Activates
  <2>2. ama'.prompt = None
    BY <1>3, TypeParts DEF Classifier
  <2> QED BY <1>3, <2>1, <2>2, ActivatePrompts, PromptsAre DEF TrackedIsOwn
<1> QED BY <1>1, <1>2, <1>3, PromptStep

-----------------------------------------------------------------------------
(***************************************************************************)
(* The held message and its answer.                                        *)
(***************************************************************************)
Judged == AskedOnce /\ HeldMessageIsJudged

LEMMA JudgedSubmit ==
  ASSUME TypeOK, PlacesOK, Judged, Submit
  PROVE  Judged'
<1> DEFINE k == Len(verdict) + 1
           n == Len(sent) + 1
<1>1. /\ sent' = Append(sent, [session |-> ama.session, intent |-> k, app |-> None])
      /\ verdict' = Append(verdict, NoText) /\ Posts(n, Now)
      /\ ama' = [ama EXCEPT !.prompt = n, !.text = NoText, !.intent = k]
  BY SubmitTypes DEF Submit
<1>2. ama'.prompt = n /\ ama'.text = NoText /\ ama'.intent = k
  BY <1>1, TypeParts DEF Classifier
<1>3. verdict'[k] = NoText
  <2>1. verdict \in Seq(Answers \cup {Reason, NoText})
    BY TypeParts
  <2> QED BY <1>1, <2>1, SeqOps
<1>4. /\ Prompt' = Prompt \cup {n} /\ n \notin Prompt /\ n # None
      /\ sent'[n].app = None /\ sent'[n].intent = k
      /\ \A q \in Prompt : sent'[q] = sent[q]
  BY <1>1, SendExtends
<1>5. \A q \in Prompt : sent[q].intent # k
  BY SentIs, Lengths
<1>6. n \in prompts'
  BY <1>1 DEF Posts
<1> HIDE DEF k, n
<1>7. AskedOnce'
  <2>1. \A p, q \in Prompt' :
          /\ sent'[p].app = None /\ sent'[q].app = None
          /\ sent'[p].intent = sent'[q].intent
          => p = q
    BY <1>4, <1>5 DEF Judged, AskedOnce
  <2>2. ama'.text = verdict'[ama'.intent]
    BY <1>2, <1>3
  <2>3. \A p \in Prompt' : sent'[p].intent = ama'.intent => sent'[p].app = None
    BY <1>2, <1>4, <1>5
  <2> QED BY <2>1, <2>2, <2>3 DEF AskedOnce
<1>8. HeldMessageIsJudged'
  BY <1>2, <1>4, <1>6 DEF HeldMessageIsJudged
<1> QED BY <1>7, <1>8 DEF Judged

LEMMA JudgedDelta ==
  ASSUME TypeOK, PlacesOK, Judged, NEW p \in Prompt, TextDelta(p)
  PROVE  Judged'
<1>1. PICK w \in Word(p) :
       /\ verdict' = IF Undecided(p)
                     THEN [verdict EXCEPT ![sent[p].intent] = w] ELSE verdict
       /\ \/ /\ p = ama.prompt
             /\ ama' = [ama EXCEPT !.text = IF @ = NoText THEN w ELSE @]
          \/ /\ p # ama.prompt
             /\ ama' = ama
  BY DEF TextDelta
<1>2. sent' = sent /\ prompts' = prompts /\ Prompt' = Prompt
  BY DEF TextDelta, Prompt
<1>3. /\ ama'.prompt = ama.prompt /\ ama'.intent = ama.intent
      /\ ama'.text = IF p = ama.prompt /\ ama.text = NoText THEN w ELSE ama.text
  BY <1>1, TypeParts DEF Classifier
<1>4. HeldMessageIsJudged'
  BY <1>2, <1>3 DEF Judged, HeldMessageIsJudged
<1>5. AskedOnce'
  <2>1. ASSUME ama.intent # None
        PROVE  ama'.text = verdict'[ama.intent]
    <3>1. /\ ama.prompt \in Prompt /\ sent[ama.prompt].app = None
          /\ sent[ama.prompt].intent = ama.intent /\ ama.text = verdict[ama.intent]
      BY <2>1, PromptsAre DEF Judged, AskedOnce, HeldMessageIsJudged
    <3>2. verdict \in Seq(Answers \cup {Reason, NoText}) /\ ama.intent \in DOMAIN verdict
      <4>1. verdict \in Seq(Answers \cup {Reason, NoText})
        BY TypeParts
      <4> QED BY <3>1, <4>1, SentIs, SeqOps
    <3>3. CASE p = ama.prompt
      <4>1. Undecided(p) <=> ama.text = NoText
        BY <3>1, <3>3 DEF Undecided
      <4>2. CASE Undecided(p)
        <5>1. verdict' = [verdict EXCEPT ![ama.intent] = w] /\ ama'.text = w
          BY <1>1, <1>3, <3>1, <3>3, <4>1, <4>2
        <5> QED BY <3>2, <5>1
      <4>3. CASE ~Undecided(p)
        BY <1>1, <1>3, <3>1, <4>1, <4>3
      <4> QED BY <4>2, <4>3
    <3>4. CASE p # ama.prompt
      <4>1. Undecided(p) => sent[p].intent # ama.intent
        BY <3>1, <3>4 DEF Undecided, Judged, AskedOnce
      <4>2. verdict'[ama.intent] = verdict[ama.intent]
        BY <1>1, <3>2, <4>1
      <4> QED BY <1>3, <3>1, <3>4, <4>2
    <3> QED BY <3>3, <3>4
  <2> QED BY <1>2, <1>3, <2>1 DEF Judged, AskedOnce
<1> QED BY <1>4, <1>5 DEF Judged

LEMMA JudgedFinish ==
  ASSUME TypeOK, PlacesOK, Judged, NEW p \in Prompt, NEW t \in Settled(p), Finishes(p, t)
  PROVE  Judged'
<1>1. CASE \E i \in DOMAIN apps : Activates(i, t)
  <2>1. PICK i \in DOMAIN apps : Activates(i, t)
    BY <1>1
  <2>2. /\ Prompt' = Prompt \cup {Len(sent) + 1} /\ Len(sent') = Len(sent) + 1
        /\ sent'[Len(sent) + 1].app = i /\ \A q \in Prompt : sent'[q] = sent[q]
    BY <2>1, SendExtends DEF Activates
  <2>3. i # None
    BY <2>1, DomainsAre DEF Activates, None
  <2>4. ama' = [ama EXCEPT !.prompt = None, !.intent = None]
    <3>1. sent' # sent
      BY <2>2, Lengths
    <3> QED BY <3>1 DEF Finishes
  <2>5. ama'.intent = None
    BY <2>4, TypeParts DEF Classifier
  <2> QED BY <2>2, <2>3, <2>5 DEF Judged, AskedOnce, HeldMessageIsJudged
<1>2. CASE ~(\E i \in DOMAIN apps : Activates(i, t))
  <2>1. sent' = sent /\ Become(t) /\ verdict' = verdict /\ Prompt' = Prompt
    BY <1>2, IdlePrompts DEF Finishes, Prompt
  <2>2. CASE p = ama.prompt
    <3>1. ama'.intent = None
      BY <1>2, <2>2, IdlePrompts, TypeParts DEF Classifier
    <3> QED BY <2>1, <3>1 DEF Judged, AskedOnce, HeldMessageIsJudged
  <2>3. CASE p # ama.prompt
    <3>1. ama' = ama
      BY <1>2, <2>3, IdlePrompts
    <3>2. ama.prompt \in prompts => ama.prompt \in prompts'
      BY <2>1, <2>3 DEF Become, Settled
    <3> QED BY <2>1, <3>1, <3>2 DEF Judged, AskedOnce, HeldMessageIsJudged
  <2> QED BY <2>2, <2>3
<1> QED BY <1>1, <1>2

LEMMA JudgedStep ==
  ASSUME TypeOK, PlacesOK, Judged, [Next]_vars
  PROVE  Judged'
<1>1. ASSUME sent' = sent, verdict' = verdict, ama' = ama, prompts' = prompts
      PROVE  Judged'
  BY <1>1 DEF Judged, AskedOnce, HeldMessageIsJudged, Prompt
<1>2. CASE Cancel \/ OpenNewApp \/ SwitchToApp
  BY <1>1, <1>2 DEF Cancel, OpenNewApp, SwitchToApp
<1>3. CASE \E s \in Session : Select(s) \/ Hydrated(s)
  BY <1>1, <1>3 DEF Select, Hydrated
<1>4. CASE Silent
  BY <1>1, <1>4 DEF Silent, appVars
<1>5. CASE Clear \/ Reconnect
  <2>1. ClearChat
    BY <1>5 DEF Clear, Reconnect
  <2>2. ama'.intent = None /\ sent' = sent /\ verdict' = verdict
    BY <2>1, TypeParts DEF ClearChat, Classifier
  <2> QED BY <2>2 DEF Judged, AskedOnce, HeldMessageIsJudged, Prompt
<1> QED BY <1>2, <1>3, <1>4, <1>5, Steps, JudgedSubmit, JudgedDelta, JudgedFinish

-----------------------------------------------------------------------------
(***************************************************************************)
(* Prompts in flight, and the octopus.                                     *)
(***************************************************************************)
LEMMA InFlightStep ==
  ASSUME TypeOK, PlacesOK, TrackedIsOwn, TrackedIsInFlight, [Next]_vars
  PROVE  TrackedIsInFlight'
<1>1. ASSUME KeepsOrDrops, prompts' = prompts
      PROVE  TrackedIsInFlight'
  BY <1>1 DEF TrackedIsInFlight, KeepsOrDrops
<1>2. CASE Submit
  <2>1. apps' = apps /\ Posts(Len(sent) + 1, Now)
    BY <1>2, SubmitTypes DEF Submit
  <2>2. prompts \subseteq prompts'
    BY <2>1, NowIs DEF Posts
  <2> QED BY <2>1, <2>2 DEF TrackedIsInFlight
<1>3. CASE Clear \/ Reconnect
  <2>1. ClearChat
    BY <1>3 DEF Clear, Reconnect
  <2> QED BY <2>1, FreshPrompts DEF TrackedIsInFlight
<1>4. ASSUME Cancel \/ OpenNewApp \/ SwitchToApp \/ (\E s \in Session : Select(s) \/ Hydrated(s))
             \/ (\E p \in Prompt : TextDelta(p)) \/ Silent
      PROVE  TrackedIsInFlight'
  <2>1. prompts' = prompts /\ sent' = sent
    BY <1>4 DEF Cancel, OpenNewApp, SwitchToApp, Select, Hydrated, TextDelta, Silent, appVars
  <2>2. KeepsOrDrops
    <3>1. ~Submit
      <4>1. Submit => Len(sent') = Len(sent) + 1
        BY SubmitTypes, SendExtends
      <4> QED BY <2>1, <4>1, Lengths
    <3>2. ASSUME NEW t, NEW i \in DOMAIN apps, Activates(i, t) PROVE FALSE
      <4>1. Len(sent') = Len(sent) + 1
        BY <3>2, SendExtends DEF Activates
      <4> QED BY <2>1, <4>1, Lengths
    <3> QED BY <3>1, <3>2, PromptStep
  <2> QED BY <1>1, <2>1, <2>2
<1>5. ASSUME NEW p \in Prompt, NEW t \in Settled(p), Finishes(p, t)
      PROVE  TrackedIsInFlight'
  <2>1. CASE \E i \in DOMAIN apps : Activates(i, t)
    <3>1. PICK i \in DOMAIN apps : Activates(i, t)
      BY <2>1
    <3>2. p = ama.prompt
      <4>1. Len(sent') = Len(sent) + 1
        BY <3>1, SendExtends DEF Activates
      <4>2. sent' # sent
        BY <4>1, Lengths
      <4> QED BY <1>5, <4>2 DEF Finishes
    <3>3. (prompts \ {p}) \cup {Len(sent) + 1} \subseteq prompts'
      BY <3>1 DEF Activates, Posts, Settled
    <3>4. \A j \in DOMAIN apps : apps[j].prompt # p
      <4>1. p # None /\ sent[p].app = None
        BY <3>2, PromptsAre DEF TrackedIsOwn
      <4>2. \A j \in DOMAIN apps : j # None
        BY TypeParts, SeqOps DEF None
      <4> QED BY <4>1, <4>2 DEF TrackedIsOwn
    <3> QED BY <3>1, <3>3, <3>4, ActivatePrompts DEF TrackedIsInFlight
  <2>2. CASE ~(\E i \in DOMAIN apps : Activates(i, t))
    <3>1. prompts \ {p} \subseteq prompts'
      BY <1>5, <2>2, IdlePrompts DEF Become, Settled
    <3>2. \A i \in DOMAIN apps : \/ apps'[i].prompt = None
                                 \/ /\ apps'[i].prompt = apps[i].prompt
                                    /\ apps[i].prompt # p
      <4>1. CASE p = ama.prompt
        <5>1. \A j \in DOMAIN apps : j # None
          BY TypeParts, SeqOps DEF None
        <5>2. apps' = apps
          BY <1>5, <2>2, <4>1, IdlePrompts
        <5> QED BY <4>1, <5>1, <5>2, PromptsAre DEF TrackedIsOwn
      <4>2. CASE p # ama.prompt /\ InBackground(p)
        <5>1. \A i \in DOMAIN apps :
                apps'[i].prompt = IF i \in Owners(p) THEN None ELSE apps[i].prompt
          BY <1>5, <2>2, <4>2, IdlePrompts
        <5> QED BY <5>1 DEF Owners
      <4>3. CASE p # ama.prompt /\ ~InBackground(p)
        <5>1. \A i \in DOMAIN apps :
                apps'[i].prompt = IF i = foreground THEN None ELSE apps[i].prompt
          BY <1>5, <2>2, <4>3, IdlePrompts
        <5>2. \A i \in DOMAIN apps : apps[i].prompt = p => i = foreground
          BY <4>3, PromptsAre DEF TrackedIsOwn, InBackground, Owners
        <5> QED BY <5>1, <5>2
      <4> QED BY <4>1, <4>2, <4>3
    <3>3. DOMAIN apps' = DOMAIN apps
      BY <1>5, <2>2, IdlePrompts
    <3> QED BY <3>1, <3>2, <3>3 DEF TrackedIsInFlight
  <2> QED BY <2>1, <2>2
<1> QED BY <1>2, <1>3, <1>4, <1>5, Steps

LEMMA BusyFinish ==
  ASSUME TypeOK, PlacesOK, BusyMeansWorking, NEW p \in Prompt, NEW t \in Settled(p), Finishes(p, t)
  PROVE  BusyMeansWorking'
<1>1. CASE \E i \in DOMAIN apps : Activates(i, t)
  <2>1. PICK i \in DOMAIN apps : Activates(i, t)
    BY <1>1
  <2> DEFINE n == Len(sent) + 1
  <2>2. Len(sent') = n /\ n # None
    BY <2>1, SendExtends DEF Activates
  <2>3. ama'.prompt = None
    <3>1. sent' # sent
      BY <2>2, Lengths
    <3>2. ama' = [ama EXCEPT !.prompt = None, !.intent = None]
      BY <3>1 DEF Finishes
    <3> QED BY <3>2, TypeParts DEF Classifier
  <2>4. n \in prompts'
    BY <2>1 DEF Activates, Posts
  <2>5. foreground' = i /\ i \in DOMAIN apps' /\ apps'[i].prompt = n
    BY <2>1, ActivatePrompts DEF Activates
  <2> HIDE DEF n
  <2> QED BY <2>2, <2>3, <2>4, <2>5 DEF BusyMeansWorking, InBackground, Owners
<1>2. CASE ~(\E i \in DOMAIN apps : Activates(i, t))
  <2>1. SUFFICES ASSUME chat'.busy
                 PROVE  \E q \in prompts' : \/ q = ama'.prompt /\ ama'.intent # None
                                            \/ q # ama'.prompt /\ ~InBackground(q)'
    BY DEF BusyMeansWorking
  <2>2. /\ prompts \ {p} \subseteq prompts' /\ foreground' = foreground /\ DOMAIN apps' = DOMAIN apps
    BY <1>2, IdlePrompts DEF Become, Settled
  <2>3. CASE p = ama.prompt
    <3>1. /\ Idles(t) /\ apps' = apps /\ ama' = [ama EXCEPT !.prompt = None, !.intent = None]
      BY <1>2, <2>3, IdlePrompts
    <3>2. ama'.prompt = None
      BY <3>1, TypeParts DEF Classifier
    <3>3. chat' = chat /\ ama.intent = None
      <4>1. chat' # [chat EXCEPT !.busy = FALSE]
        BY <2>1, TypeParts DEF Screen
      <4> QED BY <3>1, <4>1 DEF Idles
    <3>4. PICK q \in prompts : q # ama.prompt /\ ~InBackground(q)
      BY <2>1, <2>2, <3>3 DEF BusyMeansWorking
    <3>5. q \in prompts' /\ q # ama'.prompt
      BY <2>2, <2>3, <3>2, <3>4, PromptsAre
    <3>6. ~InBackground(q)'
      BY <2>2, <3>1, <3>4 DEF InBackground, Owners
    <3> QED BY <3>5, <3>6
  <2>4. CASE p # ama.prompt /\ InBackground(p)
    <3>1. /\ ama' = ama /\ chat' = chat
          /\ \A i \in DOMAIN apps :
               apps'[i].prompt = IF i \in Owners(p) THEN None ELSE apps[i].prompt
      BY <1>2, <2>4, IdlePrompts
    <3>2. PICK q \in prompts : \/ q = ama.prompt /\ ama.intent # None
                               \/ q # ama.prompt /\ ~InBackground(q)
      BY <2>1, <2>2, <3>1 DEF BusyMeansWorking
    <3>3. q # p /\ q # None
      BY <2>4, <3>2, PromptsAre
    <3>4. Owners(q)' = Owners(q)
      BY <2>2, <3>1, <3>3 DEF Owners
    <3>5. InBackground(q)' = InBackground(q)
      BY <2>2, <3>4 DEF InBackground
    <3> QED BY <2>2, <3>1, <3>2, <3>3, <3>5
  <2>5. CASE p # ama.prompt /\ ~InBackground(p)
    BY <1>2, <2>1, <2>5, IdlePrompts
  <2> QED BY <2>3, <2>4, <2>5
<1> QED BY <1>1, <1>2

LEMMA BusyStep ==
  ASSUME TypeOK, PlacesOK, BusyMeansWorking, [Next]_vars
  PROVE  BusyMeansWorking'
<1>1. ASSUME chat'.busy = FALSE PROVE BusyMeansWorking'
  BY <1>1 DEF BusyMeansWorking
<1>2. ASSUME prompts' = prompts, chat'.busy = chat.busy, foreground' = foreground,
             ama'.prompt = ama.prompt, ama'.intent = ama.intent,
             DOMAIN apps' = DOMAIN apps, \A i \in DOMAIN apps : apps'[i].prompt = apps[i].prompt
      PROVE  BusyMeansWorking'
  BY <1>2 DEF BusyMeansWorking, InBackground, Owners
<1>3. CASE Submit
  <2>1. /\ Posts(Len(sent) + 1, Now)
        /\ ama' = [ama EXCEPT !.prompt = Len(sent) + 1, !.text = NoText,
                              !.intent = Len(verdict) + 1]
    BY <1>3, SubmitTypes DEF Submit
  <2>2. ama'.prompt = Len(sent) + 1 /\ ama'.intent # None
    BY <2>1, TypeParts, Lengths DEF Classifier, None
  <2>3. Len(sent) + 1 \in prompts'
    BY <2>1 DEF Posts
  <2> QED BY <2>2, <2>3 DEF BusyMeansWorking
<1>4. CASE Cancel
  BY <1>1, <1>4, CancelTypes
<1>5. CASE Clear \/ Reconnect
  <2>1. chat' = EmptyScreen
    BY <1>5 DEF Clear, Reconnect, ClearChat
  <2>2. EmptyScreen.busy = FALSE
    BY DEF EmptyScreen
  <2> QED BY <1>1, <2>1, <2>2
<1>6. CASE OpenNewApp \/ \E s \in Session : Select(s)
  <2>1. chat' = EmptyScreen
    BY <1>6 DEF OpenNewApp, Select
  <2>2. EmptyScreen.busy = FALSE
    BY DEF EmptyScreen
  <2> QED BY <1>1, <2>1, <2>2
<1>7. CASE SwitchToApp
  BY <1>1, <1>7, SwitchTypes
<1>8. ASSUME NEW s \in Session, Hydrated(s) PROVE BusyMeansWorking'
  <2>1. CASE chat' = chat
    BY <1>2, <1>8, <2>1 DEF Hydrated
  <2> QED BY <1>1, <1>8, <2>1, HydratedTypes
<1>9. ASSUME NEW p \in Prompt, TextDelta(p) PROVE BusyMeansWorking'
  <2>1. ama'.prompt = ama.prompt /\ ama'.intent = ama.intent
    BY <1>9, TypeParts DEF TextDelta, Classifier
  <2>2. prompts' = prompts /\ foreground' = foreground
    BY <1>9 DEF TextDelta
  <2> QED BY <1>2, <1>9, <2>1, <2>2, DeltaTypes
<1>10. CASE Silent
  BY <1>2, <1>10 DEF Silent, appVars
<1> QED BY <1>3, <1>4, <1>5, <1>6, <1>7, <1>8, <1>9, <1>10, Steps, BusyFinish

-----------------------------------------------------------------------------
(***************************************************************************)
(* Theorems.                                                               *)
(***************************************************************************)
LEMMA InitInv == Init => IInv
<1> SUFFICES ASSUME Init PROVE IInv
  OBVIOUS
<1>1. TypeOK /\ PlacesOK
  BY InitType
<1>2. \A i \in DOMAIN apps : apps[i].prompt = None
  BY DEF Init, FreshApps, AppRecord
<1>3. ama.prompt = None /\ ama.intent = None /\ chat.busy = FALSE /\ Prompt = {}
  BY DEF Init, EmptyScreen, Prompt
<1> QED BY <1>1, <1>2, <1>3
        DEF IInv, TrackedIsOwn, AskedOnce, HeldMessageIsJudged, TrackedIsInFlight, BusyMeansWorking

LEMMA InvStep == IInv /\ [Next]_vars => IInv'
<1> SUFFICES ASSUME IInv, [Next]_vars PROVE IInv'
  OBVIOUS
<1>1. /\ TypeOK /\ PlacesOK /\ TrackedIsOwn /\ Judged /\ TrackedIsInFlight /\ BusyMeansWorking
  BY DEF IInv, Judged
<1>2. TypeOK' /\ PlacesOK' /\ TrackedIsOwn' /\ Judged' /\ TrackedIsInFlight' /\ BusyMeansWorking'
  BY <1>1, TypeStep, OwnStep, JudgedStep, InFlightStep, BusyStep
<1> QED BY <1>2 DEF IInv, Judged

LEMMA Invariant == Spec => []IInv
BY InitInv, InvStep, PTL DEF Spec

(* A held message is always being classified, whatever was overtaken, cancelled, cleared
   or blamed. *)
THEOREM HeldCorrect == Spec => []HeldMessageIsJudged
<1>1. IInv => HeldMessageIsJudged
  BY DEF IInv
<1> QED BY <1>1, Invariant, PTL

(* An app waits only for a prompt whose end has not been heard. *)
THEOREM InFlightCorrect == Spec => []TrackedIsInFlight
<1>1. IInv => TrackedIsInFlight
  BY DEF IInv
<1> QED BY <1>1, Invariant, PTL

(* The octopus swims only while a prompt is expected to end that would stop it. *)
THEOREM BusyCorrect == Spec => []BusyMeansWorking
<1>1. IInv => BusyMeansWorking
  BY DEF IInv
<1> QED BY <1>1, Invariant, PTL

LEMMA RoutedStep ==
  ASSUME IInv, NEW p \in Prompt, p = ama.prompt, TurnComplete(p), sent' # sent
  PROVE  LET new == sent'[Len(sent')]
         IN  /\ new.intent = sent[p].intent
             /\ apps[new.app].domain = verdict[new.intent]
             /\ \A q \in Prompt : sent[q].intent = new.intent => sent[q].app = None
<1>1. TypeOK /\ PlacesOK /\ AskedOnce /\ HeldMessageIsJudged
  BY DEF IInv
<1>2. RouteToApp(ama.text, Ended(p))
  BY DEF TurnComplete
<1>3. \/ \E i \in DOMAIN apps : Activates(i, Ended(p)) /\ apps[i].domain = ama.text
      \/ Idles(Ended(p))
  BY <1>1, <1>2, Routes, EndedSettles, TextIsNoDomain
<1>4. PICK i \in DOMAIN apps : Activates(i, Ended(p)) /\ apps[i].domain = ama.text
  BY <1>3 DEF Idles
<1>5. /\ Len(sent') = Len(sent) + 1
      /\ sent'[Len(sent) + 1].app = i /\ sent'[Len(sent) + 1].intent = ama.intent
  BY <1>1, <1>4, SendExtends DEF Activates
<1>6. ama.intent # None
  BY <1>4 DEF Activates
<1> QED BY <1>1, <1>4, <1>5, <1>6 DEF AskedOnce, HeldMessageIsJudged

(* The app that a message activates is the one that the AMA's answer names, as far as
   it arrived. *)
THEOREM RoutedCorrect == Spec => RoutedAsDecided
<1>1. IInv /\ [Next]_vars =>
        [\A p \in Prompt : p = ama.prompt /\ TurnComplete(p) /\ sent' # sent =>
           LET new == sent'[Len(sent')]
           IN  /\ new.intent = sent[p].intent
               /\ apps[new.app].domain = verdict[new.intent]
               /\ \A q \in Prompt : sent[q].intent = new.intent => sent[q].app = None]_vars
  BY RoutedStep
<1> QED BY <1>1, Invariant, PTL DEF Spec, RoutedAsDecided
=============================================================================
