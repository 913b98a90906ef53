-------------------------------- MODULE Login --------------------------------
(***************************************************************************)
(* Sign-in (main.rs, login.rs, keychain.rs): the server that server.json   *)
(* names, the bearers in the token store, the background threads that sign *)
(* in without a password, provisioning by a scanned code, sign-out, and    *)
(* the agent that connect_transport builds from what is on the disk.       *)
(*                                                                         *)
(* A bearer is known by its key, the host and profile it is stored for.    *)
(* The e-mail flow is left out: its screen is never shown.                 *)
(***************************************************************************)
EXTENDS Naturals, Sequences

CONSTANTS
  Host, Profile,
  Owner,       \* the owner that each server running --solo has or creates
  Default,     \* DEFAULT_SERVER_URL and DEFAULT_PROFILE
  NoConf,      \* there is no server.json, or no cached identity
  Thread       \* bound: sign-in threads at a time

Identity == [h : Host, p : Profile]

ASSUME LoginAssumption ==
  /\ \E S \in SUBSET Host : Owner \in [S -> Profile]
  /\ Default \in Identity /\ NoConf \notin Identity

VARIABLES
  conf,        \* server.json
  tokens,      \* keys that have a bearer in the token store
  cached,      \* login_server_url and login_profile_id
  agent,       \* the identity the agent was built with, and whether it had a bearer
  job,         \* run_blocking_solo_login: what each thread does next
  replies,     \* SoloReply actions posted and not handled: was it Ok?
  signedIn     \* the last sign-in or provisioning that ended did not fail

loginVars == <<conf, tokens, cached, agent, job, replies, signedIn>>

NoJob == [at |-> "idle", id |-> NoConf]
Job   == [at : {"ask", "store", "save"}, id : Identity]

LoginTypeOK ==
  /\ conf \in Identity \cup {NoConf} /\ cached \in Identity \cup {NoConf}
  /\ tokens \subseteq Identity
  /\ agent \in [id : Identity \cup {NoConf}, bearer : BOOLEAN]
  /\ job \in [Thread -> Job \cup {NoJob}]
  /\ replies \in Seq(BOOLEAN) /\ signedIn \in BOOLEAN

-----------------------------------------------------------------------------
(* connect_transport: the configuration and the bearer are read again.     *)

Resolve(c, t) == [id |-> c, bearer |-> c \in t]

(* Mutant of Connect: the agent keeps its bearer. *)
ConnectKeepsBearer(c, t) ==
  agent' = [id |-> c, bearer |-> agent.bearer] /\ signedIn' = TRUE

Connect(c, t) == agent' = Resolve(c, t) /\ signedIn' = TRUE

(* auto_solo_login: without a configuration the default one is written; if *)
(* that fails there is none to sign in with.                               *)
AutoSoloLogin ==
  /\ conf' \in IF conf = NoConf THEN {Default, NoConf} ELSE {conf}
  /\ IF conf' = NoConf THEN UNCHANGED <<cached, job>>
     ELSE /\ cached' = conf'
          /\ \E th \in Thread :
               job[th] = NoJob /\ job' = [job EXCEPT ![th] = [at |-> "ask", id |-> conf']]

-----------------------------------------------------------------------------
(* What the user does *)

(* login_sign_out forgets the bearer of the cached identity, if it can. *)
SignOut ==
  /\ tokens' \in {tokens, tokens \ {cached}}
  /\ AutoSoloLogin
  /\ UNCHANGED <<agent, replies, signedIn>>

(* apply_provision_string: configuration first, then the bearer, if any. *)
Provisioned == \E id \in Identity :
  conf' = id /\ tokens' \in {tokens, tokens \cup {id}}

(* A scanned code that names a server, or a model only: the agent is rebuilt. *)
ScanSucceeds ==
  /\ Provisioned \/ UNCHANGED <<conf, tokens>>
  /\ Connect(conf', tokens')
  /\ UNCHANGED <<cached, job, replies>>

(* Storing the bearer fails, or the model's part does: no reconnect. *)
ScanFails ==
  /\ Provisioned
  /\ signedIn' = FALSE
  /\ UNCHANGED <<cached, agent, job, replies>>

(* The process ends, with its threads, and starts again: handle_startup and *)
(* boot_is_authed.                                                         *)
Restart ==
  /\ UNCHANGED tokens
  /\ Connect(conf, tokens)
  /\ replies' = <<>>
  /\ IF conf \in tokens
     THEN cached' = conf /\ job' = [th \in Thread |-> NoJob] /\ UNCHANGED conf
     ELSE /\ conf' \in IF conf = NoConf THEN {Default, NoConf} ELSE {conf}
          /\ cached' = conf'
          /\ job' \in IF conf' = NoConf THEN {[th \in Thread |-> NoJob]}
                      ELSE {[[th \in Thread |-> NoJob] EXCEPT ![new] = [at |-> "ask", id |-> conf']] :
                              new \in Thread}

-----------------------------------------------------------------------------
(* run_blocking_solo_login *)

Reply(th, ok) ==
  /\ job' = [job EXCEPT ![th] = NoJob]
  /\ replies' = Append(replies, ok)

(* The server signs its owner in, whoever the client guessed. *)
SoloAnswer(th) ==
  /\ job[th].at = "ask"
  /\ LET h == job[th].id.h IN
       \/ /\ h \in DOMAIN Owner
          /\ job' = [job EXCEPT ![th] = [at |-> "store", id |-> [h |-> h, p |-> Owner[h]]]]
          /\ UNCHANGED replies
       \/ Reply(th, FALSE)
  /\ UNCHANGED <<conf, tokens, cached, agent, signedIn>>

StoreToken(th) ==
  /\ job[th].at = "store"
  /\ \/ /\ tokens' = tokens \cup {job[th].id}
        /\ job' = [job EXCEPT ![th].at = "save"] /\ UNCHANGED replies
     \/ Reply(th, FALSE) /\ UNCHANGED tokens
  /\ UNCHANGED <<conf, cached, agent, signedIn>>

(* The result of writing the config is not looked at. *)
SaveConfig(th) ==
  /\ job[th].at = "save"
  /\ conf' \in {job[th].id, conf}
  /\ Reply(th, TRUE)
  /\ UNCHANGED <<tokens, cached, agent, signedIn>>

SoloThread == \E th \in Thread : SoloAnswer(th) \/ StoreToken(th) \/ SaveConfig(th)

-----------------------------------------------------------------------------
(* SoloReply *)

SoloSucceeds ==
  /\ replies # <<>> /\ Head(replies) /\ replies' = Tail(replies)
  /\ cached' = IF conf = NoConf THEN cached ELSE conf
  /\ Connect(conf, tokens)
  /\ UNCHANGED <<conf, tokens, job>>

SoloFails ==
  /\ replies # <<>> /\ ~Head(replies) /\ replies' = Tail(replies)
  /\ signedIn' = FALSE
  /\ UNCHANGED <<conf, tokens, cached, agent, job>>

-----------------------------------------------------------------------------
(* The states of the disk that a start may find: after it, Restart. *)
LoginInit ==
  /\ conf \in {NoConf, Default} /\ tokens \in SUBSET {Default}
  /\ cached = NoConf
  /\ agent = Resolve(NoConf, {}) /\ signedIn = FALSE
  /\ job = [th \in Thread |-> NoJob] /\ replies = <<>>

LoginNext ==
  SignOut \/ ScanSucceeds \/ ScanFails \/ Restart \/ SoloThread \/ SoloSucceeds \/ SoloFails

LoginSpec == LoginInit /\ [][LoginNext]_loginVars

-----------------------------------------------------------------------------
(* Once every sign-in thread has been heard and the last of them did not    *)
(* fail, the agent has the very credentials that a restart would load: no  *)
(* interleaving of threads, scans and sign-outs leaves it with others      *)
(* (main.rs 3555-3583, 5297-5310).                                         *)
AgentIsCurrent ==
  (\A th \in Thread : job[th] = NoJob) /\ replies = <<>> /\ signedIn =>
    agent = Resolve(conf, tokens)
=============================================================================
