---------------------------- MODULE OneTimeToken ----------------------------
(***************************************************************************)
(* What the authorization store promises to the person who approved a      *)
(* physical execution: a token is published at most once, stays usable     *)
(* until it is used, is used at most once, and what is executed under it   *)
(* is exactly what was authorized.  AuthStore implements this.             *)
(***************************************************************************)
CONSTANTS Token, Auth, NoAuth

VARIABLES
  minted,      \* the authorization each token was created for
  published,   \* tokens whose record has reached the store
  live,        \* tokens that can still be used
  granted      \* what has been released for execution under each token

vars == <<minted, published, live, granted>>

Init ==
  /\ minted = [t \in Token |-> NoAuth]
  /\ published = {}
  /\ live = {}
  /\ granted = [t \in Token |-> NoAuth]

Mint(t) ==
  /\ minted[t] = NoAuth
  /\ minted'[t] \in Auth
  /\ minted' = [minted EXCEPT ![t] = minted'[t]]
  /\ UNCHANGED <<published, live, granted>>

Publish(t) ==
  /\ minted[t] # NoAuth
  /\ t \notin published
  /\ published' = published \cup {t}
  /\ live' = live \cup {t}
  /\ UNCHANGED <<minted, granted>>

Use(t) ==
  /\ t \in live
  /\ granted[t] = NoAuth
  /\ live' = live \ {t}
  /\ granted' = [granted EXCEPT ![t] = minted[t]]
  /\ UNCHANGED <<minted, published>>

Next ==
  \E t \in Token :
    \/ Mint(t)
    \/ Publish(t)
    \/ Use(t)

Spec == Init /\ [][Next]_vars
=============================================================================
