----------------------------- MODULE AuthStore ------------------------------
(***************************************************************************)
(* The one-time authorization store of internal/sequence: Store.put, peek  *)
(* and take over one JSON file, and the two calls built from them,         *)
(* Authorizer.Authorize and Authorizer.takeWithExpiry.                     *)
(*                                                                         *)
(* Every call is a worker's.  A worker locks the mutex of its own Store    *)
(* object; the file is shared by all of them.  Each kvmctl process makes a *)
(* new Store over the same path, so two Store objects are two processes    *)
(* and one Store object is the threads of one process.  A read, and the    *)
(* rename that ends a write, are single steps; everything between them is  *)
(* not.  A call that is refused before it touches the store (no approval,  *)
(* a cancelled context, a TTL out of range) changes nothing and is left    *)
(* out.                                                                    *)
(***************************************************************************)
EXTENDS Integers, FiniteSets

CONSTANTS
  Worker,      \* threads of control, each inside at most one call
  Store,       \* Store objects
  StoreOf,     \* the Store object a worker calls
  Token,       \* random tokens, in the order of 2^256: never drawn twice
  Target,      \* target identities
  Plan,        \* plans, valid or not
  PlanTarget,  \* a plan's Target field
  PlanHash,    \* Plan.Hash: InvalidPlan when validate refuses the plan
  InvalidPlan, \* the result of hashing a plan that does not validate
  TTLs,        \* lifetimes asked for
  MaxTTL,      \* the longest lifetime allowed, 30s in the code
  MaxTime,     \* bound: the clock stops here
  MaxUses,     \* bound: no call is made with a token used this often
  NoWorker, NoAuth, NoRequest

ASSUME StoresAssumption == StoreOf \in [Worker -> Store]
ASSUME PlansAssumption ==
  /\ PlanTarget \in [Plan -> Target]
  /\ DOMAIN PlanHash = Plan
ASSUME TimesAssumption ==
  /\ TTLs \subseteq Int
  /\ MaxTTL \in Nat
  /\ MaxTime \in Nat
  /\ MaxUses \in Nat
ASSUME NoWorkerAssumption == NoWorker \notin Worker

\* The record the store keeps for a token.
Auth == [target : Target, plan : Plan, expires : Int]
ASSUME NoAuthAssumption == NoAuth \notin Auth

AuthOrNone == Auth \cup {NoAuth}
Contents == [Token -> AuthOrNone]
Empty == [t \in Token |-> NoAuth]

VARIABLES
  file,        \* what the authorization file holds
  mutex,       \* Store.mu of each Store object: who holds it
  pc,          \* where each worker is
  request,     \* the arguments of the call a worker is in
  auth,        \* the record a worker is storing, or has peeked
  view,        \* the map a worker has read under the mutex
  now,         \* the clock
  minted,      \* history: the authorization each token was drawn for
  published,   \* history: tokens whose record has been written
  uses,        \* history: how often each token has been taken
  granted      \* history: what each token was taken for

local == <<pc, request, auth, view>>
history == <<minted, published, uses, granted>>
vars == <<file, mutex, local, now, history>>

Request == [token : Token, target : Target, plan : Plan]
Label == {"idle", "putRead", "putWrite", "peek", "check", "takeRead", "takeWrite"}

TypeOK ==
  /\ file \in Contents
  /\ mutex \in [Store -> Worker \cup {NoWorker}]
  /\ pc \in [Worker -> Label]
  /\ request \in [Worker -> Request \cup {NoRequest}]
  /\ \A w \in Worker : pc[w] # "idle" => request[w] \in Request
  /\ auth \in [Worker -> AuthOrNone]
  /\ view \in [Worker -> Contents]
  /\ now \in Nat
  /\ minted \in Contents
  /\ published \in SUBSET Token
  /\ uses \in [Token -> Nat]
  /\ granted \in Contents

Init ==
  /\ file = Empty
  /\ mutex = [s \in Store |-> NoWorker]
  /\ pc = [w \in Worker |-> "idle"]
  /\ request = [w \in Worker |-> NoRequest]
  /\ auth = [w \in Worker |-> NoAuth]
  /\ view = [w \in Worker |-> Empty]
  /\ now = 0
  /\ minted = Empty
  /\ published = {}
  /\ uses = [t \in Token |-> 0]
  /\ granted = Empty

-----------------------------------------------------------------------------
(* The mutex of a worker's Store object. *)

NoMutex(w) == TRUE
MutexFree(w) == mutex[StoreOf[w]] = NoWorker

Lock(w) == mutex' = [mutex EXCEPT ![StoreOf[w]] = w]
Unlock(w) == mutex' = [mutex EXCEPT ![StoreOf[w]] = NoWorker]

(* A call begins, and a call returns and forgets its locals. *)
Call(w, label, r, a) ==
  /\ pc[w] = "idle"
  /\ pc' = [pc EXCEPT ![w] = label]
  /\ request' = [request EXCEPT ![w] = r]
  /\ auth' = [auth EXCEPT ![w] = a]
  /\ UNCHANGED view

Return(w) ==
  /\ pc' = [pc EXCEPT ![w] = "idle"]
  /\ request' = [request EXCEPT ![w] = NoRequest]
  /\ auth' = [auth EXCEPT ![w] = NoAuth]
  /\ view' = [view EXCEPT ![w] = Empty]

(* Lock, then read the whole file: the map the write will start from. *)
ReadUnderLock(w, label) ==
  /\ MutexFree(w)
  /\ Lock(w)
  /\ view' = [view EXCEPT ![w] = file]
  /\ pc' = [pc EXCEPT ![w] = label]
  /\ UNCHANGED <<file, request, auth, now, history>>

(* Any locked read can fail, and so can any write before its rename: the   *)
(* call returns the error, the file is as it was.                          *)
StoreFailsLocked(w) ==
  /\ pc[w] \in {"putWrite", "takeWrite"}
  /\ Return(w)
  /\ UNCHANGED <<file, mutex, now, history>>
StoreFails(w) ==
  \/ /\ pc[w] \in {"putRead", "peek", "takeRead"}
     /\ MutexFree(w)
     /\ Return(w)
     /\ UNCHANGED <<file, mutex, now, history>>
  \/ /\ pc[w] \in {"putWrite", "takeWrite"}
     /\ Unlock(w)
     /\ Return(w)
     /\ UNCHANGED <<file, now, history>>

-----------------------------------------------------------------------------
(* Authorizer.Authorize: check the arguments, draw a token, put a record.  *)

MintedWithoutPlan(p, tg, ttl) == [target |-> tg, expires |-> now + ttl]
MintedFor(p, tg, ttl) == [target |-> tg, plan |-> p, expires |-> now + ttl]

AuthorizeChecksAnyTarget(p, tg, ttl) ==
  /\ ttl > 0 /\ ttl <= MaxTTL
  /\ PlanHash[p] # InvalidPlan
AuthorizeChecks(p, tg, ttl) ==
  /\ tg = PlanTarget[p]
  /\ ttl > 0 /\ ttl <= MaxTTL
  /\ PlanHash[p] # InvalidPlan

Authorize(w, t, p, tg, ttl) ==
  /\ AuthorizeChecks(p, tg, ttl)
  /\ minted[t] = NoAuth
  /\ minted' = [minted EXCEPT ![t] = MintedFor(p, tg, ttl)]
  /\ Call(w, "putRead", [token |-> t, target |-> tg, plan |-> p], MintedFor(p, tg, ttl))
  /\ UNCHANGED <<file, mutex, now, published, uses, granted>>

PutRead(w) == pc[w] = "putRead" /\ ReadUnderLock(w, "putWrite")

PutWrite(w) ==
  LET t == request[w].token IN
  /\ pc[w] = "putWrite"
  /\ file' = [view[w] EXCEPT ![t] = auth[w]]
  /\ published' = published \cup {t}
  /\ Unlock(w)
  /\ Return(w)
  /\ UNCHANGED <<now, minted, uses, granted>>

-----------------------------------------------------------------------------
(* Authorizer.takeWithExpiry (and Take, which differs only in what it      *)
(* returns): peek, check the binding, take, return what was peeked.        *)

BeginTake(w, r) ==
  /\ uses[r.token] < MaxUses
  /\ Call(w, "peek", r, NoAuth)
  /\ UNCHANGED <<file, mutex, now, history>>

Peek(w) ==
  LET found == file[request[w].token] IN
  /\ pc[w] = "peek"
  /\ MutexFree(w)
  /\ IF found = NoAuth
     THEN Return(w)
     ELSE /\ auth' = [auth EXCEPT ![w] = found]
          /\ pc' = [pc EXCEPT ![w] = "check"]
          /\ UNCHANGED <<request, view>>
  /\ UNCHANGED <<file, mutex, now, history>>

(* The request names the authorized target and a plan of the same hash. *)
Matches(r, a) ==
  /\ a.target = r.target
  /\ PlanTarget[a.plan] = r.target
  /\ PlanHash[r.plan] = PlanHash[a.plan]

Unexpired(a) == now < a.expires

CheckExpiryOnly(w) ==
  /\ pc[w] = "check"
  /\ IF Unexpired(auth[w])
     THEN /\ pc' = [pc EXCEPT ![w] = "takeRead"]
          /\ UNCHANGED <<request, auth, view>>
     ELSE Return(w)
  /\ UNCHANGED <<file, mutex, now, history>>
Check(w) ==
  /\ pc[w] = "check"
  /\ IF Matches(request[w], auth[w]) /\ Unexpired(auth[w])
     THEN /\ pc' = [pc EXCEPT ![w] = "takeRead"]
          /\ UNCHANGED <<request, auth, view>>
     ELSE Return(w)
  /\ UNCHANGED <<file, mutex, now, history>>

TakeRead(w) ==
  /\ pc[w] = "takeRead"
  /\ \/ /\ file[request[w].token] # NoAuth
        /\ ReadUnderLock(w, "takeWrite")
     \/ /\ file[request[w].token] = NoAuth
        /\ MutexFree(w)
        /\ Return(w)
        /\ UNCHANGED <<file, mutex, now, history>>

GrantRequestedPlan(w) ==
  LET t == request[w].token IN
  /\ uses' = [uses EXCEPT ![t] = @ + 1]
  /\ granted' = [granted EXCEPT ![t] = [auth[w] EXCEPT !.plan = request[w].plan]]
Grant(w) ==
  LET t == request[w].token IN
  /\ uses' = [uses EXCEPT ![t] = @ + 1]
  /\ granted' = [granted EXCEPT ![t] = auth[w]]

TakeWriteKeepingRecord(w) ==
  /\ pc[w] = "takeWrite"
  /\ file' = view[w]
  /\ Grant(w)
  /\ Unlock(w)
  /\ Return(w)
  /\ UNCHANGED <<now, minted, published>>
TakeWrite(w) ==
  /\ pc[w] = "takeWrite"
  /\ file' = [view[w] EXCEPT ![request[w].token] = NoAuth]
  /\ Grant(w)
  /\ Unlock(w)
  /\ Return(w)
  /\ UNCHANGED <<now, minted, published>>

-----------------------------------------------------------------------------

(* A process dies: its calls end where they are and its mutex dies with it. *)
Crash(s) ==
  LET mine == {w \in Worker : StoreOf[w] = s} IN
  /\ \E w \in mine : pc[w] # "idle"
  /\ mutex' = [mutex EXCEPT ![s] = NoWorker]
  /\ pc' = [w \in Worker |-> IF w \in mine THEN "idle" ELSE pc[w]]
  /\ request' = [w \in Worker |-> IF w \in mine THEN NoRequest ELSE request[w]]
  /\ auth' = [w \in Worker |-> IF w \in mine THEN NoAuth ELSE auth[w]]
  /\ view' = [w \in Worker |-> IF w \in mine THEN Empty ELSE view[w]]
  /\ UNCHANGED <<file, now, history>>

Tick ==
  /\ now < MaxTime
  /\ now' = now + 1
  /\ UNCHANGED <<file, mutex, local, history>>

Step(w) ==
  \/ PutRead(w)
  \/ PutWrite(w)
  \/ Peek(w)
  \/ Check(w)
  \/ TakeRead(w)
  \/ TakeWrite(w)
  \/ StoreFails(w)

Next ==
  \/ \E w \in Worker :
       \/ \E t \in Token, p \in Plan, tg \in Target, ttl \in TTLs :
            Authorize(w, t, p, tg, ttl)
       \/ \E r \in Request : BeginTake(w, r)
       \/ Step(w)
  \/ \E s \in Store : Crash(s)
  \/ Tick

Spec == Init /\ [][Next]_vars

(* A goroutine that can run is run; sync.Mutex hands itself over in turn   *)
(* to those that wait for it, so no waiter is passed over for ever.        *)
Fairness == \A w \in Worker : SF_vars(Step(w))

FairSpec == Spec /\ Fairness

-----------------------------------------------------------------------------
(* Properties of every instance. *)

(* What is handed to the executor under a token is the very record that    *)
(* was drawn for it, whatever else runs: ExecuteAuthorized runs auth.Plan  *)
(* until auth.ExpiresAt, never the caller's copy.                          *)
GrantIsAuthorized == \A t \in Token : granted[t] \in {NoAuth, minted[t]}

(* An authorization names its plan's own target and lives at most MaxTTL   *)
(* past the moment it was asked for; nothing on disk ever grants more.     *)
StoredIsBounded ==
  \A t \in Token : file[t] # NoAuth =>
    /\ file[t] = minted[t]
    /\ file[t].target = PlanTarget[file[t].plan]
    /\ file[t].expires <= now + MaxTTL

(* Every call returns, through every refusal and I/O error: no path leaves *)
(* the mutex locked behind it.                                             *)
EveryCallReturns == \A w \in Worker : pc[w] # "idle" ~> pc[w] = "idle"

(* Properties of the threads of one process, who share one Store object:   *)
(* for two processes they are false, see the run two_processes_one_token.  *)

OneProcess == \A u, v \in Worker : StoreOf[u] = StoreOf[v]

(* "authorized once, and then executed only against the resolved target":  *)
(* however the calls that present a token interleave, one of them gets it. *)
UsedAtMostOnce == \A t \in Token : uses[t] <= 1

(* A token whose authorization was stored can be used until it is: no      *)
(* other call's rewrite of the file drops it, and no crash does.           *)
NothingLost ==
  \A t \in published : uses[t] = 0 => file[t] # NoAuth

(* "consumes token only after all binding and context checks pass": a      *)
(* token leaves the file only for a request that matches its record, so a  *)
(* call with the wrong target or plan costs the approved one nothing.      *)
OnlyMatchingConsumes ==
  [][\A t \in Token :
       file[t] # NoAuth /\ file'[t] = NoAuth =>
         \E w \in Worker : /\ pc[w] = "takeWrite"
                           /\ request[w].token = t
                           /\ Matches(request[w], file[t])]_vars

(* The whole promise: the store implements OneTimeToken.                   *)
Promise == INSTANCE OneTimeToken WITH
  live <- {t \in Token : file[t] # NoAuth}
ImplementsOneTimeToken == Promise!Spec
=============================================================================
