-------------------------- MODULE AuthStoreProofs ---------------------------
(***************************************************************************)
(* What AuthStore satisfies for every number of workers, tokens and plans. *)
(* The invariant has two parts.  Recorded holds of any number of processes *)
(* and says that every copy of a record is the record that was minted.     *)
(* Serialized holds of the threads of one process: a worker that is about  *)
(* to write holds the mutex, so the map it read is still the file, and the *)
(* file holds exactly the tokens that were published and not yet used.     *)
(***************************************************************************)
EXTENDS AuthStore, TLAPS

RecordedAt(w) ==
  /\ \A t \in Token : view[w][t] \in {NoAuth, minted[t]}
  /\ pc[w] \notin {"idle", "peek"} =>
       /\ auth[w] # NoAuth
       /\ auth[w] = minted[request[w].token]

Recorded ==
  /\ \A t \in Token :
       /\ file[t] \in {NoAuth, minted[t]}
       /\ granted[t] \in {NoAuth, minted[t]}
       /\ minted[t] # NoAuth =>
            /\ minted[t].target = PlanTarget[minted[t].plan]
            /\ minted[t].expires <= now + MaxTTL
  /\ \A w \in Worker : RecordedAt(w)

Writing == {"putWrite", "takeWrite"}
Putting == {"putRead", "putWrite"}

FileIsExact ==
  \A t \in Token :
    /\ file[t] # NoAuth <=> t \in published /\ uses[t] = 0
    /\ t \in published => minted[t] # NoAuth
    /\ uses[t] \in {0, 1}
    /\ uses[t] = 0 <=> granted[t] = NoAuth
    /\ uses[t] = 1 => t \in published

SerializedAt(w) ==
  /\ pc[w] \in Writing => mutex[StoreOf[w]] = w /\ view[w] = file
  /\ pc[w] \in Putting => request[w].token \notin published
  /\ pc[w] = "takeWrite" => file[request[w].token] # NoAuth
  /\ pc[w] \in {"takeRead", "takeWrite"} => Matches(request[w], auth[w])

PutsDiffer ==
  \A u, v \in Worker :
    /\ pc[u] \in Putting /\ pc[v] \in Putting
    /\ request[u].token = request[v].token
    => u = v

Serialized ==
  /\ FileIsExact
  /\ \A w \in Worker : SerializedAt(w)
  /\ PutsDiffer

USE StoresAssumption, PlansAssumption, TimesAssumption, NoWorkerAssumption,
    NoAuthAssumption

-----------------------------------------------------------------------------
(* Types. *)

(* A minted record is an authorization. *)
LEMMA MintedForType ==
  ASSUME TypeOK, NEW p \in Plan, NEW tg \in Target, NEW ttl \in TTLs
  PROVE  MintedFor(p, tg, ttl) \in Auth
BY DEF TypeOK, MintedFor, Auth

(* Returning from a call leaves the locals of every worker well typed. *)
LocalTypes ==
  /\ pc \in [Worker -> Label]
  /\ request \in [Worker -> Request \cup {NoRequest}]
  /\ \A w \in Worker : pc[w] # "idle" => request[w] \in Request
  /\ auth \in [Worker -> AuthOrNone]
  /\ view \in [Worker -> Contents]

(* A call that returns leaves its locals well typed. *)
LEMMA ReturnTypes ==
  ASSUME LocalTypes, NEW w \in Worker, Return(w)
  PROVE  LocalTypes'
BY DEF LocalTypes, Return, AuthOrNone, Contents, Empty, Label

(* No step of any worker, process or clock leaves the types. *)
LEMMA TypeStep == TypeOK /\ [Next]_vars => TypeOK'
<1> SUFFICES ASSUME TypeOK, [Next]_vars PROVE TypeOK'
  OBVIOUS
<1> USE DEF TypeOK, Contents, AuthOrNone, Empty, Label, Request
<1>1. ASSUME NEW w \in Worker, NEW t \in Token, NEW p \in Plan,
             NEW tg \in Target, NEW ttl \in TTLs, Authorize(w, t, p, tg, ttl)
      PROVE  TypeOK'
  <2>1. MintedFor(p, tg, ttl) \in Auth
    BY MintedForType
  <2> QED
    BY <1>1, <2>1 DEF Authorize, Call
<1>2. ASSUME NEW w \in Worker, NEW r \in Request, BeginTake(w, r)
      PROVE  TypeOK'
  BY <1>2 DEF BeginTake, Call, history
<1>3. ASSUME NEW w \in Worker, Step(w) PROVE TypeOK'
  <2>0. LocalTypes
    BY DEF LocalTypes
  <2>1. CASE PutRead(w)
    BY <2>1 DEF PutRead, ReadUnderLock, Lock, history
  <2>2. CASE PutWrite(w)
    <3>1. request[w].token \in Token
      BY <2>2 DEF PutWrite
    <3>2. LocalTypes'
      BY <2>0, <2>2, ReturnTypes DEF PutWrite
    <3> QED
      BY <2>2, <3>1, <3>2 DEF PutWrite, Unlock, LocalTypes
  <2>3. CASE Peek(w)
    <3>1. file[request[w].token] \in AuthOrNone
      BY <2>3 DEF Peek
    <3>2. CASE Return(w)
      <4>1. LocalTypes'
        BY <2>0, <3>2, ReturnTypes
      <4> QED
        BY <2>3, <4>1, <3>2 DEF Peek, LocalTypes, history, Return
    <3>3. CASE /\ auth' = [auth EXCEPT ![w] = file[request[w].token]]
               /\ pc' = [pc EXCEPT ![w] = "check"]
               /\ UNCHANGED <<request, view>>
      BY <2>3, <3>1, <3>3 DEF Peek, history
    <3> QED
      BY <2>3, <3>2, <3>3 DEF Peek
  <2>4. CASE Check(w)
    <3>1. CASE Return(w)
      <4>1. LocalTypes'
        BY <2>0, <3>1, ReturnTypes
      <4> QED
        BY <2>4, <4>1 DEF Check, LocalTypes, history
    <3>2. CASE /\ pc' = [pc EXCEPT ![w] = "takeRead"]
               /\ UNCHANGED <<request, auth, view>>
      BY <2>4, <3>2 DEF Check, history
    <3> QED
      BY <2>4, <3>1, <3>2 DEF Check
  <2>5. CASE TakeRead(w)
    <3>1. CASE ReadUnderLock(w, "takeWrite")
      BY <2>5, <3>1 DEF TakeRead, ReadUnderLock, Lock, history
    <3>2. CASE Return(w) /\ UNCHANGED <<file, mutex, now, history>>
      <4>1. LocalTypes'
        BY <2>0, <3>2, ReturnTypes
      <4> QED
        BY <3>2, <4>1 DEF LocalTypes, history
    <3> QED
      BY <2>5, <3>1, <3>2 DEF TakeRead
  <2>6. CASE TakeWrite(w)
    <3>1. request[w].token \in Token
      BY <2>6 DEF TakeWrite
    <3>2. LocalTypes'
      BY <2>0, <2>6, ReturnTypes DEF TakeWrite
    <3> QED
      BY <2>6, <3>1, <3>2 DEF TakeWrite, Grant, Unlock, LocalTypes
  <2>7. CASE StoreFails(w)
    <3>1. LocalTypes'
      BY <2>0, <2>7, ReturnTypes DEF StoreFails
    <3> QED
      BY <2>7, <3>1 DEF StoreFails, Unlock, LocalTypes, history
  <2> QED
    BY <1>3, <2>1, <2>2, <2>3, <2>4, <2>5, <2>6, <2>7 DEF Step
<1>4. ASSUME NEW s \in Store, Crash(s) PROVE TypeOK'
  BY <1>4 DEF Crash, history
<1>5. CASE Tick
  BY <1>5 DEF Tick, local, history
<1>6. CASE UNCHANGED vars
  BY <1>6 DEF vars, local, history
<1> QED
  BY <1>1, <1>2, <1>3, <1>4, <1>5, <1>6 DEF Next

(* Every reachable state is well typed. *)
THEOREM TypeCorrect == Spec => []TypeOK
<1>1. Init => TypeOK
  BY DEF Init, TypeOK, Contents, AuthOrNone, Empty, Label
<1> QED
  BY <1>1, TypeStep, PTL DEF Spec

-----------------------------------------------------------------------------
(* What is granted is what was authorized, in any number of processes. *)

(* A call that returns leaves no copy behind. *)
LEMMA RecordedReturn ==
  ASSUME TypeOK, Recorded, NEW w \in Worker, Return(w), minted' = minted
  PROVE  \A v \in Worker : RecordedAt(v)'
BY DEF TypeOK, Recorded, RecordedAt, Return, Empty, Contents

(* Every step keeps every copy of a record equal to the minted one. *)
LEMMA RecordedStep == TypeOK /\ Recorded /\ [Next]_vars => Recorded'
<1> SUFFICES ASSUME TypeOK, Recorded, [Next]_vars PROVE Recorded'
  OBVIOUS
<1> USE DEF TypeOK, Contents, AuthOrNone, Empty, Label, Request, Recorded, RecordedAt
<1>1. ASSUME NEW w \in Worker, NEW t \in Token, NEW p \in Plan,
             NEW tg \in Target, NEW ttl \in TTLs, Authorize(w, t, p, tg, ttl)
      PROVE  Recorded'
  <2> DEFINE a == MintedFor(p, tg, ttl)
  <2>1. a \in Auth /\ a # NoAuth
    BY MintedForType
  <2>2. a.target = PlanTarget[a.plan] /\ a.expires <= now + MaxTTL
    BY <1>1 DEF Authorize, AuthorizeChecks, MintedFor
  <2>3. /\ minted' = [minted EXCEPT ![t] = a]
        /\ minted[t] = NoAuth
        /\ UNCHANGED <<file, view, now, granted>>
        /\ pc[w] = "idle"
        /\ pc' = [pc EXCEPT ![w] = "putRead"]
        /\ auth' = [auth EXCEPT ![w] = a]
        /\ request' = [request EXCEPT ![w] = [token |-> t, target |-> tg, plan |-> p]]
    BY <1>1 DEF Authorize, Call
  <2> HIDE DEF a
  <2>4. \A u \in Token :
          /\ file'[u] \in {NoAuth, minted'[u]}
          /\ granted'[u] \in {NoAuth, minted'[u]}
          /\ minted'[u] # NoAuth =>
               /\ minted'[u].target = PlanTarget[minted'[u].plan]
               /\ minted'[u].expires <= now' + MaxTTL
    BY <2>1, <2>2, <2>3
  <2>5. \A v \in Worker : \A u \in Token : view'[v][u] \in {NoAuth, minted'[u]}
    BY <2>3
  <2>6. ASSUME NEW v \in Worker, pc'[v] \notin {"idle", "peek"}
        PROVE  auth'[v] # NoAuth /\ auth'[v] = minted'[request'[v].token]
    BY <2>1, <2>3, <2>6
  <2> QED
    BY <2>4, <2>5, <2>6
<1>2. ASSUME NEW w \in Worker, NEW r \in Request, BeginTake(w, r)
      PROVE  Recorded'
  BY <1>2 DEF BeginTake, Call, history
<1>3. ASSUME NEW w \in Worker, Step(w) PROVE Recorded'
  <2>1. CASE PutRead(w)
    BY <2>1 DEF PutRead, ReadUnderLock, history
  <2>2. CASE PutWrite(w)
    <3>1. /\ request[w].token \in Token
          /\ auth[w] = minted[request[w].token]
          /\ file' = [view[w] EXCEPT ![request[w].token] = auth[w]]
          /\ UNCHANGED <<now, minted, granted>>
      BY <2>2 DEF PutWrite
    <3>2. \A t \in Token : file'[t] \in {NoAuth, minted[t]}
      BY <3>1
    <3>3. \A v \in Worker : RecordedAt(v)'
      BY <2>2, <3>1, RecordedReturn DEF PutWrite
    <3> QED
      BY <3>1, <3>2, <3>3
  <2>3. CASE Peek(w)
    <3>1. CASE Return(w)
      <4>1. \A v \in Worker : RecordedAt(v)'
        BY <2>3, <3>1, RecordedReturn DEF Peek, history
      <4> QED
        BY <2>3, <4>1 DEF Peek, history
    <3>2. CASE /\ file[request[w].token] # NoAuth
               /\ auth' = [auth EXCEPT ![w] = file[request[w].token]]
               /\ pc' = [pc EXCEPT ![w] = "check"]
               /\ UNCHANGED <<request, view>>
      BY <2>3, <3>2 DEF Peek, history
    <3> QED
      BY <2>3, <3>1, <3>2 DEF Peek
  <2>4. CASE Check(w)
    <3>1. CASE Return(w)
      <4>1. \A v \in Worker : RecordedAt(v)'
        BY <2>4, <3>1, RecordedReturn DEF Check, history
      <4> QED
        BY <2>4, <4>1 DEF Check, history
    <3>2. CASE /\ pc' = [pc EXCEPT ![w] = "takeRead"]
               /\ UNCHANGED <<request, auth, view>>
      BY <2>4, <3>2 DEF Check, history
    <3> QED
      BY <2>4, <3>1, <3>2 DEF Check
  <2>5. CASE TakeRead(w)
    <3>1. CASE ReadUnderLock(w, "takeWrite")
      BY <2>5, <3>1 DEF TakeRead, ReadUnderLock, history
    <3>2. CASE Return(w) /\ UNCHANGED <<file, mutex, now, history>>
      <4>1. \A v \in Worker : RecordedAt(v)'
        BY <3>2, RecordedReturn DEF history
      <4> QED
        BY <3>2, <4>1 DEF history
    <3> QED
      BY <2>5, <3>1, <3>2 DEF TakeRead
  <2>6. CASE TakeWrite(w)
    <3>1. /\ request[w].token \in Token
          /\ auth[w] = minted[request[w].token]
          /\ file' = [view[w] EXCEPT ![request[w].token] = NoAuth]
          /\ granted' = [granted EXCEPT ![request[w].token] = auth[w]]
          /\ UNCHANGED <<now, minted>>
      BY <2>6 DEF TakeWrite, Grant
    <3>2. \A t \in Token : file'[t] \in {NoAuth, minted[t]}
      BY <3>1
    <3>3. \A v \in Worker : RecordedAt(v)'
      BY <2>6, <3>1, RecordedReturn DEF TakeWrite
    <3> QED
      BY <3>1, <3>2, <3>3
  <2>7. CASE StoreFails(w)
    <3>1. \A v \in Worker : RecordedAt(v)'
      BY <2>7, RecordedReturn DEF StoreFails, history
    <3> QED
      BY <2>7, <3>1 DEF StoreFails, history
  <2> QED
    BY <1>3, <2>1, <2>2, <2>3, <2>4, <2>5, <2>6, <2>7 DEF Step
<1>4. ASSUME NEW s \in Store, Crash(s) PROVE Recorded'
  <2>1. UNCHANGED <<file, now, minted, granted>>
    BY <1>4 DEF Crash, history
  <2>2. ASSUME NEW v \in Worker PROVE RecordedAt(v)'
    <3>1. CASE StoreOf[v] = s
      BY <1>4, <2>1, <3>1 DEF Crash
    <3>2. CASE StoreOf[v] # s
      BY <1>4, <2>1, <3>2 DEF Crash
    <3> QED
      BY <3>1, <3>2
  <2> QED
    BY <2>1, <2>2
<1>5. CASE Tick
  <2>1. now' = now + 1 /\ UNCHANGED <<file, local, history>>
    BY <1>5 DEF Tick
  <2>2. \A t \in Token : minted[t] # NoAuth => minted[t].expires \in Int
    BY DEF Auth
  <2>3. \A t \in Token : minted[t] # NoAuth => minted[t].expires <= now' + MaxTTL
    BY <2>1, <2>2
  <2> QED
    BY <2>1, <2>3 DEF local, history
<1>6. CASE UNCHANGED vars
  BY <1>6 DEF vars, local, history
<1> QED
  BY <1>1, <1>2, <1>3, <1>4, <1>5, <1>6 DEF Next

(* Every reachable state is well typed and its copies are the minted ones. *)
LEMMA RecordedAlways == Spec => [](TypeOK /\ Recorded)
<1>1. Init => TypeOK /\ Recorded
  BY DEF Init, TypeOK, Recorded, RecordedAt, Contents, AuthOrNone, Empty, Label
<1> QED
  BY <1>1, TypeStep, RecordedStep, PTL DEF Spec

(* In any number of processes, what is handed to the executor under a      *)
(* token is the record that was drawn for it.                              *)
THEOREM GrantsAreAuthorized == Spec => []GrantIsAuthorized
<1>1. Recorded => GrantIsAuthorized
  BY DEF Recorded, GrantIsAuthorized
<1> QED
  BY <1>1, RecordedAlways, PTL

(* In any number of processes, what is stored for a token is bounded: its  *)
(* plan's own target, and no more than MaxTTL to live.                     *)
THEOREM StoreIsBounded == Spec => []StoredIsBounded
<1>1. TypeOK /\ Recorded => StoredIsBounded
  BY DEF TypeOK, Recorded, StoredIsBounded, Contents
<1> QED
  BY <1>1, RecordedAlways, PTL

-----------------------------------------------------------------------------
(* The threads of one process. *)

(* While the mutex is free nobody is about to write. *)
LEMMA FreeMeansNoWriter ==
  ASSUME TypeOK, Serialized, OneProcess, NEW w \in Worker, MutexFree(w)
  PROVE  \A v \in Worker : pc[v] \notin Writing
BY DEF TypeOK, Serialized, SerializedAt, OneProcess, MutexFree

(* While a worker is about to write no other one is. *)
LEMMA OneWriter ==
  ASSUME TypeOK, Serialized, OneProcess, NEW w \in Worker, pc[w] \in Writing
  PROVE  \A v \in Worker \ {w} : pc[v] \notin Writing
BY DEF TypeOK, Serialized, SerializedAt, OneProcess

(* A call that returns without having written disturbs no other call.      *)
LEMMA QuietReturn ==
  ASSUME TypeOK, Serialized, NEW w \in Worker, Return(w),
         UNCHANGED <<file, mutex, published>>
  PROVE  /\ \A v \in Worker : SerializedAt(v)'
         /\ PutsDiffer'
<1>1. ASSUME NEW v \in Worker PROVE SerializedAt(v)'
  BY DEF TypeOK, Serialized, SerializedAt, Return, Writing, Putting, Matches
<1>2. PutsDiffer'
  BY DEF TypeOK, Serialized, PutsDiffer, Return, Putting
<1> QED
  BY <1>1, <1>2

(* Nor does the one writer's return: no other call has a view of the file, *)
(* and no other call is putting the token it may have published.           *)
LEMMA WriterReturn ==
  ASSUME TypeOK, Serialized, OneProcess, NEW w \in Worker, pc[w] \in Writing,
         Return(w),
         \/ published' = published
         \/ pc[w] = "putWrite" /\ published' = published \cup {request[w].token}
  PROVE  /\ \A v \in Worker : SerializedAt(v)'
         /\ PutsDiffer'
<1>1. ASSUME NEW v \in Worker PROVE SerializedAt(v)'
  <2>1. CASE v = w
    BY <2>1 DEF TypeOK, SerializedAt, Return, Writing, Putting
  <2>2. CASE v # w
    <3>1. pc'[v] = pc[v] /\ request'[v] = request[v] /\ auth'[v] = auth[v]
      BY <2>2 DEF TypeOK, Return
    <3>2. pc[v] \notin Writing
      BY <2>2, OneWriter
    <3>3. pc[v] \in Putting => request[v].token \notin published'
      BY <2>2 DEF Serialized, SerializedAt, PutsDiffer, Putting
    <3>4. pc[v] = "takeRead" => Matches(request[v], auth[v])
      BY DEF Serialized, SerializedAt
    <3> QED
      BY <3>1, <3>2, <3>3, <3>4 DEF SerializedAt, Writing, Matches
  <2> QED
    BY <2>1, <2>2
<1>2. PutsDiffer'
  BY DEF TypeOK, Serialized, PutsDiffer, Return, Putting
<1> QED
  BY <1>1, <1>2

(* A worker that reads under the mutex reads the file it will write.       *)
LEMMA LockedRead ==
  ASSUME TypeOK, Serialized, OneProcess, NEW w \in Worker, NEW label,
         ReadUnderLock(w, label), pc[w] # "idle",
         \/ pc[w] = "putRead" /\ label = "putWrite"
         \/ /\ pc[w] = "takeRead" /\ label = "takeWrite"
            /\ file[request[w].token] # NoAuth
  PROVE  /\ \A v \in Worker : SerializedAt(v)'
         /\ PutsDiffer'
<1>0. /\ mutex' = [mutex EXCEPT ![StoreOf[w]] = w]
      /\ view' = [view EXCEPT ![w] = file]
      /\ pc' = [pc EXCEPT ![w] = label]
      /\ UNCHANGED <<file, request, auth, published>>
  BY DEF ReadUnderLock, Lock, history
<1>1. ASSUME NEW v \in Worker PROVE SerializedAt(v)'
  <2>1. CASE v = w
    BY <1>0, <2>1 DEF TypeOK, Serialized, SerializedAt, Writing, Putting, Matches
  <2>2. CASE v # w
    <3>1. pc[v] \notin Writing
      BY FreeMeansNoWriter DEF ReadUnderLock
    <3> QED
      BY <1>0, <2>2, <3>1 DEF TypeOK, Serialized, SerializedAt, Writing, Putting, Matches
  <2> QED
    BY <2>1, <2>2
<1>2. PutsDiffer'
  BY <1>0 DEF TypeOK, Serialized, PutsDiffer, Putting
<1> QED
  BY <1>1, <1>2

(* Every step of the threads of one process keeps them serialized.         *)
LEMMA SerializedStep ==
  ASSUME OneProcess
  PROVE  TypeOK /\ Recorded /\ Serialized /\ [Next]_vars => Serialized'
<1> SUFFICES ASSUME TypeOK, Recorded, Serialized, [Next]_vars
             PROVE  Serialized'
  OBVIOUS
<1>0. ASSUME UNCHANGED <<file, minted, published, uses, granted>>
      PROVE  FileIsExact'
  BY <1>0 DEF Serialized, FileIsExact
<1>1. ASSUME NEW w \in Worker, NEW t \in Token, NEW p \in Plan,
             NEW tg \in Target, NEW ttl \in TTLs, Authorize(w, t, p, tg, ttl)
      PROVE  Serialized'
  <2> DEFINE a == MintedFor(p, tg, ttl)
             r == [token |-> t, target |-> tg, plan |-> p]
  <2>1. /\ minted' = [minted EXCEPT ![t] = a]
        /\ minted[t] = NoAuth
        /\ UNCHANGED <<file, mutex, view, published, uses, granted>>
        /\ pc[w] = "idle"
        /\ pc' = [pc EXCEPT ![w] = "putRead"]
        /\ auth' = [auth EXCEPT ![w] = a]
        /\ request' = [request EXCEPT ![w] = r]
    BY <1>1 DEF Authorize, Call
  <2>2. r.token = t /\ a # NoAuth
    BY MintedForType
  <2> HIDE DEF a, r
  <2>3. t \notin published
    BY <2>1 DEF Serialized, FileIsExact
  <2>4. FileIsExact'
    BY <2>1, <2>2, <2>3 DEF TypeOK, Contents, Serialized, FileIsExact
  <2>5. ASSUME NEW v \in Worker PROVE SerializedAt(v)'
    BY <2>1, <2>2, <2>3 DEF TypeOK, Serialized, SerializedAt, Writing, Putting, Matches
  <2>6. ASSUME NEW v \in Worker, pc[v] \in Putting PROVE request[v].token # t
    BY <2>1, <2>6 DEF Recorded, RecordedAt, Putting
  <2>7. PutsDiffer'
    BY <2>1, <2>2, <2>6 DEF TypeOK, Serialized, PutsDiffer, Putting
  <2> QED
    BY <2>4, <2>5, <2>7 DEF Serialized
<1>2. ASSUME NEW w \in Worker, NEW r \in Request, BeginTake(w, r)
      PROVE  Serialized'
  <2>1. /\ pc[w] = "idle"
        /\ pc' = [pc EXCEPT ![w] = "peek"]
        /\ request' = [request EXCEPT ![w] = r]
        /\ auth' = [auth EXCEPT ![w] = NoAuth]
        /\ UNCHANGED <<file, mutex, view, minted, published, uses, granted>>
    BY <1>2 DEF BeginTake, Call, history
  <2>2. FileIsExact'
    BY <1>0, <2>1
  <2>3. ASSUME NEW v \in Worker PROVE SerializedAt(v)'
    BY <2>1 DEF TypeOK, Serialized, SerializedAt, Writing, Putting, Matches
  <2>4. PutsDiffer'
    BY <2>1 DEF TypeOK, Serialized, PutsDiffer, Putting
  <2> QED
    BY <2>2, <2>3, <2>4 DEF Serialized
<1>3. ASSUME NEW w \in Worker, Step(w) PROVE Serialized'
  <2>1. CASE PutRead(w)
    <3>1. FileIsExact'
      BY <1>0, <2>1 DEF PutRead, ReadUnderLock, history
    <3> QED
      BY <2>1, <3>1, LockedRead DEF PutRead, Serialized
  <2>2. CASE PutWrite(w)
    <3> DEFINE t == request[w].token
    <3>1. /\ t \in Token
          /\ t \notin published
          /\ view[w] = file
          /\ auth[w] # NoAuth
          /\ auth[w] = minted[t]
      BY <2>2 DEF PutWrite, TypeOK, Request, Recorded, RecordedAt, Serialized,
                  SerializedAt, Writing, Putting
    <3>2. /\ file' = [file EXCEPT ![t] = auth[w]]
          /\ published' = published \cup {t}
          /\ UNCHANGED <<minted, uses, granted>>
      BY <2>2, <3>1 DEF PutWrite
    <3> HIDE DEF t
    <3>3. FileIsExact'
      BY <3>1, <3>2 DEF TypeOK, Contents, Serialized, FileIsExact
    <3>4. (\A v \in Worker : SerializedAt(v)') /\ PutsDiffer'
      BY <2>2, WriterReturn DEF PutWrite, Writing
    <3> QED
      BY <3>3, <3>4 DEF Serialized
  <2>3. CASE Peek(w)
    <3>0. UNCHANGED <<file, mutex, minted, published, uses, granted>>
      BY <2>3 DEF Peek, history
    <3>1. FileIsExact'
      BY <1>0, <3>0
    <3>2. CASE Return(w)
      BY <3>0, <3>1, <3>2, QuietReturn DEF Serialized
    <3>3. CASE /\ auth' = [auth EXCEPT ![w] = file[request[w].token]]
               /\ pc' = [pc EXCEPT ![w] = "check"]
               /\ UNCHANGED <<request, view>>
      <4>1. ASSUME NEW v \in Worker PROVE SerializedAt(v)'
        BY <2>3, <3>0, <3>3 DEF Peek, TypeOK, Serialized, SerializedAt, Writing,
                                Putting, Matches
      <4>2. PutsDiffer'
        BY <3>3 DEF TypeOK, Serialized, PutsDiffer, Putting
      <4> QED
        BY <3>1, <4>1, <4>2 DEF Serialized
    <3> QED
      BY <2>3, <3>2, <3>3 DEF Peek
  <2>4. CASE Check(w)
    <3>0. UNCHANGED <<file, mutex, minted, published, uses, granted>>
      BY <2>4 DEF Check, history
    <3>1. FileIsExact'
      BY <1>0, <3>0
    <3>2. CASE Return(w)
      BY <3>0, <3>1, <3>2, QuietReturn DEF Serialized
    <3>3. CASE /\ Matches(request[w], auth[w])
               /\ pc' = [pc EXCEPT ![w] = "takeRead"]
               /\ UNCHANGED <<request, auth, view>>
      <4>1. ASSUME NEW v \in Worker PROVE SerializedAt(v)'
        BY <2>4, <3>0, <3>3 DEF Check, TypeOK, Serialized, SerializedAt, Writing,
                                Putting, Matches
      <4>2. PutsDiffer'
        BY <3>3 DEF TypeOK, Serialized, PutsDiffer, Putting
      <4> QED
        BY <3>1, <4>1, <4>2 DEF Serialized
    <3> QED
      BY <2>4, <3>2, <3>3 DEF Check
  <2>5. CASE TakeRead(w)
    <3>1. FileIsExact'
      BY <1>0, <2>5 DEF TakeRead, ReadUnderLock, history
    <3>2. CASE file[request[w].token] # NoAuth /\ ReadUnderLock(w, "takeWrite")
      BY <2>5, <3>1, <3>2, LockedRead DEF TakeRead, Serialized
    <3>3. CASE Return(w) /\ UNCHANGED <<file, mutex, now, history>>
      BY <3>1, <3>3, QuietReturn DEF Serialized, history
    <3> QED
      BY <2>5, <3>2, <3>3 DEF TakeRead
  <2>6. CASE TakeWrite(w)
    <3> DEFINE t == request[w].token
    <3>1. /\ t \in Token
          /\ file[t] # NoAuth
          /\ view[w] = file
          /\ auth[w] # NoAuth
      BY <2>6 DEF TakeWrite, TypeOK, Request, Recorded, RecordedAt, Serialized,
                  SerializedAt, Writing
    <3>2. /\ file' = [file EXCEPT ![t] = NoAuth]
          /\ uses' = [uses EXCEPT ![t] = @ + 1]
          /\ granted' = [granted EXCEPT ![t] = auth[w]]
          /\ UNCHANGED <<minted, published>>
      BY <2>6, <3>1 DEF TakeWrite, Grant
    <3> HIDE DEF t
    <3>3. FileIsExact'
      BY <3>1, <3>2 DEF TypeOK, Contents, Serialized, FileIsExact
    <3>4. (\A v \in Worker : SerializedAt(v)') /\ PutsDiffer'
      BY <2>6, WriterReturn DEF TakeWrite, Writing
    <3> QED
      BY <3>3, <3>4 DEF Serialized
  <2>7. CASE StoreFails(w)
    <3>1. FileIsExact'
      BY <1>0, <2>7 DEF StoreFails, history
    <3>2. CASE Return(w) /\ UNCHANGED <<file, mutex, now, history>>
      BY <3>1, <3>2, QuietReturn DEF Serialized, history
    <3>3. CASE pc[w] \in Writing /\ Return(w) /\ UNCHANGED <<file, now, history>>
      BY <3>1, <3>3, WriterReturn DEF Serialized, history
    <3> QED
      BY <2>7, <3>2, <3>3 DEF StoreFails, Writing
  <2> QED
    BY <1>3, <2>1, <2>2, <2>3, <2>4, <2>5, <2>6, <2>7 DEF Step
<1>4. ASSUME NEW s \in Store, Crash(s) PROVE Serialized'
  <2>1. UNCHANGED <<file, minted, published, uses, granted>>
    BY <1>4 DEF Crash, history
  <2>2. \A v \in Worker : pc'[v] = "idle"
    BY <1>4 DEF Crash, OneProcess
  <2> QED
    BY <1>0, <2>1, <2>2 DEF Serialized, SerializedAt, PutsDiffer, Writing, Putting
<1>5. CASE Tick
  BY <1>0, <1>5 DEF Tick, local, history, Serialized, SerializedAt, PutsDiffer, Matches
<1>6. CASE UNCHANGED vars
  BY <1>0, <1>6 DEF vars, local, history, Serialized, SerializedAt, PutsDiffer, Matches
<1> QED
  BY <1>1, <1>2, <1>3, <1>4, <1>5, <1>6 DEF Next

(* Among the threads of one process every reachable state is serialized.   *)
LEMMA SerializedAlways ==
  ASSUME OneProcess PROVE Spec => [](TypeOK /\ Recorded /\ Serialized)
<1>1. Init => TypeOK /\ Recorded
  BY DEF Init, TypeOK, Recorded, RecordedAt, Contents, AuthOrNone, Empty, Label
<1>2. Init => Serialized
  BY DEF Init, Serialized, FileIsExact, SerializedAt, PutsDiffer, Writing,
         Putting, Empty
<1> QED
  BY <1>1, <1>2, TypeStep, RecordedStep, SerializedStep, PTL DEF Spec

(* Among the threads of one process a token is used at most once.          *)
THEOREM OneTimeUse == ASSUME OneProcess PROVE Spec => []UsedAtMostOnce
<1>1. Serialized => UsedAtMostOnce
  BY DEF Serialized, FileIsExact, UsedAtMostOnce
<1> QED
  BY <1>1, SerializedAlways, PTL

(* Among the threads of one process no stored authorization is lost.       *)
THEOREM StoredTokensStay == ASSUME OneProcess PROVE Spec => []NothingLost
<1>1. TypeOK /\ Serialized => NothingLost
  BY DEF TypeOK, Serialized, FileIsExact, NothingLost
<1> QED
  BY <1>1, SerializedAlways, PTL

(* Among the threads of one process a token leaves the file only for a     *)
(* request that names its target and a plan of its hash.                   *)
THEOREM MismatchBurnsNothing ==
  ASSUME OneProcess PROVE Spec => OnlyMatchingConsumes
<1> DEFINE P == \A t \in Token : file[t] # NoAuth /\ file'[t] = NoAuth =>
              \E w \in Worker : /\ pc[w] = "takeWrite"
                                /\ request[w].token = t
                                /\ Matches(request[w], file[t])
<1>1. ASSUME TypeOK, Recorded, Serialized, [Next]_vars,
             NEW t \in Token, file[t] # NoAuth, file'[t] = NoAuth
      PROVE  \E w \in Worker : /\ pc[w] = "takeWrite"
                               /\ request[w].token = t
                               /\ Matches(request[w], file[t])
  <2>1. PICK w \in Worker : PutWrite(w) \/ TakeWrite(w)
    BY <1>1 DEF Next, Step, Authorize, BeginTake, PutRead, Peek, Check, TakeRead,
                ReadUnderLock, StoreFails, Crash, Tick, vars, history
  <2>2. view[w] = file /\ request[w].token \in Token /\ auth[w] # NoAuth
        /\ auth[w] = minted[request[w].token]
    BY <1>1, <2>1 DEF PutWrite, TakeWrite, TypeOK, Request, Recorded, RecordedAt,
                      Serialized, SerializedAt, Writing
  <2>3. pc[w] = "takeWrite" /\ request[w].token = t
    BY <1>1, <2>1, <2>2 DEF PutWrite, TakeWrite, TypeOK, Contents
  <2>4. Matches(request[w], auth[w]) /\ auth[w] = file[t]
    BY <1>1, <2>2, <2>3 DEF Serialized, SerializedAt, Recorded
  <2> QED
    BY <2>3, <2>4
<1>2. TypeOK /\ Recorded /\ Serialized /\ [Next]_vars => [P]_vars
  BY <1>1
<1> QED
  BY <1>2, SerializedAlways, PTL DEF Spec, OnlyMatchingConsumes

-----------------------------------------------------------------------------
(* The store implements OneTimeToken. *)

(* Every step of the threads of one process is a Mint, a Publish, a Use or *)
(* no step at all of the abstract store.                                   *)
LEMMA StepImplements ==
  ASSUME OneProcess
  PROVE  TypeOK /\ Recorded /\ Serialized /\ [Next]_vars
         => [Promise!Next]_(Promise!vars)
<1> SUFFICES ASSUME TypeOK, Recorded, Serialized, [Next]_vars
             PROVE  Promise!Next \/ UNCHANGED Promise!vars
  OBVIOUS
<1> DEFINE Live == {t \in Token : file[t] # NoAuth}
<1>0. ASSUME UNCHANGED <<file, history>> PROVE UNCHANGED Promise!vars
  BY <1>0 DEF history, Promise!vars
<1>1. ASSUME NEW w \in Worker, NEW t \in Token, NEW p \in Plan,
             NEW tg \in Target, NEW ttl \in TTLs, Authorize(w, t, p, tg, ttl)
      PROVE  Promise!Next
  <2>1. MintedFor(p, tg, ttl) \in Auth
    BY MintedForType
  <2>2. Promise!Mint(t)
    BY <1>1, <2>1 DEF Authorize, TypeOK, Contents, Promise!Mint
  <2> QED
    BY <2>2 DEF Promise!Next
<1>2. ASSUME NEW w \in Worker, PutWrite(w) PROVE Promise!Next
  <2>0. PICK t \in Token : t = request[w].token
    BY <1>2 DEF PutWrite, TypeOK, Request
  <2>1. /\ t \in Token /\ t \notin published /\ view[w] = file
        /\ auth[w] # NoAuth /\ auth[w] = minted[t]
    BY <1>2, <2>0 DEF PutWrite, TypeOK, Request, Recorded, RecordedAt, Serialized,
                SerializedAt, Writing, Putting
  <2>2. /\ file' = [file EXCEPT ![t] = auth[w]]
        /\ published' = published \cup {t}
        /\ UNCHANGED <<minted, uses, granted>>
    BY <1>2, <2>0, <2>1 DEF PutWrite
  <2>3. Live' = Live \cup {t}
    BY <2>1, <2>2 DEF TypeOK, Contents
  <2>4. Promise!Publish(t)
    BY <2>1, <2>2, <2>3 DEF Promise!Publish
  <2> QED
    BY <2>4 DEF Promise!Next
<1>3. ASSUME NEW w \in Worker, TakeWrite(w) PROVE Promise!Next
  <2>0. PICK t \in Token : t = request[w].token
    BY <1>3 DEF TakeWrite, TypeOK, Request
  <2>1. /\ t \in Token /\ file[t] # NoAuth /\ view[w] = file
        /\ auth[w] # NoAuth /\ auth[w] = minted[t]
    BY <1>3, <2>0 DEF TakeWrite, TypeOK, Request, Recorded, RecordedAt, Serialized,
                SerializedAt, Writing
  <2>2. /\ file' = [file EXCEPT ![t] = NoAuth]
        /\ granted' = [granted EXCEPT ![t] = minted[t]]
        /\ UNCHANGED <<minted, published>>
    BY <1>3, <2>0, <2>1 DEF TakeWrite, Grant
  <2>3. granted[t] = NoAuth
    BY <2>1 DEF Serialized, FileIsExact
  <2>4. Live' = Live \ {t}
    BY <2>1, <2>2 DEF TypeOK, Contents
  <2>5. Promise!Use(t)
    BY <2>1, <2>2, <2>3, <2>4 DEF Promise!Use
  <2> QED
    BY <2>5 DEF Promise!Next
<1>4. \/ \E w \in Worker : \/ \E t \in Token, p \in Plan, tg \in Target, ttl \in TTLs :
                                Authorize(w, t, p, tg, ttl)
                           \/ PutWrite(w)
                           \/ TakeWrite(w)
      \/ UNCHANGED <<file, history>>
  BY DEF Next, Step, BeginTake, PutRead, Peek, Check, TakeRead, ReadUnderLock,
         StoreFails, Crash, Tick, vars
<1> QED
  BY <1>0, <1>1, <1>2, <1>3, <1>4

(* The store of one process keeps the whole promise: published at most     *)
(* once, usable until used, used at most once, and for what was authorized. *)
THEOREM Implementation == ASSUME OneProcess PROVE Spec => ImplementsOneTimeToken
<1>1. Init => Promise!Init
  BY DEF Init, Promise!Init, Empty
<1> QED
  BY <1>1, StepImplements, SerializedAlways, PTL
     DEF Spec, ImplementsOneTimeToken, Promise!Spec
=============================================================================
